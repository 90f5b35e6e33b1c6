----------------------------- MODULE LiveProofs -----------------------------
(***************************************************************************)
(* Theorems about three of the models that MCLive puts side by side: a     *)
(* destination never holds a second status message (Publisher), fetches of *)
(* the catalog do not meet (Catalog), and the listener is closed for a     *)
(* flood that lasts, and for nothing less (HardClose).                     *)
(***************************************************************************)
EXTENDS MCLive, FiniteSetTheorems, TLAPS

-----------------------------------------------------------------------------
(* Publisher *)

LEMMA InitType == ASSUME PublisherConstants, Init PROVE TypeOK
<1>1. Idle \in Job /\ Idle.step = "idle"
  BY DEF PublisherConstants, Job, Idle, Ids
<1>2. /\ job \in [Threads -> Job]
      /\ \A t \in Threads : job[t].step = "posted" => job[t].id # "none"
  BY <1>1 DEF Init
<1>3. local \in [Engines -> 0..Interval] /\ age \in 0..Interval
  BY DEF PublisherConstants, Init
<1>4. running \in BOOLEAN /\ expired \in BOOLEAN
  BY DEF Init
<1>5. message \in Ids /\ copies \in 0..(2 + MaxLosses) /\ losses \in 0..MaxLosses
  BY DEF PublisherConstants, Init, Ids
<1> QED BY <1>2, <1>3, <1>4, <1>5 DEF TypeOK

\* Writing a job or a stamp of its type keeps the functions typed.
LEMMA JobTyped ==
  ASSUME TypeOK, NEW t \in Threads, NEW r \in Job, r.step = "posted" => r.id # "none",
         job' = [job EXCEPT ![t] = r]
  PROVE  /\ job' \in [Threads -> Job]
         /\ \A u \in Threads : job'[u].step = "posted" => job'[u].id # "none"
BY DEF TypeOK

LEMMA StampTyped ==
  ASSUME TypeOK, NEW e \in Engines, NEW a \in 0..Interval, Stamp(e, a)
  PROVE  local' \in [Engines -> 0..Interval]
BY DEF TypeOK, Stamp

LEMMA StepTyped ==
  ASSUME TypeOK, NEW t \in Threads, NEW step, Goes(t, step), step # "posted",
         step \in {"idle", "listed", "active", "polled", "claimed", "waiting"} \cup InLock
  PROVE  /\ job' \in [Threads -> Job]
         /\ \A u \in Threads : job'[u].step = "posted" => job'[u].id # "none"
<1> DEFINE r == [job[t] EXCEPT !.step = step]
<1>1. job[t] \in Job
  BY DEF TypeOK
<1>2. r \in Job /\ r.step = step
  BY <1>1 DEF Job
<1>3. job' = [job EXCEPT ![t] = r]
  BY DEF Goes
<1> QED BY <1>2, <1>3, JobTyped

LEMMA EndTyped ==
  ASSUME PublisherConstants, TypeOK, NEW t \in Threads, Ends(t)
  PROVE  /\ job' \in [Threads -> Job]
         /\ \A u \in Threads : job'[u].step = "posted" => job'[u].id # "none"
<1>1. Idle \in Job /\ Idle.step # "posted"
  BY DEF PublisherConstants, Idle, Job, Ids
<1> QED BY <1>1, JobTyped DEF Ends

LEMMA ThreadsOf ==
  ASSUME NEW e \in Engines PROVE Worker(e) \in Threads /\ Manual(e) \in Threads
BY DEF Worker, Manual, Threads

\* The steps of a tick keep the state well formed.
LEMMA TickType ==
  ASSUME PublisherConstants, TypeOK, NEW e \in Engines, TickStep(e) PROVE TypeOK'
<1>1. Worker(e) \in Threads
  BY ThreadsOf
<1>2. CASE TickLists(e)
  BY <1>1, <1>2, StepTyped DEF TickLists, TypeOK
<1>3. CASE TickChecksTrial(e)
  <2>1. /\ job' \in [Threads -> Job]
        /\ \A u \in Threads : job'[u].step = "posted" => job'[u].id # "none"
    BY <1>1, <1>3, StepTyped, EndTyped DEF TickChecksTrial
  <2>2. Interval \in 0..Interval
    BY DEF PublisherConstants
  <2>3. local' \in [Engines -> 0..Interval]
    BY <1>3, <2>2, StampTyped DEF TickChecksTrial, TypeOK
  <2>4. running' \in BOOLEAN
    BY <1>3, Zenon DEF TickChecksTrial, TypeOK
  <2> QED BY <1>3, <2>1, <2>3, <2>4 DEF TickChecksTrial, TypeOK
<1>4. CASE TickPolls(e)
  <2>1. age' \in 0..Interval
    BY <1>4 DEF TickPolls, TypeOK, PublisherConstants
  <2> QED BY <1>1, <1>4, <2>1, StepTyped DEF TickPolls, TypeOK
<1>5. CASE TickClaims(e)
  <2>1. age' \in 0..Interval
    BY <1>5 DEF TickClaims, Claim, PublisherConstants
  <2> QED BY <1>1, <1>5, <2>1, StepTyped DEF TickClaims, TypeOK
<1>6. CASE TickSkips(e)
  BY <1>1, <1>6, EndTyped DEF TickSkips, TypeOK
<1>7. CASE TickLocks(e)
  <2>1. job[Worker(e)] \in Job /\ message \in Ids
    BY <1>1 DEF TypeOK
  <2>2. job' = [job EXCEPT ![Worker(e)] =
                  [job[Worker(e)] EXCEPT !.step = "publishing", !.id = message]]
    BY <1>7 DEF TickLocks
  <2>3. LET r == [job[Worker(e)] EXCEPT !.step = "publishing", !.id = message]
        IN r \in Job /\ r.step = "publishing"
    BY <2>1 DEF Job, InLock
  <2>4. /\ job' \in [Threads -> Job]
        /\ \A u \in Threads : job'[u].step = "posted" => job'[u].id # "none"
    BY <1>1, <2>2, <2>3, JobTyped
  <2> QED BY <1>7, <2>4 DEF TickLocks, TypeOK
<1> QED BY <1>2, <1>3, <1>4, <1>5, <1>6, <1>7 DEF TickStep

\* Those of a manual publish do.
LEMMA GenerateType ==
  ASSUME PublisherConstants, TypeOK, NEW e \in Engines, GenerateBegins(e) \/ GenerateStep(e)
  PROVE  TypeOK'
<1>1. Manual(e) \in Threads /\ 0 \in 0..Interval
  BY ThreadsOf DEF PublisherConstants
<1>2. CASE GenerateBegins(e)
  BY <1>1, <1>2, StepTyped DEF GenerateBegins, TypeOK
<1>3. CASE GenerateLocks(e)
  <2> DEFINE r == [step |-> "publishing", id |-> message, moved |-> FALSE, spent |-> 0]
  <2>1. r \in Job /\ r.step = "publishing"
    BY DEF Job, InLock, TypeOK, PublisherConstants
  <2>2. /\ job' \in [Threads -> Job]
        /\ \A u \in Threads : job'[u].step = "posted" => job'[u].id # "none"
    BY <1>1, <1>3, <2>1, JobTyped DEF GenerateLocks
  <2> QED BY <1>1, <1>3, <2>2 DEF GenerateLocks, TypeOK
<1>4. CASE GenerateRuns(e)
  <2>1. running' \in BOOLEAN
    BY <1>4, Zenon DEF GenerateRuns
  <2> QED BY <1>1, <1>4, <2>1, EndTyped, StampTyped DEF GenerateRuns, TypeOK
<1> QED BY <1>2, <1>3, <1>4 DEF GenerateStep

LEMMA SpentBounded ==
  ASSUME PublisherConstants, TypeOK, NEW t \in Threads
  PROVE  Least(job[t].spent, Interval) \in 0..Interval
<1>1. job[t].spent \in 0..Limit
  BY DEF TypeOK, Job
<1> QED BY <1>1 DEF Least, PublisherConstants

LEMMA MoreTyped ==
  ASSUME PublisherConstants, TypeOK PROVE More(copies) \in 0..(2 + MaxLosses)
BY DEF TypeOK, More, Least, PublisherConstants

\* Those of a publish do.
LEMMA PublishType ==
  ASSUME PublisherConstants, TypeOK, NEW t \in Threads, PublishStep(t) PROVE TypeOK'
<1>1. t[1] \in Engines
  BY DEF Threads
<1>2. 0 \in 0..Interval
  BY DEF PublisherConstants
<1>3. ASSUME IF t[2] = "tick" THEN age' = 0 /\ Stamp(t[1], Least(job[t].spent, Interval))
             ELSE UNCHANGED <<age, local>>
      PROVE  age' \in 0..Interval /\ local' \in [Engines -> 0..Interval]
  BY <1>1, <1>2, <1>3, SpentBounded, StampTyped DEF TypeOK
<1>4. CASE Publishes(t)
  <2>1. job[t] \in Job
    BY DEF TypeOK
  <2>2. LET r == [job[t] EXCEPT !.step = "posted", !.id = "live"]
        IN r \in Job /\ r.id = "live"
    BY <2>1 DEF Job, InLock, Ids
  <2>3. job' = [job EXCEPT ![t] = [job[t] EXCEPT !.step = "posted", !.id = "live"]]
    BY <1>4 DEF Publishes, PublishEmbed
  <2>4. /\ job' \in [Threads -> Job]
        /\ \A u \in Threads : job'[u].step = "posted" => job'[u].id # "none"
    BY <2>2, <2>3, JobTyped
  <2>5. copies' \in 0..(2 + MaxLosses) /\ losses' \in 0..MaxLosses
    BY <1>4, MoreTyped DEF Publishes, PublishEmbed, Posts, TypeOK, PublisherConstants
  <2> QED BY <1>4, <2>4, <2>5 DEF Publishes, TypeOK
<1>5. CASE PublishFails(t)
  BY <1>3, <1>5, EndTyped DEF PublishFails, TypeOK
<1>6. CASE PublishUnnamed(t)
  <2>1. copies' \in 0..(2 + MaxLosses)
    BY <1>6, MoreTyped DEF PublishUnnamed, Posts, TypeOK
  <2>2. losses' \in 0..MaxLosses
    BY <1>6 DEF PublishUnnamed, TypeOK, PublisherConstants
  <2>3. running' \in BOOLEAN
    BY <1>6, Zenon DEF PublishUnnamed, TypeOK
  <2> QED BY <1>3, <1>6, <2>1, <2>2, <2>3, EndTyped DEF PublishUnnamed, TypeOK
<1>7. CASE Records(t)
  <2>1. job[t].id \in Ids
    BY DEF TypeOK, Job
  <2>2. message' \in Ids
    BY <1>7, <2>1 DEF Records, Ids
  <2>3. /\ job' \in [Threads -> Job]
        /\ \A u \in Threads : job'[u].step = "posted" => job'[u].id # "none"
    BY <1>7, StepTyped, EndTyped DEF Records, InLock
  <2>4. age' \in 0..Interval /\ local' \in [Engines -> 0..Interval]
    BY <1>1, <1>2, <1>7, SpentBounded, StampTyped DEF Records, TypeOK
  <2> QED BY <1>7, <2>2, <2>3, <2>4 DEF Records, TypeOK
<1> QED BY <1>4, <1>5, <1>6, <1>7 DEF PublishStep

\* The requests, the world, the clock and a death do.
LEMMA RequestType ==
  ASSUME PublisherConstants, TypeOK, NEW e \in Engines, Start(e) \/ Stop(e) PROVE TypeOK'
<1>1. Interval \in 0..Interval
  BY DEF PublisherConstants
<1>2. local' \in [Engines -> 0..Interval]
  BY <1>1, StampTyped DEF Start, Stop
<1>3. age' \in 0..Interval
  BY <1>1 DEF Start, Stop, TypeOK
<1>4. running' \in BOOLEAN
  BY Zenon DEF Start, Stop
<1> QED BY <1>2, <1>3, <1>4 DEF Start, Stop, TypeOK

LEMMA SaveType == ASSUME PublisherConstants, TypeOK, Save PROVE TypeOK'
<1>1. \A t \in Threads : /\ [job[t] EXCEPT !.moved = TRUE] \in Job
                          /\ [job[t] EXCEPT !.moved = TRUE].step = job[t].step
                          /\ [job[t] EXCEPT !.moved = TRUE].id = job[t].id
  BY DEF TypeOK, Job
<1>2. /\ job' \in [Threads -> Job]
      /\ \A t \in Threads : job'[t].step = "posted" => job'[t].id # "none"
  BY <1>1 DEF Save, TypeOK
<1>3. message' \in Ids /\ copies' \in 0..(2 + MaxLosses) /\ losses' \in 0..MaxLosses
  BY DEF Save, TypeOK, Ids, PublisherConstants
<1> QED BY <1>2, <1>3 DEF Save, TypeOK

LEMMA EraseType == ASSUME PublisherConstants, TypeOK, Erase PROVE TypeOK'
<1> DEFINE Lost(id) == IF id = "live" THEN "gone" ELSE id
           Left(t) == IF job[t].moved THEN job[t]
                      ELSE [job[t] EXCEPT !.id = Lost(job[t].id)]
<1>1. ASSUME NEW t \in Threads
      PROVE  /\ Left(t) \in Job /\ Left(t).step = job[t].step
             /\ job[t].id # "none" => Left(t).id # "none"
  <2>1. job[t] \in Job
    BY DEF TypeOK
  <2>2. Lost(job[t].id) \in Ids /\ (job[t].id # "none" => Lost(job[t].id) # "none")
    BY <2>1 DEF Job, Ids
  <2> HIDE DEF Lost
  <2> QED BY <2>1, <2>2 DEF Job
<1>2. job' = [t \in Threads |-> Left(t)] /\ message' = Lost(message) /\ copies' = 0
  BY DEF Erase
<1>3. /\ job' \in [Threads -> Job]
      /\ \A t \in Threads : job'[t].step = "posted" => job'[t].id # "none"
  <2> HIDE DEF Left
  <2> QED BY <1>1, <1>2 DEF TypeOK
<1>4. message' \in Ids /\ copies' \in 0..(2 + MaxLosses)
  BY <1>2 DEF TypeOK, Ids, PublisherConstants
<1> QED BY <1>3, <1>4 DEF Erase, TypeOK

LEMMA ClockType == ASSUME PublisherConstants, TypeOK, Clock PROVE TypeOK'
<1>1. age' \in 0..Interval /\ local' \in [Engines -> 0..Interval]
  BY DEF Clock, TypeOK, Least, PublisherConstants
<1>2. ASSUME NEW t \in Threads
      PROVE  LET r == [job[t] EXCEPT !.spent = Least(job[t].spent + 1, Limit)]
             IN r \in Job /\ r.step = job[t].step /\ r.id = job[t].id
  <2>1. job[t] \in Job
    BY DEF TypeOK
  <2>2. Least(job[t].spent + 1, Limit) \in 0..Limit
    BY <2>1 DEF Job, Least, PublisherConstants
  <2> QED BY <2>1, <2>2 DEF Job
<1>3. /\ job' \in [Threads -> Job]
      /\ \A t \in Threads : job'[t].step = "posted" => job'[t].id # "none"
  BY <1>2 DEF Clock, TypeOK
<1> QED BY <1>1, <1>3 DEF Clock, TypeOK

LEMMA CrashType ==
  ASSUME PublisherConstants, TypeOK, NEW e \in Engines, Crash(e) PROVE TypeOK'
<1>1. Idle \in Job /\ Idle.step = "idle"
  BY DEF PublisherConstants, Idle, Job, Ids
<1>2. /\ job' \in [Threads -> Job]
      /\ \A t \in Threads : job'[t].step = "posted" => job'[t].id # "none"
  BY <1>1 DEF Crash, TypeOK
<1>3. local' \in [Engines -> 0..Interval]
  BY StampTyped DEF Crash, PublisherConstants
<1>4. losses' \in 0..MaxLosses
  BY DEF Crash, TypeOK, PublisherConstants
<1> QED BY <1>2, <1>3, <1>4 DEF Crash, TypeOK

LEMMA WorldType ==
  ASSUME PublisherConstants, TypeOK, TrialEnds \/ TrialSweep PROVE TypeOK'
<1>1. running' \in BOOLEAN /\ expired' \in BOOLEAN
  BY Zenon DEF TrialEnds, TrialSweep, TypeOK
<1> QED BY <1>1 DEF TrialEnds, TrialSweep, TypeOK

LEMMA NextType == ASSUME PublisherConstants, TypeOK, [Next]_vars PROVE TypeOK'
<1>1. CASE UNCHANGED vars
  BY <1>1 DEF vars, TypeOK
<1>2. CASE Next
  BY <1>2, TickType, GenerateType, PublishType, RequestType, SaveType, EraseType, ClockType,
     CrashType, WorldType DEF Next
<1> QED BY <1>1, <1>2

\* The rows, leases, stamps and jobs keep their types (TypeOK).
THEOREM TypeCorrect == Spec => []TypeOK
<1>1. Init => TypeOK
  BY InitType, PublisherConstants
<1>2. TypeOK /\ [Next]_vars => TypeOK'
  BY NextType, PublisherConstants
<1> QED BY <1>1, <1>2, PTL DEF Spec

-----------------------------------------------------------------------------
(* One message *)

\* One thread at a time is between its read of the row and its last write.
Exclusive ==
  \A t, u \in Threads : job[t].step \in InLock /\ job[u].step \in InLock => t = u

\* The row, or the publish that is about to write it, names a message.
Unrecorded(t) == job[t].step = "posted" /\ ~job[t].moved
Findable ==
  IF \E t \in Threads : Unrecorded(t)
  THEN \E t \in Threads : Unrecorded(t) /\ job[t].id = "live"
  ELSE message = "live"

\* Every message but the one that can be found was paid for by a loss.
Accounted == copies <= losses \/ (copies <= losses + 1 /\ Findable)

\* A publish has read the message that the row names, or the destination was
\* changed and the row names nothing there.
ReadsHold ==
  \A t \in Threads :
    /\ job[t].moved => job[t].step \in InLock
    /\ job[t].step = "publishing" /\ ~job[t].moved /\ message = "live" => job[t].id = "live"
    /\ job[t].step \in {"publishing", "posted"} /\ job[t].moved => message # "live"

\* The thread that won the lease is alone until the lease ends.
Due(t) == job[t].step \in InLock \cup {"claimed"}
Leased ==
  /\ \A t, u \in Threads : Due(t) /\ Due(u) => t = u
  /\ \A t \in Threads : Due(t) => age <= job[t].spent
  /\ \A t \in Threads : t[2] = "manual" => job[t].step = "idle"

\* A step that posts, records and moves nothing, of a thread that is not
\* about to.
Pending == {"publishing", "posted"}
Quiet(t) ==
  /\ job'[t].moved => job'[t].step \in InLock
  /\ \/ job[t].step \notin Pending /\ job'[t].step \notin Pending
     \/ /\ job'[t].step = job[t].step /\ job'[t].id = job[t].id
        /\ job'[t].moved <=> job[t].moved

LEMMA QuietKeeps ==
  ASSUME Accounted, ReadsHold, UNCHANGED <<copies, losses, message>>,
         \A t \in Threads : Quiet(t)
  PROVE  Accounted' /\ ReadsHold'
<1>1. ReadsHold'
  BY DEF ReadsHold, Quiet, Pending
<1>2. \A t \in Threads : /\ (Unrecorded(t)' <=> Unrecorded(t))
                          /\ (Unrecorded(t) => job'[t].id = job[t].id)
  BY DEF Unrecorded, Quiet, Pending
<1>3. Findable' <=> Findable
  <2> HIDE DEF Unrecorded
  <2>1. (\E t \in Threads : Unrecorded(t)') <=> (\E t \in Threads : Unrecorded(t))
    BY <1>2
  <2>2. (\E t \in Threads : Unrecorded(t)' /\ job'[t].id = "live")
          <=> (\E t \in Threads : Unrecorded(t) /\ job[t].id = "live")
    BY <1>2
  <2> QED BY <2>1, <2>2 DEF Findable
<1> QED BY <1>1, <1>3 DEF Accounted

LEMMA OneMoves ==
  ASSUME TypeOK, ReadsHold, NEW t \in Threads, NEW r, job' = [job EXCEPT ![t] = r],
         job[t].step \notin Pending, r.step \notin Pending, r.moved => r.step \in InLock
  PROVE  \A u \in Threads : Quiet(u)
BY DEF TypeOK, ReadsHold, Quiet

LEMMA GoesQuietly ==
  ASSUME TypeOK, ReadsHold, NEW t \in Threads, NEW step, Goes(t, step),
         job[t].step \notin InLock, step \notin Pending
  PROVE  \A u \in Threads : Quiet(u)
<1> DEFINE r == [job[t] EXCEPT !.step = step]
<1>1. job[t] \in Job
  BY DEF TypeOK
<1>2. r.step = step /\ r.moved = job[t].moved /\ ~job[t].moved
  BY <1>1 DEF Job, ReadsHold
<1>3. job' = [job EXCEPT ![t] = r]
  BY DEF Goes
<1>4. job[t].step \notin Pending
  BY DEF Pending, InLock
<1> HIDE DEF r
<1> QED BY <1>2, <1>3, <1>4, OneMoves

LEMMA EndsQuietly ==
  ASSUME TypeOK, ReadsHold, NEW t \in Threads, Ends(t), job[t].step \notin Pending
  PROVE  \A u \in Threads : Quiet(u)
<1>1. Idle.step = "idle" /\ ~Idle.moved
  BY DEF Idle
<1> QED BY <1>1, OneMoves DEF Ends, Pending

LEMMA TickQuiet ==
  ASSUME TypeOK, ReadsHold, NEW e \in Engines,
         TickLists(e) \/ TickChecksTrial(e) \/ TickPolls(e) \/ TickClaims(e) \/ TickSkips(e)
  PROVE  (\A t \in Threads : Quiet(t)) /\ UNCHANGED <<copies, losses, message>>
<1>1. Worker(e) \in Threads
  BY ThreadsOf
<1>2. CASE TickLists(e)
  BY <1>1, <1>2, GoesQuietly DEF TickLists, InLock, Pending
<1>3. CASE TickChecksTrial(e)
  BY <1>1, <1>3, GoesQuietly, EndsQuietly DEF TickChecksTrial, InLock, Pending
<1>4. CASE TickPolls(e)
  BY <1>1, <1>4, GoesQuietly DEF TickPolls, InLock, Pending
<1>5. CASE TickClaims(e)
  BY <1>1, <1>5, GoesQuietly DEF TickClaims, InLock, Pending
<1>6. CASE TickSkips(e)
  BY <1>1, <1>6, EndsQuietly DEF TickSkips, InLock, Pending
<1> QED BY <1>2, <1>3, <1>4, <1>5, <1>6

LEMMA GenerateQuiet ==
  ASSUME TypeOK, ReadsHold, NEW e \in Engines, GenerateBegins(e) \/ GenerateRuns(e)
  PROVE  (\A t \in Threads : Quiet(t)) /\ UNCHANGED <<copies, losses, message>>
<1>1. Manual(e) \in Threads
  BY ThreadsOf
<1>2. CASE GenerateBegins(e)
  BY <1>1, <1>2, GoesQuietly DEF GenerateBegins, InLock, Pending
<1>3. CASE GenerateRuns(e)
  BY <1>1, <1>3, EndsQuietly DEF GenerateRuns, Pending
<1> QED BY <1>2, <1>3

LEMMA ClockQuiet ==
  ASSUME TypeOK, ReadsHold, Clock
  PROVE  (\A t \in Threads : Quiet(t)) /\ UNCHANGED <<copies, losses, message>>
<1>1. \A t \in Threads : LET r == [job[t] EXCEPT !.spent = Least(job[t].spent + 1, Limit)]
                         IN r.step = job[t].step /\ r.id = job[t].id /\ r.moved = job[t].moved
  BY DEF TypeOK, Job
<1>2. \A t \in Threads : /\ job'[t].step = job[t].step /\ job'[t].id = job[t].id
                         /\ job'[t].moved = job[t].moved
  BY <1>1 DEF Clock, TypeOK
<1>3. \A t \in Threads : job'[t].moved => job'[t].step \in InLock
  BY <1>2 DEF ReadsHold
<1> QED BY <1>2, <1>3 DEF Clock, Quiet

\* While a thread is in the lock, no other has read or posted anything.
LEMMA Alone ==
  ASSUME Exclusive, NEW t \in Threads, job[t].step \in InLock, NEW u \in Threads, u # t
  PROVE  job[u].step \notin InLock /\ job[u].step \notin Pending
BY DEF Exclusive, InLock, Pending

\* A publish that begins has read what the row holds.
LEMMA ReadKeeps ==
  ASSUME TypeOK, Accounted, ReadsHold, NEW t \in Threads, NEW r \in Job,
         \A u \in Threads : job[u].step \notin InLock,
         r.step = "publishing", r.id = message, ~r.moved, job' = [job EXCEPT ![t] = r],
         UNCHANGED <<copies, losses, message>>
  PROVE  Accounted' /\ ReadsHold'
<1>1. /\ job'[t] = r
      /\ \A u \in Threads : u # t => job'[u] = job[u]
  BY DEF TypeOK
<1>2. ReadsHold'
  BY <1>1 DEF ReadsHold, InLock
<1>3. ~(\E u \in Threads : Unrecorded(u)) /\ ~(\E u \in Threads : Unrecorded(u)')
  BY <1>1 DEF Unrecorded, InLock
<1>4. Findable' <=> Findable
  BY <1>3 DEF Findable
<1> QED BY <1>2, <1>4 DEF Accounted

LEMMA LockKeeps ==
  ASSUME TypeOK, Exclusive', Accounted, ReadsHold, PublisherConstants,
         NEW e \in Engines, TickLocks(e) \/ GenerateLocks(e)
  PROVE  Accounted' /\ ReadsHold'
<1>1. PICK t \in Threads : \E r \in Job :
        /\ r.step = "publishing" /\ r.id = message /\ ~r.moved
        /\ job[t].step \notin InLock /\ job' = [job EXCEPT ![t] = r]
  <2>1. CASE TickLocks(e)
    <3> DEFINE r == [job[Worker(e)] EXCEPT !.step = "publishing", !.id = message]
    <3>1. Worker(e) \in Threads /\ job[Worker(e)] \in Job
      BY ThreadsOf DEF TypeOK
    <3>2. job[Worker(e)].step \notin InLock /\ ~job[Worker(e)].moved
      BY <2>1, <3>1 DEF TickLocks, InLock, ReadsHold
    <3>3. r \in Job /\ r.step = "publishing" /\ r.id = message /\ ~r.moved
      BY <3>1, <3>2 DEF Job, InLock, TypeOK
    <3>4. job' = [job EXCEPT ![Worker(e)] = r]
      BY <2>1 DEF TickLocks
    <3> HIDE DEF r
    <3> QED BY <3>1, <3>2, <3>3, <3>4
  <2>2. CASE GenerateLocks(e)
    <3> DEFINE r == [step |-> "publishing", id |-> message, moved |-> FALSE, spent |-> 0]
    <3>1. Manual(e) \in Threads
      BY ThreadsOf
    <3>2. job[Manual(e)].step \notin InLock
      BY <2>2 DEF GenerateLocks, InLock
    <3>3. r \in Job /\ r.step = "publishing" /\ r.id = message /\ ~r.moved
      BY DEF Job, InLock, TypeOK, PublisherConstants
    <3>4. job' = [job EXCEPT ![Manual(e)] = r]
      BY <2>2 DEF GenerateLocks
    <3> HIDE DEF r
    <3> QED BY <3>1, <3>2, <3>3, <3>4
  <2> QED BY <2>1, <2>2
<1>2. PICK r \in Job : /\ r.step = "publishing" /\ r.id = message /\ ~r.moved
                       /\ job[t].step \notin InLock /\ job' = [job EXCEPT ![t] = r]
  BY <1>1
<1>3. \A u \in Threads : job[u].step \notin InLock
  <2>1. job'[t].step \in InLock /\ \A u \in Threads : u # t => job'[u] = job[u]
    BY <1>2 DEF TypeOK, InLock
  <2> QED BY <1>2, <2>1 DEF Exclusive
<1>4. UNCHANGED <<copies, losses, message>>
  BY DEF TickLocks, GenerateLocks
<1> QED BY <1>2, <1>3, <1>4, ReadKeeps

LEMMA MoreByOne == ASSUME TypeOK, PublisherConstants PROVE More(copies) <= copies + 1
BY DEF More, Least, TypeOK, PublisherConstants

\* What the steps of a publish keep.
LEMMA PublishKeeps ==
  ASSUME PublisherConstants, TypeOK, Exclusive, Accounted, ReadsHold,
         NEW t \in Threads, PublishStep(t)
  PROVE  Accounted' /\ ReadsHold'
<1>1. /\ job[t].step \in InLock /\ job[t] \in Job
      /\ \A u \in Threads : u # t => job[u].step \notin InLock /\ job[u].step \notin Pending
  BY Alone DEF PublishStep, Publishes, PublishFails, PublishUnnamed, Records, InLock, TypeOK
<1>2. copies \in Int /\ losses \in Int /\ copies' \in Int
  BY PublishType DEF TypeOK, PublisherConstants
<1>3. \A u \in Threads : u # t => job'[u] = job[u]
  <2>1. \/ \E step, id : job' = [job EXCEPT ![t].step = step, ![t].id = id]
        \/ Ends(t) \/ Goes(t, "recorded")
    BY DEF PublishStep, Publishes, PublishEmbed, PublishFails, PublishUnnamed, Records
  <2> QED BY <2>1 DEF Ends, Goes, TypeOK
<1>4. ASSUME job'[t] = Idle \/ job'[t].step = "recorded" PROVE ~(\E u \in Threads : Unrecorded(u)')
  BY <1>1, <1>3, <1>4 DEF Unrecorded, InLock, Idle
<1>5. job[t].step = "publishing" => ~(\E u \in Threads : Unrecorded(u))
  BY <1>1 DEF Unrecorded, InLock
<1>6. Ends(t) => job'[t] = Idle
  BY DEF Ends, TypeOK
<1>7. ASSUME job'[t] = Idle \/ (job'[t].step = "recorded" /\ job'[t].moved = job[t].moved)
      PROVE  ReadsHold'
  BY <1>1, <1>3, <1>7 DEF ReadsHold, InLock, Pending, Idle
<1>8. CASE Publishes(t)
  <2>1. job[t].step = "publishing" /\ message' = message
    BY <1>8 DEF Publishes
  <2>2. job'[t] = [job[t] EXCEPT !.step = "posted", !.id = "live"]
    BY <1>8 DEF Publishes, PublishEmbed, TypeOK
  <2>3. job'[t].step = "posted" /\ job'[t].id = "live" /\ job'[t].moved = job[t].moved
    BY <1>1, <2>2 DEF Job
  <2>4. ReadsHold'
    BY <1>1, <1>3, <2>1, <2>3 DEF ReadsHold, InLock, Pending
  <2>5. losses' \in {losses, losses + 1}
    BY <1>8 DEF Publishes, PublishEmbed
  <2>6. CASE job[t].moved
    <3>1. copies' = copies /\ message # "live"
      BY <1>8, <2>1, <2>6 DEF Publishes, PublishEmbed, Posts, ReadsHold
    <3>2. ~Findable
      BY <1>5, <2>1, <3>1 DEF Findable
    <3>3. copies <= losses
      BY <3>2 DEF Accounted
    <3>4. copies' <= losses'
      BY <1>2, <2>5, <3>1, <3>3
    <3> QED BY <2>4, <3>4 DEF Accounted
  <2>7. CASE ~job[t].moved
    <3>1. Findable'
      BY <2>3, <2>7 DEF Findable, Unrecorded
    <3>2. copies' <= losses' + 1
      <4>1. CASE job[t].id = "live"
        <5>1. \/ copies' = copies /\ losses' = losses
              \/ copies' = More(copies) /\ losses' = losses + 1
          BY <1>8, <2>7, <4>1 DEF Publishes, PublishEmbed, Posts
        <5> QED BY <1>2, <5>1, MoreByOne DEF Accounted
      <4>2. CASE job[t].id # "live"
        <5>1. ~Findable
          BY <1>5, <2>1, <2>7, <4>2 DEF Findable, ReadsHold
        <5>2. copies' = More(copies) /\ losses' = losses
          BY <1>8, <2>7, <4>2 DEF Publishes, PublishEmbed, Posts
        <5> QED BY <1>2, <5>1, <5>2, MoreByOne DEF Accounted
      <4> QED BY <4>1, <4>2
    <3> QED BY <2>4, <3>1, <3>2 DEF Accounted
  <2> QED BY <2>6, <2>7
<1>9. CASE PublishFails(t)
  <2>1. job[t].step = "publishing" /\ job'[t] = Idle /\ UNCHANGED <<copies, message, losses>>
    BY <1>6, <1>9 DEF PublishFails
  <2>2. Findable' <=> Findable
    BY <1>4, <1>5, <2>1 DEF Findable
  <2> QED BY <1>7, <2>1, <2>2 DEF Accounted
<1>10. CASE PublishUnnamed(t)
  <2>1. /\ job[t].step = "publishing" /\ job'[t] = Idle
        /\ message' = message /\ losses' = losses + 1
        /\ copies' = IF job[t].moved THEN copies ELSE More(copies)
    BY <1>6, <1>10 DEF PublishUnnamed, Posts
  <2>2. Findable' <=> Findable
    BY <1>4, <1>5, <2>1 DEF Findable
  <2>3. copies' <= copies + 1
    BY <1>2, <2>1, MoreByOne
  <2> QED BY <1>2, <1>7, <2>1, <2>2, <2>3 DEF Accounted
<1>11. CASE Records(t)
  <2>1. /\ job[t].step = "posted" /\ UNCHANGED <<copies, losses>>
        /\ message' = IF job[t].moved THEN "gone" ELSE job[t].id
    BY <1>11 DEF Records
  <2>2. job'[t] = Idle \/ (job'[t].step = "recorded" /\ job'[t].moved = job[t].moved)
    <3>1. CASE Ends(t)
      BY <1>6, <3>1
    <3>2. CASE Goes(t, "recorded")
      <4>1. job'[t] = [job[t] EXCEPT !.step = "recorded"]
        BY <3>2 DEF Goes, TypeOK
      <4> QED BY <1>1, <4>1 DEF Job
    <3> QED BY <1>11, <3>1, <3>2 DEF Records
  <2>3. Findable' <=> message' = "live"
    BY <1>4, <2>2 DEF Findable
  <2>4. Findable => Findable'
    <3>1. CASE job[t].moved
      <4>1. message # "live" /\ ~Unrecorded(t)
        BY <2>1, <3>1 DEF ReadsHold, Unrecorded
      <4>2. ~(\E u \in Threads : Unrecorded(u))
        BY <1>1, <4>1 DEF Unrecorded, InLock
      <4> QED BY <4>1, <4>2 DEF Findable
    <3>2. CASE ~job[t].moved
      <4>1. Unrecorded(t) /\ \A u \in Threads : Unrecorded(u) => u = t
        BY <1>1, <2>1, <3>2 DEF Unrecorded, InLock
      <4>2. Findable => job[t].id = "live"
        BY <4>1 DEF Findable
      <4> QED BY <2>1, <2>3, <3>2, <4>2
    <3> QED BY <3>1, <3>2
  <2> QED BY <1>7, <2>1, <2>2, <2>4 DEF Accounted
<1> QED BY <1>8, <1>9, <1>10, <1>11 DEF PublishStep

LEMMA SaveKeeps ==
  ASSUME PublisherConstants, TypeOK, Accounted, ReadsHold, Save PROVE Accounted' /\ ReadsHold'
<1>1. message' = "none"
  BY DEF Save
<1>2. CASE /\ copies' = 0 /\ UNCHANGED losses
           /\ job' = [t \in Threads |-> IF job[t].step \in InLock
                                        THEN [job[t] EXCEPT !.moved = TRUE] ELSE job[t]]
  <2>1. copies' <= losses'
    BY <1>2 DEF TypeOK, PublisherConstants
  <2>2. ASSUME NEW t \in Threads
        PROVE  /\ job'[t].step = job[t].step
               /\ job[t].step \in InLock => job'[t].moved
               /\ job[t].step \notin InLock => ~job'[t].moved
    <3>1. job[t] \in Job
      BY DEF TypeOK
    <3>2. [job[t] EXCEPT !.moved = TRUE].step = job[t].step /\ [job[t] EXCEPT !.moved = TRUE].moved
      BY <3>1 DEF Job
    <3>3. job'[t] = IF job[t].step \in InLock THEN [job[t] EXCEPT !.moved = TRUE] ELSE job[t]
      BY <1>2
    <3> QED BY <3>2, <3>3 DEF ReadsHold
  <2>3. ReadsHold'
    BY <1>1, <2>2 DEF ReadsHold, InLock
  <2> QED BY <2>1, <2>3 DEF Accounted
\* The id that is taken out of the row is a loss.
<1>3. CASE UNCHANGED <<copies, job>> /\ message = "live" /\ losses' = losses + 1
  <2>1. ReadsHold'
    BY <1>1, <1>3 DEF ReadsHold
  <2> QED BY <1>3, <2>1 DEF Accounted, TypeOK, PublisherConstants
<1>4. CASE UNCHANGED <<copies, job, losses>> /\ message # "live"
  <2>1. ReadsHold'
    BY <1>1, <1>4 DEF ReadsHold
  <2>2. \A t \in Threads : Unrecorded(t)' <=> Unrecorded(t)
    BY <1>4 DEF Unrecorded
  <2>3. Findable' <=> Findable
    BY <1>1, <1>4, <2>2 DEF Findable
  <2> QED BY <1>4, <2>1, <2>3 DEF Accounted
<1> QED BY <1>2, <1>3, <1>4 DEF Save

LEMMA EraseKeeps ==
  ASSUME PublisherConstants, TypeOK, ReadsHold, Erase PROVE Accounted' /\ ReadsHold'
<1> DEFINE Lost(id) == IF id = "live" THEN "gone" ELSE id
<1>1. copies' <= losses' /\ message' = Lost(message)
  BY DEF Erase, TypeOK, PublisherConstants
<1>2. ASSUME NEW t \in Threads
      PROVE  /\ job'[t].step = job[t].step /\ (job'[t].moved <=> job[t].moved)
             /\ ~job[t].moved => job'[t].id = Lost(job[t].id)
  <2>1. job[t] \in Job
    BY DEF TypeOK
  <2>2. LET r == [job[t] EXCEPT !.id = Lost(job[t].id)]
        IN r.step = job[t].step /\ r.moved = job[t].moved /\ r.id = Lost(job[t].id)
    BY <2>1 DEF Job
  <2>3. job'[t] = IF job[t].moved THEN job[t] ELSE [job[t] EXCEPT !.id = Lost(job[t].id)]
    BY DEF Erase
  <2> HIDE DEF Lost
  <2> QED BY <2>2, <2>3
<1>3. message' # "live"
  BY <1>1
<1>4. ReadsHold'
  <2> HIDE DEF Lost
  <2> QED BY <1>1, <1>2, <1>3 DEF ReadsHold
<1> QED BY <1>1, <1>4 DEF Accounted

LEMMA CrashKeeps ==
  ASSUME PublisherConstants, TypeOK, Accounted, ReadsHold, NEW e \in Engines, Crash(e)
  PROVE  Accounted' /\ ReadsHold'
<1>1. copies' <= losses'
  BY DEF Crash, Accounted, TypeOK, PublisherConstants
<1>2. \A t \in Threads : job'[t] = Idle \/ job'[t] = job[t]
  BY DEF Crash
<1>3. message' = message
  BY DEF Crash
<1>4. ReadsHold'
  BY <1>2, <1>3 DEF ReadsHold, Idle
<1> QED BY <1>1, <1>4 DEF Accounted

LEMMA RestKeeps ==
  ASSUME ReadsHold, Accounted, UNCHANGED <<copies, losses, message, job>>
  PROVE  Accounted' /\ ReadsHold'
<1>1. \A t \in Threads : Quiet(t)
  BY DEF ReadsHold, Quiet
<1> QED BY <1>1, QuietKeeps

\* Whatever keeps two publishes apart, the messages are accounted for.
LEMMA MessagesKept ==
  ASSUME PublisherConstants, TypeOK, Exclusive, Exclusive', Accounted, ReadsHold, [Next]_vars
  PROVE  Accounted' /\ ReadsHold'
<1>1. CASE UNCHANGED vars
  BY <1>1, RestKeeps DEF vars
<1>2. ASSUME NEW e \in Engines, TickStep(e) PROVE Accounted' /\ ReadsHold'
  BY <1>2, TickQuiet, QuietKeeps, LockKeeps DEF TickStep
<1>3. ASSUME NEW e \in Engines, GenerateBegins(e) \/ GenerateStep(e)
      PROVE  Accounted' /\ ReadsHold'
  BY <1>3, GenerateQuiet, QuietKeeps, LockKeeps DEF GenerateStep
<1>4. ASSUME NEW e \in Engines, Start(e) \/ Stop(e) \/ Crash(e) PROVE Accounted' /\ ReadsHold'
  BY <1>4, RestKeeps, CrashKeeps DEF Start, Stop
<1>5. ASSUME NEW t \in Threads, PublishStep(t) PROVE Accounted' /\ ReadsHold'
  BY <1>5, PublishKeeps
<1>6. CASE TrialEnds \/ TrialSweep
  BY <1>6, RestKeeps DEF TrialEnds, TrialSweep
<1>7. CASE Clock
  BY <1>7, ClockQuiet, QuietKeeps
<1>8. CASE Save \/ Erase
  BY <1>8, SaveKeeps, EraseKeeps
<1> QED BY <1>1, <1>2, <1>3, <1>4, <1>5, <1>6, <1>7, <1>8 DEF Next

LEMMA MessagesInit == ASSUME PublisherConstants, Init PROVE Accounted /\ ReadsHold /\ Exclusive
<1>1. \A t \in Threads : job[t] = Idle
  BY DEF Init
<1>2. ReadsHold /\ Exclusive
  BY <1>1 DEF ReadsHold, Exclusive, Idle, InLock
<1>3. copies <= losses
  BY DEF Init
<1> QED BY <1>2, <1>3 DEF Accounted

LEMMA AccountedMeans == ASSUME PublisherConstants, TypeOK, Accounted PROVE OneMessage
BY DEF Accounted, OneMessage, TypeOK, PublisherConstants

-----------------------------------------------------------------------------
(* Who is in the lock, and who has the lease *)

Stays(t) ==
  /\ job'[t].step \in InLock => job[t].step \in InLock
  /\ Due(t)' => Due(t) /\ job'[t].spent = job[t].spent

LEMMA GoesStays ==
  ASSUME TypeOK, NEW t \in Threads, NEW step, Goes(t, step),
         step \in InLock => job[t].step \in InLock, step # "claimed"
  PROVE  \A u \in Threads : Stays(u)
<1>1. job[t] \in Job
  BY DEF TypeOK
<1>2. job' = [job EXCEPT ![t] = [job[t] EXCEPT !.step = step]]
  BY DEF Goes
<1>3. job'[t] = [job[t] EXCEPT !.step = step] /\ \A u \in Threads : u # t => job'[u] = job[u]
  BY <1>2 DEF TypeOK
<1>4. job'[t].step = step /\ job'[t].spent = job[t].spent
  BY <1>1, <1>3 DEF Job
<1> QED BY <1>3, <1>4 DEF Stays, Due

LEMMA EndsStays ==
  ASSUME TypeOK, NEW t \in Threads, Ends(t) PROVE \A u \in Threads : Stays(u)
BY DEF TypeOK, Ends, Idle, Stays, Due, InLock

LEMMA SameStays == ASSUME UNCHANGED job PROVE \A u \in Threads : Stays(u)
BY DEF Stays, Due

LEMMA TickStays ==
  ASSUME TypeOK, NEW e \in Engines,
         TickLists(e) \/ TickChecksTrial(e) \/ TickPolls(e) \/ TickSkips(e)
  PROVE  (\A u \in Threads : Stays(u)) /\ age' \in {age, 0}
<1>1. Worker(e) \in Threads
  BY ThreadsOf
<1>2. CASE TickLists(e)
  BY <1>1, <1>2, GoesStays DEF TickLists, InLock
<1>3. CASE TickChecksTrial(e)
  BY <1>1, <1>3, GoesStays, EndsStays DEF TickChecksTrial, InLock
<1>4. CASE TickPolls(e)
  BY <1>1, <1>4, GoesStays DEF TickPolls, InLock
<1>5. CASE TickSkips(e)
  BY <1>1, <1>5, EndsStays DEF TickSkips
<1> QED BY <1>2, <1>3, <1>4, <1>5

LEMMA PublishStays ==
  ASSUME TypeOK, NEW t \in Threads, PublishStep(t)
  PROVE  (\A u \in Threads : Stays(u)) /\ age' \in {age, 0}
<1>1. CASE Publishes(t)
  <2>1. job[t] \in Job /\ job[t].step \in InLock
    BY <1>1 DEF TypeOK, Publishes, InLock
  <2>2. job' = [job EXCEPT ![t] = [job[t] EXCEPT !.step = "posted", !.id = "live"]]
    BY <1>1 DEF Publishes, PublishEmbed
  <2>3. LET r == [job[t] EXCEPT !.step = "posted", !.id = "live"] IN r.spent = job[t].spent
    BY <2>1 DEF Job
  <2>4. job'[t].spent = job[t].spent /\ \A u \in Threads : u # t => job'[u] = job[u]
    BY <2>2, <2>3 DEF TypeOK
  <2> QED BY <1>1, <2>1, <2>4 DEF Publishes, Stays, Due
<1>2. CASE PublishFails(t)
  BY <1>2, EndsStays DEF PublishFails
<1>3. CASE PublishUnnamed(t)
  BY <1>3, EndsStays DEF PublishUnnamed
<1>4. CASE Records(t)
  BY <1>4, EndsStays, GoesStays DEF Records, InLock
<1> QED BY <1>1, <1>2, <1>3, <1>4 DEF PublishStep

LEMMA GenerateStays ==
  ASSUME TypeOK, NEW e \in Engines, GenerateBegins(e) \/ GenerateRuns(e)
  PROVE  (\A u \in Threads : Stays(u)) /\ age' \in {age, 0}
BY ThreadsOf, GoesStays, EndsStays DEF GenerateBegins, GenerateRuns, InLock

LEMMA WorldStays ==
  ASSUME TypeOK, NEW e \in Engines,
         Stop(e) \/ Crash(e) \/ Save \/ Erase \/ TrialEnds \/ TrialSweep
  PROVE  (\A u \in Threads : Stays(u)) /\ age' \in {age, 0}
<1>1. CASE Stop(e) \/ TrialEnds \/ TrialSweep
  BY <1>1, SameStays DEF Stop, TrialEnds, TrialSweep
<1>2. CASE Crash(e)
  BY <1>2 DEF Crash, Idle, Stays, Due, InLock
<1>3. CASE Save
  <2>1. \A t \in Threads : LET r == [job[t] EXCEPT !.moved = TRUE]
                           IN r.step = job[t].step /\ r.spent = job[t].spent
    BY DEF TypeOK, Job
  <2>2. \A t \in Threads : job'[t].step = job[t].step /\ job'[t].spent = job[t].spent
    BY <1>3, <2>1 DEF Save
  <2> QED BY <1>3, <2>2 DEF Save, Stays, Due
<1>4. CASE Erase
  <2> DEFINE Lost(id) == IF id = "live" THEN "gone" ELSE id
  <2>1. \A t \in Threads : LET r == [job[t] EXCEPT !.id = Lost(job[t].id)]
                           IN r.step = job[t].step /\ r.spent = job[t].spent
    BY DEF TypeOK, Job
  <2>2. \A t \in Threads : job'[t] = IF job[t].moved THEN job[t]
                                     ELSE [job[t] EXCEPT !.id = Lost(job[t].id)]
    BY <1>4 DEF Erase
  <2>3. \A t \in Threads : job'[t].step = job[t].step /\ job'[t].spent = job[t].spent
    <3> HIDE DEF Lost
    <3> QED BY <2>1, <2>2
  <2> QED BY <1>4, <2>3 DEF Erase, Stays, Due
<1> QED BY <1>1, <1>2, <1>3, <1>4

\* A thread enters the lock or wins the lease by three actions only.
LEMMA NextStays ==
  ASSUME TypeOK, [Next]_vars
  PROVE  \/ (\A u \in Threads : Stays(u)) /\ age' \in {age, 0}
         \/ \E e \in Engines : TickClaims(e) \/ TickLocks(e) \/ GenerateLocks(e) \/ Start(e)
         \/ Clock
<1>1. CASE UNCHANGED vars
  BY <1>1, SameStays DEF vars
<1>2. ASSUME NEW e \in Engines,
             TickStep(e) \/ GenerateBegins(e) \/ GenerateStep(e) \/ Start(e) \/ Stop(e) \/ Crash(e)
      PROVE  \/ (\A u \in Threads : Stays(u)) /\ age' \in {age, 0}
             \/ TickClaims(e) \/ TickLocks(e) \/ GenerateLocks(e) \/ Start(e)
  BY <1>2, TickStays, GenerateStays, WorldStays DEF TickStep, GenerateStep
<1>3. ASSUME NEW t \in Threads, PublishStep(t)
      PROVE  (\A u \in Threads : Stays(u)) /\ age' \in {age, 0}
  BY <1>3, PublishStays
<1>4. CASE TrialEnds \/ TrialSweep
  BY <1>4, SameStays DEF TrialEnds, TrialSweep
<1>5. CASE Save \/ Erase
  <2>1. CASE Engines = {}
    <3>1. Threads = {}
      BY <2>1 DEF Threads
    <3> QED BY <1>5, <3>1 DEF Save, Erase
  <2>2. CASE Engines # {}
    BY <1>5, <2>2, WorldStays
  <2> QED BY <2>1, <2>2
<1> QED BY <1>1, <1>2, <1>3, <1>4, <1>5 DEF Next

LEMMA ClockSteps ==
  ASSUME TypeOK, Clock
  PROVE  \A t \in Threads : job'[t].step = job[t].step
BY DEF Clock, TypeOK, Job

LEMMA ClaimSteps ==
  ASSUME TypeOK, NEW e \in Engines, TickClaims(e)
  PROVE  /\ job'[Worker(e)].step = "claimed"
         /\ \A u \in Threads : u # Worker(e) => job'[u] = job[u]
<1>1. Worker(e) \in Threads /\ job[Worker(e)] \in Job
  BY ThreadsOf DEF TypeOK
<1>2. job' = [job EXCEPT ![Worker(e)] = [job[Worker(e)] EXCEPT !.step = "claimed"]]
  BY DEF TickClaims, Goes
<1> QED BY <1>1, <1>2 DEF TypeOK, Job

LEMMA LockSteps ==
  ASSUME TypeOK, NEW e \in Engines, TickLocks(e) \/ GenerateLocks(e)
  PROVE  /\ LockFree(e)
         /\ \E t \in Threads : t[1] = e /\ \A u \in Threads : u # t => job'[u] = job[u]
<1>1. /\ Worker(e) \in Threads /\ Worker(e)[1] = e
      /\ Manual(e) \in Threads /\ Manual(e)[1] = e
  BY DEF Worker, Manual, Threads
<1> QED BY <1>1 DEF TickLocks, GenerateLocks, TypeOK

LEMMA LockFreeMeans ==
  ASSUME NEW e \in Engines, LockFree(e), NEW t \in Threads, t[1] = e
  PROVE  job[t].step \notin InLock
<1>1. PICK k \in {"tick", "manual"} : t = <<e, k>>
  BY DEF Threads
<1> QED BY <1>1 DEF LockFree

\* In one engine the publish lock keeps two publishes apart.
LEMMA OneEngineExclusive ==
  ASSUME TypeOK, Exclusive, [Next]_vars, \A e, f \in Engines : e = f
  PROVE  Exclusive'
<1>1. CASE \A u \in Threads : Stays(u)
  BY <1>1 DEF Exclusive, Stays
<1>2. ASSUME NEW e \in Engines, TickClaims(e) PROVE Exclusive'
  BY <1>2, ClaimSteps DEF Exclusive, InLock
<1>3. ASSUME NEW e \in Engines, TickLocks(e) \/ GenerateLocks(e) PROVE Exclusive'
  <2>1. \A t \in Threads : job[t].step \notin InLock
    <3> TAKE t \in Threads
    <3>1. t[1] = e
      BY DEF Threads
    <3> QED BY <1>3, <3>1, LockSteps, LockFreeMeans
  <2>2. PICK t \in Threads : \A u \in Threads : u # t => job'[u] = job[u]
    BY <1>3, LockSteps
  <2> QED BY <2>1, <2>2 DEF Exclusive
<1>4. ASSUME NEW e \in Engines, Start(e) PROVE Exclusive'
  BY <1>4 DEF Start, Exclusive
<1>5. CASE Clock
  BY <1>5, ClockSteps DEF Exclusive
<1> QED BY <1>1, <1>2, <1>3, <1>4, <1>5, NextStays

\* With one engine, whatever the owner and the console ask for and whatever
\* fails, a destination never holds a second message (OneMessage).
THEOREM OneEngineOneMessage ==
  ASSUME \A e, f \in Engines : e = f PROVE Spec => []OneMessage
<1>1. Init => TypeOK /\ Exclusive /\ Accounted /\ ReadsHold
  BY InitType, MessagesInit, PublisherConstants
<1>2. TypeOK /\ Exclusive /\ Accounted /\ ReadsHold /\ [Next]_vars
        => (TypeOK /\ Exclusive /\ Accounted /\ ReadsHold)'
  BY NextType, OneEngineExclusive, MessagesKept, PublisherConstants
<1>3. TypeOK /\ Accounted => OneMessage
  BY AccountedMeans, PublisherConstants
<1> QED BY <1>1, <1>2, <1>3, PTL DEF Spec

LEMMA LeasedMeans == ASSUME Leased PROVE Exclusive
BY DEF Leased, Exclusive, Due

LEMMA LeasedInit == ASSUME Init PROVE Leased
BY DEF Init, Leased, Idle, Due, InLock

\* Nothing but a manual publish moves the thread of manual publishes.
LEMMA ManualIdle ==
  ASSUME PublisherConstants, TypeOK, Leased, "generate" \notin Requests, [Next]_vars
  PROVE  \A t \in Threads : t[2] = "manual" => job'[t].step = "idle"
<1> SUFFICES ASSUME NEW t \in Threads, t[2] = "manual" PROVE job'[t].step = "idle"
  OBVIOUS
<1>1. job[t].step = "idle"
  BY DEF Leased
<1>2. \A e \in Engines : Worker(e) # t
  BY DEF Worker
<1>3. ASSUME NEW e \in Engines, TickStep(e) PROVE job'[t] = job[t]
  BY <1>2, <1>3 DEF TickStep, TickLists, TickChecksTrial, TickPolls, TickClaims, TickSkips,
                    TickLocks, Goes, Ends, TypeOK
<1>4. ASSUME NEW e \in Engines, GenerateBegins(e) \/ GenerateStep(e) PROVE FALSE
  <2>1. job[Manual(e)].step = "idle"
    BY ThreadsOf DEF Leased, Manual
  <2> QED BY <1>4, <2>1 DEF GenerateBegins, GenerateStep, GenerateLocks, GenerateRuns
<1>5. ASSUME NEW u \in Threads, PublishStep(u) PROVE job'[t] = job[t]
  <2>1. u # t
    BY <1>1, <1>5 DEF PublishStep, Publishes, PublishFails, PublishUnnamed, Records
  <2>2. \/ \E step, id : job' = [job EXCEPT ![u].step = step, ![u].id = id]
        \/ Ends(u) \/ Goes(u, "recorded")
    BY <1>5 DEF PublishStep, Publishes, PublishEmbed, PublishFails, PublishUnnamed, Records
  <2> QED BY <2>1, <2>2 DEF Ends, Goes, TypeOK
<1>6. ASSUME NEW e \in Engines, Start(e) \/ Stop(e) \/ Crash(e) PROVE job'[t].step = "idle"
  BY <1>1, <1>6 DEF Start, Stop, Crash, Idle
<1>7. CASE Save
  BY <1>1, <1>7 DEF Save, InLock
<1>8. CASE Erase
  <2>1. LET r == [job[t] EXCEPT !.id = IF job[t].id = "live" THEN "gone" ELSE job[t].id]
        IN r.step = job[t].step
    BY DEF TypeOK, Job
  <2> QED BY <1>1, <1>8, <2>1 DEF Erase
<1>9. CASE Clock
  BY <1>1, <1>9, ClockSteps
<1>10. CASE TrialEnds \/ TrialSweep \/ UNCHANGED vars
  BY <1>1, <1>10 DEF TrialEnds, TrialSweep, vars
<1> QED BY <1>1, <1>3, <1>4, <1>5, <1>6, <1>7, <1>8, <1>9, <1>10 DEF Next

LEMMA LeasedKept ==
  ASSUME PublisherConstants, TypeOK, Leased, Limit < Interval,
         "start" \notin Requests, "generate" \notin Requests, [Next]_vars
  PROVE  Leased'
<1> USE DEF PublisherConstants
<1>1. \A t \in Threads : t[2] = "manual" => job'[t].step = "idle"
  BY ManualIdle
<1>2. \A t \in Threads : job[t].spent \in 0..Limit
  BY DEF TypeOK, Job
<1>3. CASE (\A u \in Threads : Stays(u)) /\ age' \in {age, 0}
  <2>1. \A t, u \in Threads : Due(t)' /\ Due(u)' => t = u
    BY <1>3 DEF Stays, Leased
  <2>2. \A t \in Threads : Due(t)' => age' <= job'[t].spent
    BY <1>2, <1>3 DEF Stays, Leased, TypeOK
  <2> QED BY <1>1, <2>1, <2>2 DEF Leased
\* The lease is free, so no thread is due: the one that was is within Limit.
<1>4. ASSUME NEW e \in Engines, TickClaims(e) PROVE Leased'
  <2>1. age = Interval /\ age' = 0
    BY <1>4 DEF TickClaims, Claim
  <2>2. \A t \in Threads : ~Due(t)
    BY <1>2, <2>1 DEF Leased
  <2>3. \A t \in Threads : Due(t)' => t = Worker(e)
    BY <1>4, <2>2, ClaimSteps DEF Due
  <2>4. \A t \in Threads : job'[t].spent \in 0..Limit
    BY <1>4, NextType DEF Next, TickStep, TypeOK, Job
  <2>5. \A t \in Threads : Due(t)' => age' <= job'[t].spent
    BY <2>1, <2>4
  <2> QED BY <1>1, <2>3, <2>5 DEF Leased
<1>5. ASSUME NEW e \in Engines, TickLocks(e) PROVE Leased'
  <2>1. Worker(e) \in Threads /\ job[Worker(e)] \in Job /\ Due(Worker(e))
    BY <1>5, ThreadsOf DEF TypeOK, TickLocks, Due
  <2>2. job' = [job EXCEPT ![Worker(e)] =
                  [job[Worker(e)] EXCEPT !.step = "publishing", !.id = message]]
    BY <1>5 DEF TickLocks
  <2>3. LET r == [job[Worker(e)] EXCEPT !.step = "publishing", !.id = message]
        IN r.spent = job[Worker(e)].spent
    BY <2>1 DEF Job
  <2>4. /\ job'[Worker(e)].spent = job[Worker(e)].spent
        /\ \A u \in Threads : u # Worker(e) => job'[u] = job[u]
    BY <2>1, <2>2, <2>3 DEF TypeOK
  <2>5. \A t \in Threads : Due(t)' => Due(t) /\ job'[t].spent = job[t].spent
    BY <2>1, <2>4 DEF Due
  <2>6. age' = age
    BY <1>5 DEF TickLocks
  <2> QED BY <1>1, <2>5, <2>6 DEF Leased
<1>6. ASSUME NEW e \in Engines, GenerateLocks(e) \/ Start(e) PROVE Leased'
  <2>1. GenerateLocks(e) => job[Manual(e)].step = "idle"
    BY ThreadsOf DEF Leased, Manual
  <2> QED BY <1>6, <2>1 DEF GenerateLocks, Start
<1>7. CASE Clock
  <2>1. \A t \in Threads : Due(t)' <=> Due(t)
    BY <1>7, ClockSteps DEF Due
  <2>2. age' <= age + 1 /\ age' \in Int /\ age \in Int
    BY <1>7 DEF Clock, Least, TypeOK
  <2>3. ASSUME NEW t \in Threads, Due(t) PROVE job'[t].spent = job[t].spent + 1
    <3>1. job[t].spent < Limit /\ job[t].step \notin {"idle", "waiting"} /\ job[t] \in Job
      BY <1>7, <2>3 DEF Clock, Due, InLock, TypeOK
    <3>2. job'[t] = [job[t] EXCEPT !.spent = Least(job[t].spent + 1, Limit)]
      BY <1>7, <3>1 DEF Clock
    <3>3. Least(job[t].spent + 1, Limit) = job[t].spent + 1
      BY <1>2, <3>1 DEF Least
    <3> QED BY <3>1, <3>2, <3>3 DEF Job
  <2>4. \A t \in Threads : Due(t)' => age' <= job'[t].spent
    BY <1>2, <2>1, <2>2, <2>3 DEF Leased
  <2>5. \A t, u \in Threads : Due(t)' /\ Due(u)' => t = u
    BY <2>1 DEF Leased
  <2> QED BY <1>1, <2>4, <2>5 DEF Leased
<1> QED BY <1>3, <1>4, <1>5, <1>6, <1>7, NextStays

\* With any number of engines, and neither starts nor manual publishes, the
\* lease alone keeps a destination from a second message, provided that a tick
\* ends before its lease does (OneMessage, claim_bot_tick).
THEOREM LeaseOneMessage ==
  ASSUME Limit < Interval, "start" \notin Requests, "generate" \notin Requests
  PROVE  Spec => []OneMessage
<1>1. Init => TypeOK /\ Leased /\ Accounted /\ ReadsHold
  BY InitType, MessagesInit, LeasedInit, PublisherConstants
<1>2. TypeOK /\ Leased /\ Accounted /\ ReadsHold /\ [Next]_vars
        => (TypeOK /\ Leased /\ Accounted /\ ReadsHold)'
  <2> SUFFICES ASSUME TypeOK, Leased, Accounted, ReadsHold, [Next]_vars
               PROVE  (TypeOK /\ Leased /\ Accounted /\ ReadsHold)'
    OBVIOUS
  <2>1. TypeOK' /\ Leased'
    BY NextType, LeasedKept, PublisherConstants
  <2>2. Exclusive /\ Exclusive'
    BY <2>1, LeasedMeans DEF Leased, Exclusive, Due
  <2> QED BY <2>1, <2>2, MessagesKept, PublisherConstants
<1>3. TypeOK /\ Accounted => OneMessage
  BY AccountedMeans, PublisherConstants
<1> QED BY <1>1, <1>2, <1>3, PTL DEF Spec

-----------------------------------------------------------------------------
(* Catalog *)

\* The flag stands for one thread, and the lock for one that fetches: the thread
\* that has to take the lock is then the only one.
OneFetch ==
  /\ refreshing \in BOOLEAN /\ fetch \in [Fetches -> FetchSteps]
  /\ lockedBy \in Fetches \cup {NoFetch}
  /\ \A f, g \in Fetches : fetch[f] \in UnderWay /\ fetch[g] \in UnderWay => f = g
  /\ \A f \in Fetches : fetch[f] \in UnderWay => refreshing
  /\ \A f \in Fetches : lockedBy = f => fetch[f] = "fetching"
CatalogInv == OneFetch /\ NoBail

LEMMA FetchNamed == NoFetch \notin Fetches
BY CatalogConstants DEF Fetches, NoFetch

LEMMA CatalogInitially == CatalogInit => CatalogInv
<1> SUFFICES ASSUME CatalogInit PROVE CatalogInv
  OBVIOUS
<1>1. \A f \in Fetches : fetch[f] = "absent" /\ lockedBy # f
  BY FetchNamed DEF CatalogInit
<1>2. fetch \in [Fetches -> FetchSteps] /\ refreshing \in BOOLEAN /\ lockedBy = NoFetch
  BY DEF CatalogInit, FetchSteps
<1> QED BY <1>1, <1>2 DEF CatalogInv, OneFetch, NoBail, UnderWay

LEMMA CatalogAsks ==
  ASSUME CatalogInv, NEW c \in Callers, AskGoesOn(c) \/ AskStartFails(c) \/ AskStarts(c)
  PROVE  CatalogInv'
<1>1. CASE AskStarts(c)
  <2>1. PICK f \in Fetches : refreshing' /\ fetch' = [fetch EXCEPT ![f] = "started"]
    BY <1>1 DEF AskStarts, Unused
  <2>2. /\ \A g \in Fetches : fetch[g] \notin UnderWay
        /\ lockedBy' = lockedBy /\ refreshing' \in BOOLEAN
    BY <1>1 DEF AskStarts, CatalogInv, OneFetch
  <2>3. \A g \in Fetches : lockedBy # g
    BY <2>2 DEF CatalogInv, OneFetch, UnderWay
  <2> QED BY <2>1, <2>2, <2>3 DEF CatalogInv, OneFetch, NoBail, FetchSteps
<1>2. CASE UNCHANGED <<refreshing, fetch, lockedBy>>
  BY <1>2 DEF CatalogInv, OneFetch, NoBail
<1> QED BY <1>1, <1>2 DEF AskGoesOn, Asks, AskBacksOff, AskJoins, AskWakes, AskAnswers, AskEnds,
           AskStartFails, FetchKept

LEMMA CatalogFetches ==
  ASSUME CatalogInv, NEW f \in Fetches, FetchGoesOn(f)
  PROVE  CatalogInv'
<1> USE DEF CatalogInv, OneFetch, NoBail
<1>1. f # NoFetch
  BY FetchNamed
<1>2. CASE FetchLocks(f)
  <2>1. \A g \in Fetches : lockedBy # g
    BY <1>2 DEF FetchLocks, UnderWay
  <2>2. lockedBy = NoFetch
    BY <2>1
  <2> QED BY <1>2, <2>2 DEF FetchLocks, FetchGoes, UnderWay, FetchSteps
<1>3. CASE FetchStores(f) \/ FetchFails(f)
  <2>1. /\ fetch[f] = "fetching" /\ lockedBy' = NoFetch /\ refreshing' = refreshing
        /\ \/ fetch' = [fetch EXCEPT ![f] = "stored"]
           \/ fetch' = [fetch EXCEPT ![f] = "failed"]
    BY <1>3 DEF FetchStores, FetchFails, FetchGoes
  <2> QED BY <2>1, FetchNamed DEF UnderWay, FetchSteps
<1>4. CASE FetchLowers(f)
  <2>1. \A g \in Fetches : lockedBy # g
    BY <1>4 DEF FetchLowers, UnderWay
  <2> QED BY <1>4, <2>1 DEF FetchLowers, FetchGoes, UnderWay, FetchSteps
<1>5. CASE FetchEnds(f)
  BY <1>5 DEF FetchEnds, FetchGoes, UnderWay, FetchSteps
<1> QED BY <1>2, <1>3, <1>4, <1>5 DEF FetchGoesOn

LEMMA CatalogInvariant == CatalogInv /\ [CatalogNext]_catalogVars => CatalogInv'
<1>1. CatalogInv /\ CatalogNext => CatalogInv'
  <2>1. CASE CatalogAges \/ BackoffEnds
    BY <2>1 DEF CatalogAges, BackoffEnds, FetchKept, CatalogInv, OneFetch, NoBail
  <2> QED BY <2>1, CatalogAsks, CatalogFetches DEF CatalogNext
<1>2. CatalogInv /\ UNCHANGED catalogVars => CatalogInv'
  BY DEF catalogVars, CatalogInv, OneFetch, NoBail
<1> QED BY <1>1, <1>2

\* NoBail for any number of callers and of fetch threads: the flag alone keeps
\* the fetches of the catalog apart, and no thread gives up on the lock.
THEOREM FetchesApart == CatalogSpec => []NoBail
<1>1. CatalogInv => NoBail
  BY DEF CatalogInv
<1> QED BY CatalogInitially, CatalogInvariant, <1>1, PTL DEF CatalogSpec

-----------------------------------------------------------------------------
(* Catalog: the event that callers wait for *)

Caller == [step : AskSteps, on : Fetches \cup {NoFetch}]
CatalogPlain ==
  /\ catalog \in {"none", "fresh", "stale"} /\ backoff \in BOOLEAN /\ everFilled \in BOOLEAN
  /\ asking \in [Callers -> Caller]
\* The flag and the event that is handed out are those of a thread at work.
EventHeld ==
  /\ done \in Fetches \cup {NoFetch}
  /\ refreshing => done # NoFetch /\ fetch[done] \in UnderWay

LEMMA CallerGoes ==
  ASSUME CatalogPlain, NEW c \in Callers, NEW step \in AskSteps, AskGoes(c, step)
  PROVE  asking' \in [Callers -> Caller]
<1>1. asking[c] \in Caller
  BY DEF CatalogPlain
<1>2. [asking[c] EXCEPT !.step = step] \in Caller
  BY <1>1 DEF Caller
<1>3. asking' = [asking EXCEPT ![c] = [asking[c] EXCEPT !.step = step]]
  BY DEF AskGoes
<1> QED BY <1>2, <1>3 DEF CatalogPlain

LEMMA CatalogAsksTyped ==
  ASSUME CatalogInv, CatalogPlain, EventHeld, NEW c \in Callers,
         AskGoesOn(c) \/ AskStartFails(c) \/ AskStarts(c)
  PROVE  CatalogPlain' /\ EventHeld'
<1>1. \A step \in {"idle", "stale", "cold", "waiting", "woken", "served", "refused"} : step \in AskSteps
  BY DEF AskSteps
<1>2. ASSUME NEW step \in AskSteps, AskGoes(c, step), CacheKept PROVE CatalogPlain'
  BY <1>2, CallerGoes DEF CatalogPlain, CacheKept
<1>3. ASSUME FetchKept PROVE EventHeld'
  BY <1>3 DEF EventHeld, FetchKept
<1>4. ASSUME NEW g \in Fetches \cup {NoFetch}, CacheKept,
             asking' = [asking EXCEPT ![c] = [step |-> Resumes(c), on |-> g]]
      PROVE  CatalogPlain'
  <2>1. [step |-> Resumes(c), on |-> g] \in Caller
    BY <1>1 DEF Resumes, Caller
  <2> QED BY <1>4, <2>1 DEF CatalogPlain, CacheKept
<1>5. CASE Asks(c)
  <2>1. PICK step \in AskSteps : AskGoes(c, step)
    BY <1>1, <1>5 DEF Asks, CatalogPlain
  <2> QED BY <1>2, <1>3, <1>5, <2>1 DEF Asks
<1>6. CASE AskBacksOff(c)
  BY <1>1, <1>2, <1>3, <1>6 DEF AskBacksOff
<1>7. CASE AskJoins(c)
  BY <1>3, <1>4, <1>7 DEF AskJoins, EventHeld
<1>8. CASE AskWakes(c) \/ AskAnswers(c)
  BY <1>1, <1>2, <1>3, <1>8 DEF AskWakes, AskAnswers
<1>9. CASE AskEnds(c)
  <2>1. NotAsking \in Caller
    BY <1>1 DEF NotAsking, Caller
  <2> QED BY <1>3, <1>9, <2>1 DEF AskEnds, CatalogPlain, CacheKept
<1>10. CASE AskStartFails(c)
  BY <1>1, <1>2, <1>10 DEF AskStartFails, EventHeld
<1>11. CASE AskStarts(c)
  <2>1. PICK f \in Fetches :
          /\ done' = f /\ fetch' = [fetch EXCEPT ![f] = "started"]
          /\ asking' = [asking EXCEPT ![c] = [step |-> Resumes(c), on |-> f]] /\ CacheKept
    BY <1>11 DEF AskStarts, Unused
  <2>2. EventHeld'
    BY <2>1, FetchNamed DEF EventHeld, CatalogInv, OneFetch, UnderWay
  <2> QED BY <1>4, <2>1, <2>2
<1> QED BY <1>5, <1>6, <1>7, <1>8, <1>9, <1>10, <1>11 DEF AskGoesOn

LEMMA StaysHeld ==
  ASSUME EventHeld, UNCHANGED <<refreshing, done>>,
         \A g \in Fetches : fetch[g] \in UnderWay => fetch'[g] \in UnderWay
  PROVE  EventHeld'
<1>1. refreshing' => refreshing
  OBVIOUS
<1>2. done' = done
  OBVIOUS
<1>3. refreshing => done \in Fetches /\ fetch'[done] \in UnderWay
  BY DEF EventHeld
<1> QED BY <1>1, <1>2, <1>3 DEF EventHeld

LEMMA CatalogFetchesTyped ==
  ASSUME CatalogInv, CatalogPlain, EventHeld, NEW f \in Fetches, FetchGoesOn(f)
  PROVE  CatalogPlain' /\ EventHeld'
<1>1. CatalogPlain'
  <2>1. CASE FetchLocks(f) \/ FetchLowers(f) \/ FetchEnds(f)
    <3>1. UNCHANGED <<catalog, backoff, everFilled, asking>>
      BY <2>1 DEF FetchLocks, FetchLowers, FetchEnds, CacheKept
    <3> QED BY <3>1 DEF CatalogPlain
  <2>2. CASE FetchStores(f) \/ FetchFails(f)
    BY <2>2 DEF FetchStores, FetchFails, CatalogPlain
  <2> QED BY <2>1, <2>2 DEF FetchGoesOn
<1>2. fetch \in [Fetches -> FetchSteps] /\ done \in Fetches \cup {NoFetch}
      /\ (refreshing => done \in Fetches /\ fetch[done] \in UnderWay)
  BY DEF CatalogInv, OneFetch, EventHeld
<1>3. CASE FetchLowers(f)
  <2>1. done' = (IF done = f THEN NoFetch ELSE done)
    BY <1>3 DEF FetchLowers
  <2>2. done' \in Fetches \cup {NoFetch}
    BY <1>2, <2>1
  <2>3. ~refreshing'
    BY <1>3 DEF FetchLowers
  <2> QED BY <1>1, <2>2, <2>3 DEF EventHeld
<1>4. CASE FetchLocks(f) \/ FetchStores(f) \/ FetchFails(f)
  <2>1. PICK step \in UnderWay : fetch' = [fetch EXCEPT ![f] = step]
    BY <1>4 DEF FetchLocks, FetchStores, FetchFails, FetchGoes, UnderWay
  <2>2. UNCHANGED <<refreshing, done>>
    BY <1>4 DEF FetchLocks, FetchStores, FetchFails
  <2>3. \A g \in Fetches : fetch[g] \in UnderWay => fetch'[g] \in UnderWay
    BY <1>2, <2>1
  <2> QED BY <1>1, <2>2, <2>3, StaysHeld
<1>5. CASE FetchEnds(f)
  <2>1. fetch[f] \notin UnderWay
    BY <1>5 DEF FetchEnds, UnderWay
  <2>2. \A g \in Fetches : fetch[g] \in UnderWay => fetch'[g] \in UnderWay
    BY <1>2, <1>5, <2>1 DEF FetchEnds, FetchGoes
  <2>3. UNCHANGED <<refreshing, done>>
    BY <1>5 DEF FetchEnds
  <2> QED BY <1>1, <2>2, <2>3, StaysHeld
<1> QED BY <1>1, <1>3, <1>4, <1>5 DEF FetchGoesOn

LEMMA CatalogTypedInitially == CatalogInit => CatalogInv /\ CatalogPlain /\ EventHeld
<1> SUFFICES ASSUME CatalogInit PROVE CatalogPlain /\ EventHeld
  BY CatalogInitially
<1>1. NotAsking \in Caller
  BY DEF NotAsking, Caller, AskSteps
<1> QED BY <1>1 DEF CatalogInit, CatalogPlain, EventHeld

LEMMA CatalogTypedInvariant ==
  ASSUME CatalogInv, CatalogPlain, EventHeld, [CatalogNext]_catalogVars
  PROVE  CatalogInv' /\ CatalogPlain' /\ EventHeld'
<1>1. CatalogInv'
  BY CatalogInvariant
<1>2. CASE UNCHANGED catalogVars
  BY <1>1, <1>2 DEF catalogVars, CatalogPlain, EventHeld
<1>3. CASE CatalogAges \/ BackoffEnds
  <2>1. CatalogPlain'
    BY <1>3 DEF CatalogAges, BackoffEnds, CatalogPlain
  <2>2. UNCHANGED <<refreshing, done, fetch>>
    BY <1>3 DEF CatalogAges, BackoffEnds, FetchKept
  <2> QED BY <1>1, <2>1, <2>2, StaysHeld DEF EventHeld
<1>4. CASE \E c \in Callers : AskGoesOn(c) \/ AskStarts(c) \/ AskStartFails(c)
  BY <1>1, <1>4, CatalogAsksTyped
<1>5. CASE \E f \in Fetches : FetchGoesOn(f)
  BY <1>1, <1>5, CatalogFetchesTyped
<1> QED BY <1>2, <1>3, <1>4, <1>5 DEF CatalogNext

LEMMA CatalogTypedMeans == CatalogInv /\ CatalogPlain /\ EventHeld => CatalogTypeOK
<1> SUFFICES ASSUME CatalogInv, CatalogPlain, EventHeld PROVE CatalogTypeOK
  OBVIOUS
<1>1. refreshing <=> \E f \in Fetches : fetch[f] \in UnderWay
  BY DEF CatalogInv, OneFetch, EventHeld
<1> QED BY <1>1 DEF CatalogTypeOK, CatalogInv, OneFetch, CatalogPlain, EventHeld, Caller

\* A flag that is up has a thread that takes it down, and its event is handed out.
THEOREM FlagHasThread == CatalogSpec => []CatalogTypeOK
<1> DEFINE Inv == CatalogInv /\ CatalogPlain /\ EventHeld
<1>1. Inv /\ [CatalogNext]_catalogVars => Inv'
  BY CatalogTypedInvariant
<1>2. CatalogInit => Inv
  BY CatalogTypedInitially
<1>3. Inv => CatalogTypeOK
  BY CatalogTypedMeans
<1> QED BY <1>1, <1>2, <1>3, PTL DEF CatalogSpec

-----------------------------------------------------------------------------
(* HardClose: what arrived in some ticks *)

LEMMA SightHolds ==
  /\ Window \in Nat \ {0} /\ Sustain \in Nat \ {0} /\ Flood \in Nat /\ CloseAt \in Nat \ {0}
  /\ CloseFor \in Nat \ {0}
  /\ \A x \in Int : x \in Sight <=> 1 - Sustain - 2 * Window <= x /\ x <= 0
  /\ \A x \in Sight : x \in Int
BY WindowPositive, HardCloseConstants DEF Sight

LEMMA InArrivals ==
  ASSUME NEW f, NEW a, NEW b, NEW x, NEW n
  PROVE  <<x, n>> \in Arrivals(f, a, b) <=>
           x \in Sight /\ n \in 1..Flood /\ a <= x /\ x <= b /\ n <= f[x]
BY DEF Arrivals

LEMMA ArrivalsFinite ==
  ASSUME NEW f, NEW a, NEW b
  PROVE  IsFiniteSet(Arrivals(f, a, b)) /\ Cardinality(Arrivals(f, a, b)) \in Nat
<1>1. IsFiniteSet(Sight) /\ IsFiniteSet(1..Flood)
  <2>1. 1 - Sustain - 2 * Window \in Int /\ Flood \in Int
    BY SightHolds
  <2> QED BY <2>1, FS_Interval DEF Sight
<1>2. IsFiniteSet(Sight \X (1..Flood))
  BY <1>1, FS_Product
<1>3. Arrivals(f, a, b) \in SUBSET (Sight \X (1..Flood))
  BY DEF Arrivals
<1> QED BY <1>2, <1>3, FS_Subset, FS_CardinalityType

\* More ticks, or more in each of them, are not less.
LEMMA MoreArrive ==
  ASSUME NEW f, NEW g, NEW a, NEW b, NEW c, NEW d,
         \A x \in Sight : \A n \in 1..Flood :
           a <= x /\ x <= b /\ n <= f[x] => c <= x /\ x <= d /\ n <= g[x]
  PROVE  Cardinality(Arrivals(f, a, b)) <= Cardinality(Arrivals(g, c, d))
<1>1. Arrivals(f, a, b) \in SUBSET Arrivals(g, c, d)
  BY DEF Arrivals
<1> QED BY <1>1, ArrivalsFinite, FS_Subset

\* Ticks before and since a start, counted together.
LEMMA ArrivalsApart ==
  ASSUME NEW f, NEW a \in Int, NEW s \in Int, NEW b \in Int
  PROVE  Cardinality(Arrivals(f, a, s - 1)) + Cardinality(Arrivals(f, s, b))
           = Cardinality(Arrivals(f, a, s - 1) \cup Arrivals(f, s, b))
<1> DEFINE A == Arrivals(f, a, s - 1)
           B == Arrivals(f, s, b)
<1>1. IsFiniteSet(A) /\ IsFiniteSet(B) /\ Cardinality(A) \in Nat /\ Cardinality(B) \in Nat
  BY ArrivalsFinite
<1>2. A \cap B = {}
  <2> SUFFICES ASSUME NEW p \in A, p \in B PROVE FALSE
    OBVIOUS
  <2>1. p[1] \in Sight /\ p[1] <= s - 1 /\ s <= p[1]
    BY DEF Arrivals
  <2> QED BY <2>1, SightHolds
<1> HIDE DEF A, B
<1>3. Cardinality(A \cap B) = 0
  BY <1>2, FS_EmptySet
<1>4. Cardinality(A \cup B) = Cardinality(A) + Cardinality(B) - Cardinality(A \cap B)
  BY <1>1, FS_Union
<1>5. Cardinality(A) + Cardinality(B) = Cardinality(A \cup B)
  BY <1>1, <1>3, <1>4
<1> QED BY <1>5 DEF A, B

\* A tick later the same arrivals are a tick further back.
LEMMA ArrivalsShift ==
  ASSUME NEW f, NEW g, NEW a \in Int, NEW b \in Int, 1 - Sustain - 2 * Window <= a - 1,
         \A x \in Sight : x # 0 => g[x] = f[x + 1]
  PROVE  Cardinality(Arrivals(f, a, b)) <= Cardinality(Arrivals(g, a - 1, b - 1))
<1> DEFINE A == Arrivals(f, a, b)
           B == Arrivals(g, a - 1, b - 1)
           m == [p \in A |-> <<p[1] - 1, p[2]>>]
<1>1. \A p \in A : m[p] \in B
  <2> SUFFICES ASSUME NEW p \in A PROVE <<p[1] - 1, p[2]>> \in B
    OBVIOUS
  <2>1. /\ p[1] \in Sight /\ p[2] \in 1..Flood /\ a <= p[1] /\ p[1] <= b /\ p[2] <= f[p[1]]
    BY DEF Arrivals
  <2>2. p[1] - 1 \in Sight /\ p[1] - 1 # 0 /\ a - 1 <= p[1] - 1 /\ p[1] - 1 <= b - 1 /\ (p[1] - 1) + 1 = p[1]
    BY <2>1, SightHolds
  <2>3. g[p[1] - 1] = f[p[1]]
    BY <2>2
  <2> QED BY <2>1, <2>2, <2>3, InArrivals
<1>2. \A p, q \in A : m[p] = m[q] => p = q
  <2> SUFFICES ASSUME NEW p \in A, NEW q \in A, <<p[1] - 1, p[2]>> = <<q[1] - 1, q[2]>>
               PROVE  p = q
    OBVIOUS
  <2>1. p \in Sight \X (1..Flood) /\ q \in Sight \X (1..Flood) /\ p[1] - 1 = q[1] - 1 /\ p[2] = q[2]
    BY DEF Arrivals
  <2>2. p[1] = q[1]
    BY <2>1, SightHolds
  <2> QED BY <2>1, <2>2
<1>3. IsFiniteSet(B)
  BY ArrivalsFinite
<1>4. m \in Injection(A, B)
  <2> HIDE DEF A, B
  <2>1. m \in [A -> B]
    BY <1>1
  <2> HIDE DEF m
  <2> QED BY <1>2, <2>1 DEF Injection, IsInjective
<1> HIDE DEF A, B, m
<1>5. Cardinality(A) <= Cardinality(B)
  BY <1>3, <1>4, FS_Injection
<1> QED BY <1>5 DEF A, B

-----------------------------------------------------------------------------
(* HardClose: the timer *)

CloseTyped ==
  /\ total \in Bucket /\ total.start \in (-2 * Window)..0
  /\ armed \in (-Sustain..0) \cup {NotArmed} /\ closedUntil \in 0..CloseFor
  /\ closed \in BOOLEAN /\ listeners = (IF closed THEN 0 ELSE 1) /\ came \in [Sight -> 0..Flood]
\* The buckets count no more than came in their time, as long as it matters.
BucketsCount(b, history) ==
  /\ b.start > -2 * Window =>
       b.count <= Cardinality(Arrivals(history, b.start, b.start + Window - 1))
  /\ b.start > -Window =>
       b.before <= Cardinality(Arrivals(history, b.start - Window, b.start - 1))
Flooded(x, history) == Cardinality(Arrivals(history, x - 2 * Window + 1, x)) >= CloseAt
\* Whenever something arrived since the timer was set, it was a flood.
Outlasts(since, history) ==
  since # NotArmed => \A x \in since..0 : history[x] > 0 => Flooded(x, history)
CloseInv ==
  /\ CloseTyped /\ BucketsCount(total, came) /\ Outlasts(armed, came)
  /\ closedUntil > 0 => armed = NotArmed

LEMMA CloseInitially == HardCloseInit => CloseInv
<1> SUFFICES ASSUME HardCloseInit PROVE CloseInv
  OBVIOUS
<1>1. total \in Bucket /\ total.start = -2 * Window
  BY WindowPositive DEF HardCloseInit, NewBucket, Bucket
<1>2. CloseTyped
  <2>1. total.start \in (-2 * Window)..0 /\ closedUntil \in 0..CloseFor
    BY <1>1, SightHolds DEF HardCloseInit
  <2>2. came \in [Sight -> 0..Flood]
    BY SightHolds DEF HardCloseInit
  <2> QED BY <1>1, <2>1, <2>2 DEF HardCloseInit, CloseTyped
<1>3. BucketsCount(total, came)
  BY <1>1, SightHolds DEF BucketsCount
<1> QED BY <1>2, <1>3, SightHolds DEF HardCloseInit, CloseInv, Outlasts

\* The bucket that an arrival is counted in.
LEMMA RollCounts ==
  ASSUME CloseInv
  PROVE  LET r == Roll(total, 0) IN
         /\ r \in Bucket /\ r.start > -Window /\ r.start <= 0
         /\ BucketsCount(r, came)
<1> DEFINE r == Roll(total, 0)
<1>1. /\ total \in Bucket /\ total.start \in Int /\ total.count \in Nat /\ total.before \in Nat
      /\ total.start <= 0 /\ Window \in Nat \ {0}
  BY SightHolds DEF CloseInv, CloseTyped, Bucket
<1>2. CASE 0 - total.start >= 2 * Window
  <2>1. r = NewBucket(0) /\ r \in Bucket /\ r.start = 0 /\ r.count = 0 /\ r.before = 0
    BY <1>2 DEF Roll, NewBucket, Bucket
  <2> HIDE DEF r
  <2>2. BucketsCount(r, came)
    BY <2>1, ArrivalsFinite DEF BucketsCount
  <2>3. r.start > -Window /\ r.start <= 0
    BY <1>1, <2>1
  <2> QED BY <2>1, <2>2, <2>3 DEF r
<1>3. CASE 0 - total.start >= Window /\ ~(0 - total.start >= 2 * Window)
  <2>1. r = [start |-> total.start + Window, count |-> 0, before |-> total.count]
    BY <1>3 DEF Roll
  <2>2. r \in Bucket /\ r.start = total.start + Window /\ r.count = 0 /\ r.before = total.count
    BY <1>1, <2>1 DEF Bucket
  <2>3. total.count <= Cardinality(Arrivals(came, total.start, total.start + Window - 1))
    BY <1>1, <1>3 DEF CloseInv, BucketsCount
  <2> HIDE DEF r
  <2>4. r.start - Window = total.start /\ r.start - 1 = total.start + Window - 1
    BY <1>1, <2>2
  <2>5. BucketsCount(r, came)
    BY <2>2, <2>3, <2>4, ArrivalsFinite DEF BucketsCount
  <2>6. r.start > -Window /\ r.start <= 0
    BY <1>1, <1>3, <2>2
  <2> QED BY <2>2, <2>5, <2>6 DEF r
<1>4. CASE ~(0 - total.start >= Window)
  <2>1. r = total
    BY <1>1, <1>4 DEF Roll
  <2> QED BY <1>1, <1>4, <2>1 DEF CloseInv
<1> QED BY <1>2, <1>3, <1>4

\* An arrival: it is in its bucket, and a rate above the watermark is a flood.
LEMMA ArrivalCounts ==
  ASSUME CloseInv, FloodArrives
  PROVE  LET r == Roll(total, 0) IN
         /\ came' \in [Sight -> 0..Flood] /\ BucketsCount(Counted(r), came')
         /\ Counted(r) \in Bucket /\ Counted(r).start \in (-2 * Window)..0
         /\ Floods(Estimate(r, 0)) => Flooded(0, came')
         /\ \A x \in Sight : x # 0 => came'[x] = came[x] /\ (Flooded(x, came) => Flooded(x, came'))
<1> DEFINE r == Roll(total, 0)
           s == r.start
           q == <<0, came[0] + 1>>
           top == s + Window - 1
<1>1. came \in [Sight -> 0..Flood] /\ 0 \in Sight /\ came[0] \in 0..Flood /\ came[0] < Flood
      /\ Flood \in Nat /\ Window \in Nat \ {0} /\ CloseAt \in Nat /\ Sustain \in Nat \ {0}
  BY SightHolds DEF CloseInv, CloseTyped, FloodArrives
<1>2. came' = [came EXCEPT ![0] = @ + 1] /\ came[0] + 1 \in 1..Flood
  BY <1>1 DEF FloodArrives
<1>3. came' \in [Sight -> 0..Flood] /\ came'[0] = came[0] + 1
      /\ \A x \in Sight : x # 0 => came'[x] = came[x]
  BY <1>1, <1>2
<1>4. r \in Bucket /\ s \in Int /\ r.count \in Nat /\ r.before \in Nat /\ s > -Window /\ s <= 0
      /\ BucketsCount(r, came)
  BY RollCounts DEF Bucket
<1> HIDE DEF r, s
<1>5. /\ Counted(r) \in Bucket /\ Counted(r).start = s /\ Counted(r).count = r.count + 1
      /\ Counted(r).before = r.before
  BY <1>4 DEF Counted, Bucket, s
<1>6. /\ r.count <= Cardinality(Arrivals(came, s, top))
      /\ r.before <= Cardinality(Arrivals(came, s - Window, s - 1))
  BY <1>1, <1>4 DEF BucketsCount, s
<1>7. Cardinality(Arrivals(came, s, top)) + 1 <= Cardinality(Arrivals(came', s, top))
  <2>1. q \notin Arrivals(came, s, top)
    BY <1>1, InArrivals
  <2>2. q \in Arrivals(came', s, top)
    <3>1. s <= 0 /\ 0 <= top
      BY <1>1, <1>4
    <3>2. came[0] + 1 <= came'[0] /\ came[0] + 1 \in 1..Flood /\ 0 \in Sight
      BY <1>1, <1>2, <1>3
    <3> HIDE DEF top
    <3> QED BY <3>1, <3>2, InArrivals
  <2>3. Arrivals(came, s, top) \in SUBSET Arrivals(came', s, top)
    <3>1. \A x \in Sight : \A n \in 1..Flood : n <= came[x] => n <= came'[x]
      BY <1>1, <1>3
    <3> QED BY <3>1 DEF Arrivals
  <2> DEFINE A == Arrivals(came, s, top)
             B == Arrivals(came', s, top)
  <2>4. IsFiniteSet(A) /\ IsFiniteSet(B) /\ Cardinality(A) \in Nat
    BY ArrivalsFinite
  <2>5. Cardinality(A \cup {q}) = Cardinality(A) + 1 /\ A \cup {q} \in SUBSET B
    BY <2>1, <2>2, <2>3, <2>4, FS_AddElement
  <2> HIDE DEF A, B, q
  <2>6. Cardinality(A \cup {q}) <= Cardinality(B)
    BY <2>4, <2>5, FS_Subset
  <2>7. Cardinality(A) + 1 <= Cardinality(B)
    BY <2>5, <2>6
  <2> QED BY <2>7 DEF A, B
<1>8. \A a, b \in Int : Cardinality(Arrivals(came, a, b)) <= Cardinality(Arrivals(came', a, b))
  <2>1. \A x \in Sight : \A n \in 1..Flood : n <= came[x] => n <= came'[x]
    BY <1>1, <1>3
  <2> QED BY <2>1, MoreArrive
<1>9. r.before <= Cardinality(Arrivals(came', s - Window, s - 1))
  <2>1. Cardinality(Arrivals(came, s - Window, s - 1)) <= Cardinality(Arrivals(came', s - Window, s - 1))
    BY <1>1, <1>4, <1>8
  <2> QED BY <1>4, <1>6, <2>1, ArrivalsFinite
<1>10. r.count + 1 <= Cardinality(Arrivals(came', s, top))
  BY <1>4, <1>6, <1>7, ArrivalsFinite
<1>11. BucketsCount(Counted(r), came')
  BY <1>5, <1>9, <1>10 DEF BucketsCount, top
<1>12. Counted(r).start \in (-2 * Window)..0
  BY <1>1, <1>4, <1>5
<1>13. ASSUME Floods(Estimate(r, 0)) PROVE Flooded(0, came')
  <2> DEFINE Old == Arrivals(came', s - Window, s - 1)
             New == Arrivals(came', s, top)
             All == Arrivals(came', 0 - 2 * Window + 1, 0)
  <2>1. Old \cup New \in SUBSET All
    <3>1. \A x \in Sight : s - Window <= x => 0 - 2 * Window + 1 <= x /\ x <= 0
      BY <1>1, <1>4, SightHolds
    <3>2. \A x \in Sight : s <= x => 0 - 2 * Window + 1 <= x /\ x <= 0
      BY <1>1, <1>4, SightHolds
    <3> QED BY <3>1, <3>2 DEF Arrivals
  <2>2. Cardinality(Old) + Cardinality(New) = Cardinality(Old \cup New)
    BY <1>1, <1>4, ArrivalsApart
  <2>3. IsFiniteSet(All) /\ Cardinality(Old) \in Nat /\ Cardinality(New) \in Nat /\ Cardinality(All) \in Nat
    BY ArrivalsFinite
  <2>4. r.before <= Cardinality(Old) /\ r.count + 1 <= Cardinality(New)
    BY <1>9, <1>10
  <2> HIDE DEF Old, New, All, top
  <2>5. Cardinality(Old \cup New) <= Cardinality(All)
    BY <2>1, <2>3, FS_Subset
  <2>6. r.before + r.count + 1 <= Cardinality(All)
    BY <1>4, <2>2, <2>3, <2>4, <2>5
  <2>7. CloseAt * Window <= r.count * Window + r.before * (Window + s) + Window
    BY <1>1, <1>4, <1>13 DEF Floods, Estimate, s
  <2>8. (Window + s) * r.before <= Window * r.before
    <3>1. \A u, v \in Int : \A w \in Nat : u <= v => u * w <= v * w
      OBVIOUS
    <3>2. Window + s <= Window
      BY <1>1, <1>4
    <3> QED BY <1>1, <1>4, <3>1, <3>2
  <2>9. CloseAt * Window <= (r.before + r.count + 1) * Window
    <3>1. (r.before + r.count + 1) * Window = r.count * Window + Window * r.before + Window
      BY <1>1, <1>4
    <3>2. (Window + s) * r.before = r.before * (Window + s)
      BY <1>1, <1>4
    <3>3. /\ r.count * Window \in Int /\ Window * r.before \in Int /\ r.before * (Window + s) \in Int
          /\ CloseAt * Window \in Int
      BY <1>1, <1>4
    <3> QED BY <1>1, <2>7, <2>8, <3>1, <3>2, <3>3
  <2>10. CloseAt <= r.before + r.count + 1
    <3>1. \A u, v \in Int : \A w \in Nat \ {0} : u * w <= v * w => u <= v
      OBVIOUS
    <3>2. r.before + r.count + 1 \in Int
      BY <1>4
    <3> QED BY <1>1, <2>9, <3>1, <3>2
  <2>11. CloseAt <= Cardinality(All)
    BY <1>1, <1>4, <2>3, <2>6, <2>10
  <2> QED BY <2>11 DEF Flooded, All
<1>14. ASSUME NEW x \in Sight, Flooded(x, came) PROVE Flooded(x, came')
  <2>1. x \in Int /\ x - 2 * Window + 1 \in Int
    BY <1>1, SightHolds
  <2>2. /\ Cardinality(Arrivals(came, x - 2 * Window + 1, x))
             <= Cardinality(Arrivals(came', x - 2 * Window + 1, x))
    BY <1>8, <2>1
  <2> QED BY <1>1, <1>14, <2>2, ArrivalsFinite DEF Flooded
<1> QED BY <1>3, <1>5, <1>11, <1>12, <1>13, <1>14 DEF r

LEMMA CloseArrives ==
  ASSUME CloseInv, FloodArrives
  PROVE  /\ CloseInv'
         /\ closedUntil' > closedUntil =>
              \A x \in -Sustain..0 : x \in Sight /\ came'[x] > 0 => Flooded(x, came')
<1> DEFINE r == Roll(total, 0)
           rate == Estimate(r, 0)
<1>1. /\ came' \in [Sight -> 0..Flood] /\ BucketsCount(Counted(r), came')
      /\ Counted(r) \in Bucket /\ Counted(r).start \in (-2 * Window)..0
      /\ Floods(rate) => Flooded(0, came')
      /\ \A x \in Sight : x # 0 => came'[x] = came[x] /\ (Flooded(x, came) => Flooded(x, came'))
  BY ArrivalCounts
<1>2. total' = Counted(r) /\ closed' = closed /\ listeners' = listeners
      /\ (IF IsShut THEN armed' = armed /\ closedUntil' = closedUntil ELSE Pressure(rate))
  BY DEF FloodArrives
<1> HIDE DEF r, rate
<1>3. /\ armed \in (-Sustain..0) \cup {NotArmed} /\ closedUntil \in 0..CloseFor /\ CloseFor \in Nat \ {0}
      /\ Sustain \in Nat \ {0} /\ Window \in Nat \ {0}
      /\ \A x \in -Sustain..0 : x \in Sight
  BY SightHolds DEF CloseInv, CloseTyped
\* As long as the timer was set and what arrives is a flood, it goes on.
<1>4. ASSUME armed # NotArmed, Floods(rate)
      PROVE  \A x \in armed..0 : came'[x] > 0 => Flooded(x, came')
  <2> SUFFICES ASSUME NEW x \in armed..0, came'[x] > 0 PROVE Flooded(x, came')
    OBVIOUS
  <2>1. CASE x = 0
    BY <1>1, <1>4, <2>1
  <2>2. CASE x # 0
    <3>1. x \in Sight
      BY <1>3, <1>4 DEF NotArmed
    <3> QED BY <1>1, <1>4, <2>2, <3>1 DEF CloseInv, Outlasts
  <2> QED BY <2>1, <2>2
<1>5. CASE IsShut
  <2>1. armed = NotArmed /\ armed' = armed /\ closedUntil' = closedUntil
    BY <1>2, <1>5 DEF IsShut, CloseInv
  <2>2. CloseTyped'
    BY <1>1, <1>2, <2>1 DEF CloseInv, CloseTyped
  <2>3. BucketsCount(total', came') /\ Outlasts(armed', came')
    BY <1>1, <1>2, <2>1 DEF Outlasts
  <2> QED BY <1>3, <2>1, <2>2, <2>3 DEF CloseInv, BucketsCount, Outlasts, Flooded
<1>6. CASE ~IsShut
  <2>1. closedUntil = 0 /\ Pressure(rate)
    BY <1>2, <1>3, <1>6 DEF IsShut
  <2>2. /\ armed' \in (-Sustain..0) \cup {NotArmed} /\ closedUntil' \in 0..CloseFor
        /\ closedUntil' > 0 => armed' = NotArmed /\ Floods(rate) /\ armed = -Sustain
    BY <1>3, <2>1 DEF Pressure, NotArmed
  <2>3. CloseTyped'
    BY <1>1, <1>2, <2>2 DEF CloseInv, CloseTyped
  <2>4. Outlasts(armed', came')
    <3>1. CASE armed' = NotArmed
      BY <3>1 DEF Outlasts
    <3>2. CASE armed' # NotArmed
      <4>1. Floods(rate) /\ (armed' = 0 \/ (armed' = armed /\ armed # NotArmed))
        BY <2>1, <3>2 DEF Pressure
      <4>2. CASE armed' = 0
        <5>1. \A x \in 0..0 : x = 0
          OBVIOUS
        <5> QED BY <1>1, <4>1, <4>2, <5>1 DEF Outlasts
      <4>3. CASE armed' = armed /\ armed # NotArmed
        BY <1>4, <4>1, <4>3 DEF Outlasts
      <4> QED BY <4>1, <4>2, <4>3
    <3> QED BY <3>1, <3>2
  <2>5. CloseInv'
    BY <1>1, <1>2, <2>2, <2>3, <2>4 DEF CloseInv, BucketsCount, Outlasts, Flooded
  <2>6. closedUntil' > closedUntil =>
          \A x \in -Sustain..0 : x \in Sight /\ came'[x] > 0 => Flooded(x, came')
    <3>1. closedUntil' > closedUntil => armed = -Sustain /\ Floods(rate) /\ armed # NotArmed
      BY <1>3, <2>1, <2>2 DEF NotArmed
    <3> QED BY <1>4, <3>1
  <2> QED BY <2>5, <2>6
<1> QED BY <1>5, <1>6

LEMMA CloseTicks == ASSUME CloseInv, SecondPasses PROVE CloseInv'
<1>1. /\ total' = [total EXCEPT !.start = Older(@, -2 * Window)]
      /\ armed' = (IF armed = NotArmed THEN NotArmed ELSE Older(armed, -Sustain))
      /\ closedUntil' = Older(closedUntil, 0) /\ closed' = closed /\ listeners' = listeners
      /\ came' = [x \in Sight |-> IF x = 0 THEN 0 ELSE came[x + 1]]
  BY DEF SecondPasses
<1>2. /\ total \in Bucket /\ total.start \in (-2 * Window)..0 /\ total.start \in Int
      /\ armed \in (-Sustain..0) \cup {NotArmed} /\ closedUntil \in 0..CloseFor /\ CloseFor \in Nat \ {0}
      /\ Sustain \in Nat \ {0} /\ Window \in Nat \ {0} /\ came \in [Sight -> 0..Flood] /\ Flood \in Nat
  BY SightHolds DEF CloseInv, CloseTyped, Bucket
<1>3. /\ total' \in Bucket /\ total'.start = Older(total.start, -2 * Window)
      /\ total'.count = total.count /\ total'.before = total.before
      /\ total'.start \in (-2 * Window)..0
      /\ total'.start > -2 * Window => total'.start = total.start - 1
  BY <1>1, <1>2 DEF Bucket, Older
<1>4. /\ came' \in [Sight -> 0..Flood] /\ came'[0] = 0
      /\ \A x \in Sight : x # 0 => came'[x] = came[x + 1]
  <2>1. \A x \in Sight : x # 0 => x + 1 \in Sight
    BY SightHolds
  <2>2. 0 \in Sight
    BY SightHolds
  <2> QED BY <1>1, <1>2, <2>1, <2>2
<1>5. armed' \in (-Sustain..0) \cup {NotArmed} /\ closedUntil' \in 0..CloseFor
      /\ (closedUntil' > 0 => closedUntil > 0)
  BY <1>1, <1>2 DEF Older, NotArmed
<1>6. CloseTyped'
  BY <1>1, <1>3, <1>4, <1>5 DEF CloseInv, CloseTyped
<1>7. ASSUME NEW a \in Int, NEW b \in Int, 1 - Sustain - 2 * Window <= a - 1
      PROVE  Cardinality(Arrivals(came, a, b)) <= Cardinality(Arrivals(came', a - 1, b - 1))
  BY <1>4, <1>7, ArrivalsShift
<1> DEFINE s == total.start
<1>8. ASSUME total'.start > -2 * Window
      PROVE  total.count <= Cardinality(Arrivals(came', total'.start, total'.start + Window - 1))
  <2>1. s \in Int /\ s > -2 * Window + 1 /\ total'.start = s - 1 /\ total.count \in Nat
    BY <1>2, <1>3, <1>8 DEF Bucket
  <2>2. total.count <= Cardinality(Arrivals(came, s, s + Window - 1))
    BY <1>2, <2>1 DEF CloseInv, BucketsCount
  <2>3. Cardinality(Arrivals(came, s, s + Window - 1)) <= Cardinality(Arrivals(came', s - 1, s + Window - 1 - 1))
    BY <1>2, <1>7, <2>1
  <2>4. total'.start + Window - 1 = s + Window - 1 - 1
    BY <1>2, <2>1
  <2> QED BY <2>1, <2>2, <2>3, <2>4, ArrivalsFinite
<1>9. ASSUME total'.start > -Window
      PROVE  total.before <= Cardinality(Arrivals(came', total'.start - Window, total'.start - 1))
  <2>1. s \in Int /\ s > -Window + 1 /\ total'.start = s - 1 /\ total.before \in Nat
    BY <1>2, <1>3, <1>9 DEF Bucket
  <2>2. total.before <= Cardinality(Arrivals(came, s - Window, s - 1))
    BY <1>2, <2>1 DEF CloseInv, BucketsCount
  <2>3. Cardinality(Arrivals(came, s - Window, s - 1)) <= Cardinality(Arrivals(came', s - Window - 1, s - 1 - 1))
    BY <1>2, <1>7, <2>1
  <2>4. total'.start - Window = s - Window - 1 /\ total'.start - 1 = s - 1 - 1
    BY <1>2, <2>1
  <2> QED BY <2>1, <2>2, <2>3, <2>4, ArrivalsFinite
<1>10. ASSUME armed' # NotArmed, NEW x \in armed'..0, came'[x] > 0 PROVE Flooded(x, came')
  <2>1. armed # NotArmed /\ armed \in Int /\ armed' \in Int /\ armed <= armed' + 1 /\ -Sustain <= armed'
    BY <1>1, <1>2, <1>10 DEF Older, NotArmed
  <2>2. x \in Int /\ x # 0 /\ x \in Sight /\ x + 1 \in armed..0
    <3>1. x \in Int /\ armed' <= x /\ x <= 0
      BY <2>1
    <3>2. x # 0
      BY <1>4, <1>10
    <3>3. 1 - Sustain - 2 * Window <= x
      BY <1>2, <2>1, <3>1
    <3>4. \A u, v, w \in Int : u <= v + 1 /\ v <= w /\ w <= 0 /\ w # 0 => w + 1 \in u..0
      OBVIOUS
    <3>5. x + 1 \in armed..0
      BY <2>1, <3>1, <3>2, <3>4
    <3> QED BY <3>1, <3>2, <3>3, <3>5, SightHolds
  <2>3. Flooded(x + 1, came)
    BY <1>4, <1>10, <2>1, <2>2 DEF CloseInv, Outlasts
  <2>4. Cardinality(Arrivals(came, x + 1 - 2 * Window + 1, x + 1))
          <= Cardinality(Arrivals(came', x + 1 - 2 * Window + 1 - 1, x + 1 - 1))
    BY <1>2, <1>7, <2>1, <2>2
  <2>5. x + 1 - 2 * Window + 1 - 1 = x - 2 * Window + 1 /\ x + 1 - 1 = x
    BY <1>2, <2>2
  <2> QED BY <2>3, <2>4, <2>5, ArrivalsFinite, SightHolds DEF Flooded
<1>11. BucketsCount(total', came') /\ Outlasts(armed', came')
  BY <1>3, <1>8, <1>9, <1>10 DEF BucketsCount, Outlasts
<1>12. closedUntil' > 0 => armed' = NotArmed
  BY <1>1, <1>5 DEF CloseInv
<1> QED BY <1>6, <1>11, <1>12 DEF CloseInv, BucketsCount, Outlasts, Flooded

LEMMA CloseMoves == ASSUME CloseInv, Withdraws \/ Rebinds PROVE CloseInv'
<1>1. CloseTyped'
  <2>1. CASE Withdraws
    BY <2>1 DEF CloseInv, CloseTyped, Withdraws
  <2>2. CASE Rebinds
    <3>1. listeners = 0
      BY <2>2 DEF CloseInv, CloseTyped, Rebinds
    <3>2. listeners' = listeners + 1
      BY <2>2 DEF Rebinds
    <3>3. listeners' = 1
      BY <3>1, <3>2
    <3>4. closed' = FALSE
      BY <2>2 DEF Rebinds
    <3>5. closed' \in BOOLEAN /\ listeners' = (IF closed' THEN 0 ELSE 1)
      BY <3>3, <3>4
    <3> QED BY <2>2, <3>5 DEF CloseInv, CloseTyped, Rebinds
  <2> QED BY <2>1, <2>2
<1> QED BY <1>1 DEF CloseInv, BucketsCount, Outlasts, Flooded, Withdraws, Rebinds

LEMMA CloseInvariant == CloseInv /\ [HardCloseNext]_closeVars => CloseInv'
<1>1. CloseInv /\ UNCHANGED closeVars => CloseInv'
  BY DEF closeVars, CloseInv, CloseTyped, BucketsCount, Outlasts, Flooded
<1> QED BY <1>1, CloseArrives, CloseTicks, CloseMoves DEF HardCloseNext

\* CloseSustained for any watermark, duration and window, and any traffic: one
\* spike does not close the listener, nor do two with a lull between them.
THEOREM ClosesAfterFlood == HardCloseSpec => CloseSustained
<1> DEFINE Sustained ==
      closedUntil' > closedUntil =>
        \A x \in -Sustain..0 : x \in Sight /\ came'[x] > 0 =>
          Cardinality(Arrivals(came', x - 2 * Window + 1, x)) >= CloseAt
<1>1. CloseInv /\ [HardCloseNext]_closeVars => [Sustained]_closeVars
  <2> SUFFICES ASSUME CloseInv, HardCloseNext PROVE Sustained
    OBVIOUS
  <2>1. CASE FloodArrives
    BY <2>1, CloseArrives DEF Flooded
  <2>2. CASE ~FloodArrives
    <3>1. closedUntil \in 0..CloseFor /\ CloseFor \in Nat
      BY SightHolds DEF CloseInv, CloseTyped
    <3>2. ~(closedUntil' > closedUntil)
      BY <2>2, <3>1 DEF HardCloseNext, Withdraws, Rebinds, SecondPasses, Older
    <3> QED BY <3>2
  <2> QED BY <2>1, <2>2
<1> HIDE DEF Sustained
<1>2. HardCloseSpec => [][Sustained]_closeVars
  BY CloseInitially, CloseInvariant, <1>1, PTL DEF HardCloseSpec
<1> QED BY <1>2 DEF Sustained, CloseSustained

LEMMA CloseTypedMeans == CloseInv => HardCloseTypeOK
<1>1. CloseTyped => listeners \in 0..1
  BY DEF CloseTyped
<1> QED BY <1>1 DEF CloseInv, CloseTyped, HardCloseTypeOK

\* One listener or none, and the timer within its duration.
THEOREM OneListener == HardCloseSpec => []HardCloseTypeOK
BY CloseInitially, CloseInvariant, CloseTypedMeans, PTL DEF HardCloseSpec

-----------------------------------------------------------------------------
(* The three side by side *)

\* A behaviour of the instances side by side is one of each of these models, so
\* that what is proved of a model holds in the run that checks it.
THEOREM LiveParts == LiveSpec => Spec /\ HardCloseSpec /\ CatalogSpec
<1>1. LiveInit => Init /\ HardCloseInit /\ CatalogInit
  BY DEF LiveInit
<1>2. [LiveNext]_liveVars => [Next]_vars
  <2> SUFFICES ASSUME LiveNext PROVE [Next]_vars
    BY DEF liveVars
  <2>1. InEngine(PublisherNext) => PublisherNext
    BY DEF InEngine
  <2>2. PublisherNext => Next
    <3>1. \A e \in Engines : Worker(e) \in Threads /\ Manual(e) \in Threads
      BY ThreadsOf
    <3> QED BY <3>1 DEF PublisherNext, Ticks, IsAsked, Next
  <2>3. ~InEngine(PublisherNext) => UNCHANGED vars
    BY DEF LiveNext, InTrials, InClient, InClose, InCatalog
  <2> QED BY <2>1, <2>2, <2>3
<1>3. [LiveNext]_liveVars => [HardCloseNext]_closeVars
  BY DEF LiveNext, InTrials, InClient, InClose, InEngine, InCatalog, liveVars
<1>4. [LiveNext]_liveVars => [CatalogNext]_catalogVars
  BY DEF LiveNext, InTrials, InClient, InClose, InEngine, InCatalog, liveVars
<1> QED BY <1>1, <1>2, <1>3, <1>4, PTL DEF LiveSpec, Spec, HardCloseSpec, CatalogSpec

\* The variables of these three keep their types.
THEOREM LiveTyped == LiveSpec => []LiveTypeOK
<1>1. HardCloseTypeOK /\ TypeOK /\ CatalogTypeOK => LiveTypeOK
  BY DEF LiveTypeOK
<1> QED BY <1>1, LiveParts, TypeCorrect, OneListener, FlagHasThread, PTL
=============================================================================
