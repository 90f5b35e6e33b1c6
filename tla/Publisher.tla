----------------------------- MODULE Publisher -----------------------------
(***************************************************************************)
(* The bot engine: the worker of every engine process, which ticks over    *)
(* the running bots and publishes a status message for each, the control   *)
(* API that starts, stops and publishes at once, and what they share: the  *)
(* bots row in Oracle with its lease (last_run), a lock for each bot in    *)
(* each process, and Discord.  One bot is enough: bots share no state.     *)
(*                                                                         *)
(* Time is counted in ticks and only as an age that stops growing: the age *)
(* of the lease, of the stamp in a process and of a publish.               *)
(***************************************************************************)
EXTENDS Integers, FiniteSets

CONSTANTS
  Engines,     \* engine processes
  Interval,    \* update_interval of the bot
  Limit,       \* the longest a tick or a manual publish takes
  Requests,    \* bound: what the owner and the console ask for
  Faults,      \* bound: which calls may fail
  MaxLosses    \* bound: how often an engine dies or a message is lost sight of

RequestKinds == {"start", "stop", "generate", "save", "erase"}
FaultKinds == {"upstream", "unnamed", "forbidden", "poll"}

ASSUME PublisherConstants ==
  /\ Interval \in Nat \ {0} /\ Limit \in Nat \ {0} /\ MaxLosses \in Nat
  /\ Requests \subseteq RequestKinds /\ Faults \subseteq FaultKinds

VARIABLES
  running,  \* bots.running
  expired,  \* whether the owner's trial is over
  message,  \* what bots.message_id names in the present destination
  age,      \* time since bots.last_run; Interval: the lease is free
  copies,   \* status messages in the present destination, counted up to 2 + MaxLosses
  local,    \* time since _last_update of each process; Interval: no entry
  job,      \* the threads: the worker and the manual publish of each engine
  losses    \* history: engines that died, posts that gave no id, edits that were
            \* refused for good, and ids that a save took out of the row

vars == <<running, expired, message, age, copies, local, job, losses>>

Threads == Engines \X {"tick", "manual"}
Worker(e) == <<e, "tick">>
Manual(e) == <<e, "manual">>

\* A message id: none, one that Discord finds, one that it answers with 404.
Ids == {"none", "live", "gone"}
InLock == {"publishing", "posted", "recorded"}
Job == [step : {"idle", "listed", "active", "polled", "claimed", "waiting"} \cup InLock,
        id : Ids, moved : BOOLEAN, spent : 0..Limit]
Idle == [step |-> "idle", id |-> "none", moved |-> FALSE, spent |-> 0]

\* A publish that succeeded has a message id.
TypeOK ==
  /\ running \in BOOLEAN /\ expired \in BOOLEAN
  /\ message \in Ids /\ age \in 0..Interval /\ copies \in 0..(2 + MaxLosses)
  /\ local \in [Engines -> 0..Interval]
  /\ job \in [Threads -> Job]
  /\ \A t \in Threads : job[t].step = "posted" => job[t].id # "none"
  /\ losses \in 0..MaxLosses

\* A configured bot that was started and never published.
Init ==
  /\ running = TRUE /\ expired = FALSE
  /\ message = "none" /\ age = Interval /\ copies = 0
  /\ local = [e \in Engines |-> Interval]
  /\ job = [t \in Threads |-> Idle]
  /\ losses = 0

-----------------------------------------------------------------------------
(* Helpers *)

Goes(t, step) == job' = [job EXCEPT ![t].step = step]
Ends(t) == job' = [job EXCEPT ![t] = Idle]
Stamp(e, a) == local' = [local EXCEPT ![e] = a]
Least(a, b) == IF a < b THEN a ELSE b
More(n) == Least(n + 1, 2 + MaxLosses)

\* The publish lock of the bot in one process.
LockFree(e) == \A k \in {"tick", "manual"} : job[<<e, k>>].step \notin InLock

\* Mutant: the UPDATE without its condition.
ClaimIgnoresLease == age' = 0
\* claim_bot_tick: one conditional UPDATE.
Claim == age = Interval /\ age' = 0

-----------------------------------------------------------------------------
(* _tick, in the worker of an engine *)

TickLists(e) ==
  /\ job[Worker(e)].step = "idle" /\ running
  /\ Goes(Worker(e), "listed")
  /\ UNCHANGED <<running, expired, message, age, copies, local, losses>>

\* Mutant: the trial is not looked at.
TickSkipsTrial(e) ==
  /\ job[Worker(e)].step = "listed"
  /\ Goes(Worker(e), "active")
  /\ UNCHANGED <<running, expired, message, age, copies, local, losses>>
\* An ended trial stops the bot.
TickChecksTrial(e) ==
  /\ job[Worker(e)].step = "listed"
  /\ IF expired
     THEN running' = FALSE /\ Stamp(e, Interval) /\ Ends(Worker(e))
     ELSE Goes(Worker(e), "active") /\ UNCHANGED <<running, local>>
  /\ UNCHANGED <<expired, message, age, copies, losses>>

\* _poll_ip_replies; one that fails writes last_error with update_bot_runtime,
\* which sets last_run.
TickPolls(e) ==
  /\ job[Worker(e)].step = "active"
  /\ Goes(Worker(e), "polled")
  /\ UNCHANGED age \/ ("poll" \in Faults /\ age' = 0)
  /\ UNCHANGED <<running, expired, message, copies, local, losses>>

\* The code measures the throttle at the start of the tick, at most Limit ago.
TickClaims(e) ==
  /\ job[Worker(e)].step = "polled" /\ local[e] = Interval
  /\ Claim
  /\ Goes(Worker(e), "claimed")
  /\ UNCHANGED <<running, expired, message, copies, local, losses>>

\* Mutant: the throttle is stamped on every tick.
TickSkipsStamping(e) ==
  /\ job[Worker(e)].step = "polled"
  /\ local[e] < Interval \/ age < Interval
  /\ Ends(Worker(e)) /\ Stamp(e, 0)
  /\ UNCHANGED <<running, expired, message, age, copies, losses>>
\* Throttled in this process, or another engine has the lease.
TickSkips(e) ==
  /\ job[Worker(e)].step = "polled"
  /\ local[e] < Interval \/ age < Interval
  /\ Ends(Worker(e))
  /\ UNCHANGED <<running, expired, message, age, copies, local, losses>>

\* The row is read again under the lock.
TickLocks(e) ==
  /\ job[Worker(e)].step = "claimed" /\ LockFree(e)
  /\ job' = [job EXCEPT ![Worker(e)].step = "publishing", ![Worker(e)].id = message]
  /\ UNCHANGED <<running, expired, message, age, copies, local, losses>>

-----------------------------------------------------------------------------
(* engine_generate *)

GenerateBegins(e) ==
  /\ "generate" \in Requests
  /\ job[Manual(e)].step = "idle"
  /\ Goes(Manual(e), "waiting")
  /\ UNCHANGED <<running, expired, message, age, copies, local, losses>>

\* force_bot_claim, then the row again, both under the lock.
GenerateLocks(e) ==
  /\ job[Manual(e)].step = "waiting" /\ LockFree(e)
  /\ age' = 0
  /\ job' = [job EXCEPT ![Manual(e)] = [step |-> "publishing", id |-> message,
                                        moved |-> FALSE, spent |-> 0]]
  /\ UNCHANGED <<running, expired, message, copies, local, losses>>

GenerateRuns(e) ==
  /\ job[Manual(e)].step = "recorded"
  /\ running' = TRUE /\ Stamp(e, 0)
  /\ Ends(Manual(e))
  /\ UNCHANGED <<expired, message, age, copies, losses>>

-----------------------------------------------------------------------------
(* _publish_embed, and what process_bot and engine_generate make of it *)

\* Mutant: a lost message is not posted again.
EditOnly(t) ==
  /\ job' = [job EXCEPT ![t].step = "posted",
                        ![t].id = IF @ = "live" THEN "live" ELSE "none"]
  /\ UNCHANGED <<copies, losses>>
\* A new message, in the destination the row named when it was read.
Posts(t) == copies' = IF job[t].moved THEN copies ELSE More(copies)
\* An edit keeps the id; without one, or on a 404, a new message is posted.  So it
\* is when a webhook's edit is answered with 403, though the old one is still there.
PublishEmbed(t) ==
  /\ job' = [job EXCEPT ![t].step = "posted", ![t].id = "live"]
  /\ \/ job[t].id = "live" /\ UNCHANGED <<copies, losses>>
     \/ job[t].id # "live" /\ Posts(t) /\ UNCHANGED losses
     \/ /\ "forbidden" \in Faults /\ job[t].id = "live"
        /\ losses < MaxLosses /\ losses' = losses + 1 /\ Posts(t)

Publishes(t) ==
  /\ job[t].step = "publishing"
  /\ PublishEmbed(t)
  /\ UNCHANGED <<running, expired, message, age, local>>

\* Discord refuses.  The worker records the error, which renews the lease.
PublishFails(t) ==
  /\ "upstream" \in Faults
  /\ job[t].step = "publishing"
  /\ Ends(t)
  /\ IF t[2] = "tick"
     THEN age' = 0 /\ Stamp(t[1], Least(job[t].spent, Interval))
     ELSE UNCHANGED <<age, local>>
  /\ UNCHANGED <<running, expired, message, copies, losses>>

\* The post was taken and no id came back: a webhook bot is stopped, one that
\* posts with its token goes on.
PublishUnnamed(t) ==
  /\ "unnamed" \in Faults /\ losses < MaxLosses /\ losses' = losses + 1
  /\ job[t].step = "publishing" /\ (job[t].id # "live" \/ "forbidden" \in Faults)
  /\ Posts(t)
  /\ running' \in {running, FALSE}
  /\ Ends(t)
  /\ IF t[2] = "tick"
     THEN age' = 0 /\ Stamp(t[1], Least(job[t].spent, Interval))
     ELSE UNCHANGED <<age, local>>
  /\ UNCHANGED <<expired, message>>

\* update_bot_runtime: the id, and last_run with it.
Records(t) ==
  /\ job[t].step = "posted"
  /\ message' = IF job[t].moved THEN "gone" ELSE job[t].id
  /\ age' = 0
  /\ IF t[2] = "tick"
     THEN Stamp(t[1], Least(job[t].spent, Interval)) /\ Ends(t)
     ELSE Goes(t, "recorded") /\ UNCHANGED local
  /\ UNCHANGED <<running, expired, copies, losses>>

-----------------------------------------------------------------------------
(* Requests of the owner and of the console, and the world *)

\* api_user_start_bot refuses an expired trial; engine_start_bot clears the
\* stamp of its process and the lease.
Start(e) ==
  /\ "start" \in Requests /\ ~expired
  /\ running' = TRUE
  /\ Stamp(e, Interval) /\ age' = Interval
  /\ UNCHANGED <<expired, message, copies, job, losses>>

Stop(e) ==
  /\ "stop" \in Requests
  /\ running' = FALSE /\ Stamp(e, Interval)
  /\ UNCHANGED <<expired, message, age, copies, job, losses>>

\* save_bot_config with an embed, a channel, a token or a webhook: the row forgets
\* its message.  Where the destination is another one, a publish that has read the
\* row goes to the old; where it is the same, the message is still there.
Save ==
  /\ "save" \in Requests
  /\ message' = "none"
  /\ \/ /\ copies' = 0
        /\ job' = [t \in Threads |-> IF job[t].step \in InLock
                                     THEN [job[t] EXCEPT !.moved = TRUE] ELSE job[t]]
        /\ UNCHANGED losses
     \/ /\ IF message = "live" THEN losses < MaxLosses /\ losses' = losses + 1
                               ELSE UNCHANGED losses
        /\ UNCHANGED <<copies, job>>
  /\ UNCHANGED <<running, expired, age, local>>

\* The messages are deleted in Discord.
Erase ==
  /\ "erase" \in Requests /\ copies > 0
  /\ LET Lost(id) == IF id = "live" THEN "gone" ELSE id
     IN /\ message' = Lost(message)
        /\ job' = [t \in Threads |-> IF job[t].moved THEN job[t]
                                     ELSE [job[t] EXCEPT !.id = Lost(@)]]
  /\ copies' = 0
  /\ UNCHANGED <<running, expired, age, local, losses>>

TrialEnds ==
  /\ ~expired /\ expired' = TRUE
  /\ UNCHANGED <<running, message, age, copies, local, job, losses>>

\* expire_trial_bots of the maintenance daemon.
TrialSweep ==
  /\ expired /\ running
  /\ running' = FALSE
  /\ UNCHANGED <<expired, message, age, copies, local, job, losses>>

\* A tick and a publish end within Limit.
Clock ==
  /\ \A t \in Threads : job[t].step \in InLock \cup {"claimed"} => job[t].spent < Limit
  /\ age' = Least(age + 1, Interval)
  /\ local' = [e \in Engines |-> Least(local[e] + 1, Interval)]
  /\ job' = [t \in Threads |-> IF job[t].step \in {"idle", "waiting"} THEN job[t]
                               ELSE [job[t] EXCEPT !.spent = Least(@ + 1, Limit)]]
  /\ UNCHANGED <<running, expired, message, copies, losses>>

\* An engine dies between two calls and starts again with nothing in memory.
Crash(e) ==
  /\ losses < MaxLosses
  /\ losses' = losses + 1
  /\ job' = [t \in Threads |-> IF t[1] = e THEN Idle ELSE job[t]]
  /\ Stamp(e, Interval)
  /\ UNCHANGED <<running, expired, message, age, copies>>

TickStep(e) ==
  TickLists(e) \/ TickChecksTrial(e) \/ TickPolls(e) \/ TickClaims(e) \/ TickSkips(e)
  \/ TickLocks(e)
GenerateStep(e) == GenerateLocks(e) \/ GenerateRuns(e)
PublishStep(t) == Publishes(t) \/ PublishFails(t) \/ PublishUnnamed(t) \/ Records(t)

Next ==
  \/ \E e \in Engines :
       TickStep(e) \/ GenerateBegins(e) \/ GenerateStep(e) \/ Start(e) \/ Stop(e) \/ Crash(e)
  \/ \E t \in Threads : PublishStep(t)
  \/ Save \/ Erase \/ TrialEnds \/ TrialSweep \/ Clock

Spec == Init /\ [][Next]_vars

\* The worker loop goes on, calls end by their timeouts, a lock that is given
\* back again and again is given to whoever waits, and time passes.
Fairness ==
  /\ \A e \in Engines : WF_vars(TickStep(e)) /\ SF_vars(TickLocks(e)) /\ WF_vars(GenerateStep(e))
  /\ \A t \in Threads : WF_vars(PublishStep(t))
  /\ WF_vars(Clock)
FairSpec == Spec /\ Fairness

-----------------------------------------------------------------------------
(* Properties *)

\* A destination never holds more status messages of the bot than one, and one for
\* each time that the bot lost sight of one there: by a death between post and
\* record, an answer without an id, a 403 to an edit, or a save that took the id out
\* of the row.  Ticks, manual publishes, moves and deletions add none: what overlaps
\* finds the message there is (_publish_lock, claim_bot_tick).
OneMessage == copies <= 1 + losses

\* A running bot is published again and again, or it is stopped.
Refreshes ==
  running ~> (~running \/ \E t \in Threads : job[t].step = "publishing")

\* A bot whose owner's trial is over is stopped, even if a manual publish in
\* flight or a new one starts it again.
TrialSettles == expired ~> ~running
=============================================================================
