------------------------------- MODULE Trials -------------------------------
(***************************************************************************)
(* The trial of one account: the maintenance daemon that runs              *)
(* expire_trial_bots and inactivity_sweep in every pass, the two doors to  *)
(* renew_user (the web API and the panel), the owner's bot and the         *)
(* operator's changes of the account.  Accounts share nothing but the      *)
(* pass, so one is enough: the mails a pass sends to others are the time   *)
(* between its reading of a row and what it does about it.                 *)
(*                                                                         *)
(* Time is counted in units and relative to now: what is left until the    *)
(* deadline, and ages that stop growing where nothing depends on them.     *)
(***************************************************************************)
EXTENDS Integers

CONSTANTS
  Sweepers,     \* maintenance daemons, one for each host that runs the tier
  Doors,        \* the processes that serve a renewal
  Cycle,        \* RENEW_CYCLE_DAYS and TRIAL_DAYS
  Warn,         \* RENEW_WARN_DAYS_BEFORE
  RenewWindow,  \* RENEW_WINDOW_DAYS
  Grace,        \* RENEW_GRACE_DAYS
  Overrun,      \* the longest a pass takes
  TrialEvents,  \* bound: what the owner and the operator ask for
  MaxPassDeaths \* bound: how often a daemon dies in a pass

TrialEventKinds == {"renew", "start", "stop", "slots", "upgrade", "downgrade", "extend"}

ASSUME TrialsConstants ==
  /\ Cycle \in Nat \ {0} /\ Warn \in Nat /\ RenewWindow \in Nat
  /\ Grace \in Nat \ {0} /\ Overrun \in 0..Grace /\ MaxPassDeaths \in Nat
  /\ TrialEvents \subseteq TrialEventKinds

VARIABLES
  plan,      \* users.account_type
  left,      \* trial_expires_at from now, and nothing if paid; Floor: that or longer ago
  warned,    \* whether inactive_warned_at is set
  stopped,   \* time since bot_stopped_at; Never: not set
  bot,       \* the bots rows: none, or one that runs or not
  pass,      \* the pass of each daemon
  renewal,   \* renew_user in each process, with the expiry that it read
  halted,    \* history: time since the sweep last stopped the workloads, or Never
  notice,    \* history: time since the mail before that; Never: none went out
  renewRaced,     \* history: the deadline was last moved during a pass, or by an operator
  deaths     \* history: passes that a daemon did not survive

trialVars == <<plan, left, warned, stopped, bot, pass, renewal,
               halted, notice, renewRaced, deaths>>

Never == -1
\* A renewal from here does not reach beyond the end of the grace period.
Floor == -(Cycle + Grace)
Most(a, b) == IF a > b THEN a ELSE b
Ages(t, cap) == IF t = Never \/ t >= cap THEN t ELSE t + 1

PassSteps == {"idle", "listed", "expired", "warn", "mailed", "stop", "noticed", "delete", "counted"}
AtRest == [step |-> "idle", age |-> 0]
NoRenewal == [step |-> "idle", expires |-> 0]
Deadlines == Floor..(RenewWindow + Cycle)

TrialsTypeOK ==
  /\ plan \in {"trial", "paid"} /\ left \in Deadlines /\ warned \in BOOLEAN
  /\ stopped \in Never..Grace /\ bot \in {"none", "running", "stopped"}
  /\ pass \in [Sweepers -> [step : PassSteps, age : 0..Overrun]]
  /\ renewal \in [Doors -> [step : {"idle", "read"}, expires : Floor..RenewWindow]]
  /\ halted \in Never..Grace /\ notice \in Never..Grace
  /\ renewRaced \in BOOLEAN /\ deaths \in 0..MaxPassDeaths

\* create_user, an email that was verified and a bot that was started.
TrialsInit ==
  /\ plan = "trial" /\ left = Cycle /\ warned = FALSE /\ stopped = Never
  /\ bot = "running"
  /\ pass = [s \in Sweepers |-> AtRest]
  /\ renewal = [d \in Doors |-> NoRenewal]
  /\ halted = Never /\ notice = Never /\ renewRaced = FALSE /\ deaths = 0

-----------------------------------------------------------------------------
(* Time *)

Past == [t \in Deadlines |-> Most(t - 1, Floor)]
\* A pass takes Overrun at most, and a renewal no time.
Day ==
  /\ \A s \in Sweepers : pass[s].step = "idle" \/ pass[s].age < Overrun
  /\ \A d \in Doors : renewal[d].step = "idle"
  /\ left' = IF plan = "trial" THEN Past[left] ELSE left
  /\ stopped' = Ages(stopped, Grace)
  /\ halted' = Ages(halted, Grace) /\ notice' = Ages(notice, Grace)
  /\ pass' = [s \in Sweepers |->
       IF pass[s].step = "idle" THEN AtRest ELSE [pass[s] EXCEPT !.age = @ + 1]]
  /\ UNCHANGED <<plan, warned, bot, renewal, renewRaced, deaths>>

-----------------------------------------------------------------------------
(* A pass of the maintenance daemon *)

PassGoes(s, step) == pass' = [pass EXCEPT ![s].step = step]
\* The row is committed: a daemon that dies earlier leaves no trace of its UPDATE.
RowKept == UNCHANGED <<plan, left, warned, stopped, bot>>
TrialKept == UNCHANGED <<renewal, renewRaced, deaths>>

\* expire_trial_bots selects the accounts whose trial is over.
PassLists(s) ==
  /\ pass[s].step = "idle"
  /\ pass' = [pass EXCEPT ![s] =
       [step |-> IF plan = "trial" /\ left < 0 THEN "listed" ELSE "expired", age |-> 0]]
  /\ RowKept /\ TrialKept /\ UNCHANGED <<halted, notice>>

PassExpires(s) ==
  /\ pass[s].step = "listed"
  /\ PassGoes(s, "expired")
  /\ bot' = IF bot = "running" THEN "stopped" ELSE bot
  /\ UNCHANGED <<plan, left, warned, stopped, halted, notice>> /\ TrialKept

\* Mutant: the grace period is not waited for.
VerdictWithoutGrace(addressed) ==
  IF addressed /\ ~warned /\ left \in 1..Warn THEN "warn"
  ELSE IF stopped = Never /\ left <= 0 THEN "stop"
  ELSE IF stopped # Never THEN "delete"
  ELSE "idle"
\* What inactivity_sweep will do about the row it reads.
Verdict(addressed) ==
  IF addressed /\ ~warned /\ left \in 1..Warn THEN "warn"
  ELSE IF stopped = Never /\ left <= 0 THEN "stop"
  ELSE IF stopped >= Grace THEN "delete"
  ELSE "idle"

PassReads(s) ==
  /\ pass[s].step = "expired"
  /\ \E addressed \in BOOLEAN : pass' = [pass EXCEPT ![s] =
       [step |-> IF plan = "trial" THEN Verdict(addressed) ELSE "idle", age |-> 0]]
  /\ RowKept /\ TrialKept /\ UNCHANGED <<halted, notice>>

\* The warning is sent, and only then noted; a mail that fails is tried again
\* in the next pass.
PassWarns(s) ==
  /\ pass[s].step = "warn"
  /\ \/ PassGoes(s, "mailed")
     \/ PassGoes(s, "idle")
  /\ RowKept /\ TrialKept /\ UNCHANGED <<halted, notice>>

PassStampsWarning(s) ==
  /\ pass[s].step = "mailed"
  /\ PassGoes(s, "idle") /\ warned' = TRUE
  /\ UNCHANGED <<plan, left, stopped, bot, halted, notice>> /\ TrialKept

\* The mail of the last day.  One that fails is only printed, and an account
\* without an address gets none: the stop is noted all the same.
PassNotifies(s) ==
  /\ pass[s].step = "stop"
  /\ PassGoes(s, "noticed") /\ notice' \in {0, Never}
  /\ RowKept /\ TrialKept /\ UNCHANGED halted

\* Mutant: the workloads are stopped and the stop is not noted.
PassStopsUnnoted(s) ==
  /\ pass[s].step = "noticed"
  /\ PassGoes(s, "idle")
  /\ warned' = FALSE /\ halted' = 0
  /\ bot' = IF bot = "running" THEN "stopped" ELSE bot
  /\ UNCHANGED <<plan, left, stopped, notice>> /\ TrialKept
\* The stamp is the time at which the pass began.
PassStops(s) ==
  /\ pass[s].step = "noticed"
  /\ PassGoes(s, "idle")
  /\ stopped' = pass[s].age /\ warned' = FALSE /\ halted' = 0
  /\ bot' = IF bot = "running" THEN "stopped" ELSE bot
  /\ UNCHANGED <<plan, left, notice>> /\ TrialKept

PassCounts(s) ==
  /\ pass[s].step = "delete"
  /\ PassGoes(s, IF bot = "none" THEN "idle" ELSE "counted")
  /\ RowKept /\ TrialKept /\ UNCHANGED <<halted, notice>>

\* _delete_trial_workloads.
PassDeletes(s) ==
  /\ pass[s].step = "counted"
  /\ PassGoes(s, "idle") /\ bot' = "none"
  /\ UNCHANGED <<plan, left, warned, stopped, halted, notice>> /\ TrialKept

\* The daemon dies, or the pass ends in an error; what it had not committed is lost.
PassDies(s) ==
  /\ pass[s].step # "idle" /\ deaths < MaxPassDeaths
  /\ PassGoes(s, "idle") /\ deaths' = deaths + 1
  /\ RowKept /\ UNCHANGED <<renewal, renewRaced, halted, notice>>

-----------------------------------------------------------------------------
(* The owner and the operator *)

InPass == \E s \in Sweepers : pass[s].step # "idle"

\* Mutant: the window is not checked.
RenewReadsAlways(d) ==
  /\ "renew" \in TrialEvents
  /\ renewal[d].step = "idle" /\ plan = "trial"
  /\ renewal' = [renewal EXCEPT ![d] = [step |-> "read", expires |-> left]]
  /\ UNCHANGED <<pass, halted, notice, renewRaced, deaths>> /\ RowKept
\* renew_user reads the row; before the window opens it changes nothing.
RenewReads(d) ==
  /\ "renew" \in TrialEvents
  /\ renewal[d].step = "idle" /\ plan = "trial" /\ left <= RenewWindow
  /\ renewal' = [renewal EXCEPT ![d] = [step |-> "read", expires |-> left]]
  /\ UNCHANGED <<pass, halted, notice, renewRaced, deaths>> /\ RowKept

\* One more cycle from the expiry that was read, which may be long ago.
Renewed(expires) ==
  IF expires = Floor THEN Floor..(Floor + Cycle) ELSE {expires + Cycle}
\* Mutant: the stop stays noted.
RenewKeepsStop(d) ==
  /\ renewal[d].step = "read"
  /\ renewal' = [renewal EXCEPT ![d] = NoRenewal]
  /\ left' \in Renewed(renewal[d].expires)
  /\ warned' = FALSE /\ renewRaced' = InPass
  /\ UNCHANGED <<plan, stopped, bot, pass, halted, notice, deaths>>
\* Its UPDATE of the bots looks for a last_error that nothing writes any more:
\* it starts none.
RenewWrites(d) ==
  /\ renewal[d].step = "read"
  /\ renewal' = [renewal EXCEPT ![d] = NoRenewal]
  /\ left' \in Renewed(renewal[d].expires)
  /\ stopped' = Never /\ warned' = FALSE /\ renewRaced' = InPass
  /\ UNCHANGED <<plan, bot, pass, halted, notice, deaths>>

\* A bot starts in a paid account or one whose trial goes on.
OwnerStarts ==
  /\ "start" \in TrialEvents /\ bot = "stopped" /\ (plan = "paid" \/ left >= 0)
  /\ bot' = "running"
  /\ UNCHANGED <<plan, left, warned, stopped, pass, halted, notice>> /\ TrialKept

OwnerStops ==
  /\ "stop" \in TrialEvents /\ bot = "running"
  /\ bot' = "stopped"
  /\ UNCHANGED <<plan, left, warned, stopped, pass, halted, notice>> /\ TrialKept

\* ensure_bot_slots gives a list of bots that is read its missing rows.
SlotsReturn ==
  /\ "slots" \in TrialEvents /\ bot = "none"
  /\ bot' = "stopped"
  /\ UNCHANGED <<plan, left, warned, stopped, pass, halted, notice>> /\ TrialKept

\* set_user_account_type: the stamps of the sweep stay.
Upgrade ==
  /\ "upgrade" \in TrialEvents /\ plan = "trial"
  /\ plan' = "paid" /\ left' = 0 /\ renewRaced' = TRUE
  /\ UNCHANGED <<warned, stopped, bot, pass, renewal, halted, notice, deaths>>
Downgrade ==
  /\ "downgrade" \in TrialEvents /\ plan = "paid"
  /\ plan' = "trial" /\ left' = Cycle /\ renewRaced' = TRUE
  /\ UNCHANGED <<warned, stopped, bot, pass, renewal, halted, notice, deaths>>
\* api_admin_extend_trial sets the deadline and leaves the stamps as well.
Extend ==
  /\ "extend" \in TrialEvents /\ plan = "trial"
  /\ left' = Cycle /\ renewRaced' = TRUE
  /\ UNCHANGED <<plan, warned, stopped, bot, pass, renewal, halted, notice, deaths>>

-----------------------------------------------------------------------------
PassStep(s) ==
  \/ PassLists(s) \/ PassExpires(s) \/ PassReads(s)
  \/ PassWarns(s) \/ PassStampsWarning(s)
  \/ PassNotifies(s) \/ PassStops(s) \/ PassCounts(s) \/ PassDeletes(s)

OwnerStep == OwnerStarts \/ OwnerStops \/ SlotsReturn
OperatorStep == Upgrade \/ Downgrade \/ Extend

TrialsNext ==
  \/ Day
  \/ \E s \in Sweepers : PassStep(s) \/ PassDies(s)
  \/ \E d \in Doors : RenewReads(d) \/ RenewWrites(d)
  \/ OwnerStep \/ OperatorStep

TrialsSpec == TrialsInit /\ [][TrialsNext]_trialVars

\* Days pass, the daemon sweeps for ever and a request that was taken up ends.
TrialsFairness ==
  /\ WF_trialVars(Day)
  /\ \A s \in Sweepers : WF_trialVars(PassStep(s))
  /\ \A d \in Doors : WF_trialVars(RenewWrites(d))
FairTrialsSpec == TrialsSpec /\ TrialsFairness

-----------------------------------------------------------------------------
(* Properties *)

\* However renewals of both doors overlap each other, the passes and the
\* operator, nobody gets more than one cycle beyond the window: renewals do
\* not add up (renew_user).
NoStacking == plan = "trial" => left <= RenewWindow + Cycle

\* With one daemon and a pass that takes no longer than Overrun, workloads are
\* deleted only when the sweep stopped them as long ago as the grace period,
\* short of the time a pass takes.  The mail that announces it went out before that
\* stop, unless it failed or there is no address to send it to (inactivity_sweep).
GraceGiven ==
  [][bot # "none" /\ bot' = "none" =>
       /\ halted >= Grace - Overrun
       /\ notice = Never \/ notice >= halted]_trialVars

\* A renewal that no pass overlaps protects the workloads, whatever passes and
\* operators did before: they are deleted only after the deadline that it set
\* and the grace period that follows.
QuietRenewalSpares ==
  [][bot # "none" /\ bot' = "none" => renewRaced \/ left <= -Grace]_trialVars

\* "the account is deleted stop + grace_days later unless they renew".
RenewalSpares ==
  [][bot # "none" /\ bot' = "none" => left <= 0]_trialVars

Lapsed == plan = "trial" /\ left < 0
\* The workloads of a trial that is over are deleted in the end, unless the
\* deadline is moved or the owner renews again and again: each renewal forgets
\* the stop, also one that does not reach today (inactivity_sweep).
LapsedDeleted ==
  (\A d \in Doors : <>[](renewal[d].step = "idle")) =>
    (Lapsed ~> (bot = "none" \/ ~Lapsed))
=============================================================================
