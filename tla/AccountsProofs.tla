--------------------------- MODULE AccountsProofs ---------------------------
(***************************************************************************)
(* Theorems about the trials (Trials) and the encryption keys              *)
(* (KeyRotation), and that all of what is proved of the models that        *)
(* MCAccounts puts side by side holds there.                               *)
(***************************************************************************)
EXTENDS MCAccounts, SignupProofs, SessionsProofs, GateProofs

-----------------------------------------------------------------------------
(* Trials *)

Passes == [step : PassSteps, age : 0..Overrun]

-----------------------------------------------------------------------------
(* Types *)

LEMMA FloorBelow == Floor \in Int /\ Floor <= -Grace /\ Floor + Cycle = -Grace /\ Floor <= -1
BY TrialsConstants DEF Floor

LEMMA Moving ==
  ASSUME TrialsTypeOK, NEW s \in Sweepers, NEW step \in PassSteps, PassGoes(s, step)
  PROVE  /\ pass' \in [Sweepers -> Passes] /\ \A t \in Sweepers \ {s} : pass'[t] = pass[t]
         /\ pass'[s].step = step /\ pass'[s].age = pass[s].age
<1>1. pass \in [Sweepers -> Passes] /\ pass[s] \in Passes
  BY DEF TrialsTypeOK, Passes
<1>2. pass' = [pass EXCEPT ![s] = [pass[s] EXCEPT !.step = step]]
  BY DEF PassGoes
<1>3. /\ [pass[s] EXCEPT !.step = step] \in Passes
      /\ [pass[s] EXCEPT !.step = step].step = step
      /\ [pass[s] EXCEPT !.step = step].age = pass[s].age
  BY <1>1 DEF Passes
<1> QED BY <1>1, <1>2, <1>3

\* A new phase of a pass, with its own clock.
LEMMA Turning ==
  ASSUME TrialsTypeOK, NEW s \in Sweepers, NEW step \in PassSteps,
         pass' = [pass EXCEPT ![s] = [step |-> step, age |-> 0]]
  PROVE  /\ pass' \in [Sweepers -> Passes] /\ \A t \in Sweepers \ {s} : pass'[t] = pass[t]
         /\ pass'[s].step = step /\ pass'[s].age = 0
<1>1. pass \in [Sweepers -> Passes]
  BY DEF TrialsTypeOK, Passes
<1>2. [step |-> step, age |-> 0] \in Passes
  BY TrialsConstants DEF Passes
<1> QED BY <1>1, <1>2

\* What a step of a pass leaves alone, by its kind.
LEMMA PassMoves ==
  ASSUME TrialsTypeOK, NEW s \in Sweepers, PassStep(s) \/ PassDies(s)
  PROVE  /\ pass' \in [Sweepers -> Passes] /\ \A t \in Sweepers \ {s} : pass'[t] = pass[t]
         /\ UNCHANGED <<plan, left, renewal, renewRaced>>
<1> USE DEF PassSteps, RowKept, TrialKept
<1>1. CASE PassLists(s)
  BY <1>1, Turning DEF PassLists
<1>2. CASE PassReads(s)
  <2>1. PICK step \in PassSteps : pass' = [pass EXCEPT ![s] = [step |-> step, age |-> 0]]
    BY <1>2 DEF PassReads, Verdict
  <2> QED BY <1>2, <2>1, Turning DEF PassReads
<1>3. CASE PassCounts(s)
  <2>1. PICK step \in PassSteps : PassGoes(s, step)
    BY <1>3 DEF PassCounts
  <2> QED BY <1>3, <2>1, Moving DEF PassCounts
<1>4. CASE PassExpires(s) \/ PassStampsWarning(s) \/ PassNotifies(s) \/ PassStops(s) \/ PassDeletes(s)
  BY <1>4, Moving DEF PassExpires, PassStampsWarning, PassNotifies, PassStops, PassDeletes
<1>5. CASE PassWarns(s) \/ PassDies(s)
  BY <1>5, Moving DEF PassWarns, PassDies
<1> QED BY <1>1, <1>2, <1>3, <1>4, <1>5 DEF PassStep

LEMMA PassTyped ==
  ASSUME TrialsTypeOK, NEW s \in Sweepers, PassStep(s) \/ PassDies(s)
  PROVE  TrialsTypeOK'
<1>1. pass' \in [Sweepers -> Passes] /\ UNCHANGED <<plan, left, renewal, renewRaced>>
  BY PassMoves
<1>2. pass[s].age \in 0..Overrun
  BY DEF TrialsTypeOK
<1>3. warned' \in BOOLEAN /\ stopped' \in Never..Grace
  <2>1. (stopped' = stopped \/ stopped' = pass[s].age) /\ (warned' = warned \/ warned' \in BOOLEAN)
    BY DEF PassStep, PassDies, PassLists, PassExpires, PassReads, PassWarns, PassStampsWarning,
           PassNotifies, PassStops, PassCounts, PassDeletes, RowKept
  <2> QED BY <1>2, <2>1, TrialsConstants DEF TrialsTypeOK, Never
<1>4. bot' \in {"none", "running", "stopped"} /\ deaths' \in 0..MaxPassDeaths
      /\ halted' \in Never..Grace /\ notice' \in Never..Grace
  BY TrialsConstants
     DEF TrialsTypeOK, Never, PassStep, PassDies, PassLists, PassExpires, PassReads, PassWarns,
         PassStampsWarning, PassNotifies, PassStops, PassCounts, PassDeletes, RowKept, TrialKept
<1> QED BY <1>1, <1>3, <1>4 DEF TrialsTypeOK, Passes

LEMMA DayTyped == ASSUME TrialsTypeOK, Day PROVE TrialsTypeOK'
<1>1. left' \in Deadlines /\ left' <= left
  <2>1. Past[left] = Most(left - 1, Floor) /\ left \in Floor..(RenewWindow + Cycle)
    BY DEF TrialsTypeOK, Past, Deadlines
  <2>2. Past[left] \in Deadlines /\ Past[left] <= left
    BY <2>1, FloorBelow, TrialsConstants DEF Most, Deadlines
  <2>3. left \in Int
    BY <2>1, FloorBelow
  <2> QED BY <2>2, <2>3 DEF Day, TrialsTypeOK
<1>2. stopped' \in Never..Grace /\ halted' \in Never..Grace /\ notice' \in Never..Grace
  BY TrialsConstants DEF Day, TrialsTypeOK, Ages, Never
<1>3. pass' \in [Sweepers -> Passes]
  <2> SUFFICES ASSUME NEW s \in Sweepers
               PROVE  (IF pass[s].step = "idle" THEN AtRest ELSE [pass[s] EXCEPT !.age = @ + 1]) \in Passes
    BY DEF Day
  <2>1. pass[s] \in Passes /\ (pass[s].step = "idle" \/ pass[s].age < Overrun)
    BY DEF Day, TrialsTypeOK, Passes
  <2>2. AtRest \in Passes
    BY TrialsConstants DEF AtRest, Passes, PassSteps
  <2> QED BY <2>1, <2>2, TrialsConstants DEF Passes
<1> QED BY <1>1, <1>2, <1>3 DEF Day, TrialsTypeOK, Passes

LEMMA DoorTyped ==
  ASSUME TrialsTypeOK, NEW d \in Doors, RenewReads(d) \/ RenewWrites(d)
  PROVE  TrialsTypeOK'
<1>1. CASE RenewReads(d)
  <2>1. left \in Floor..RenewWindow
    BY <1>1, FloorBelow, TrialsConstants DEF RenewReads, TrialsTypeOK, Deadlines
  <2> QED BY <1>1, <2>1 DEF RenewReads, RowKept, TrialsTypeOK
<1>2. CASE RenewWrites(d)
  <2>1. renewal[d].expires \in Floor..RenewWindow
    BY DEF TrialsTypeOK
  <2>2. left' \in Deadlines
    BY <1>2, <2>1, FloorBelow, TrialsConstants DEF RenewWrites, Renewed, Deadlines
  <2>3. NoRenewal \in [step : {"idle", "read"}, expires : Floor..RenewWindow]
    BY FloorBelow, TrialsConstants DEF NoRenewal
  <2>4. renewal' \in [Doors -> [step : {"idle", "read"}, expires : Floor..RenewWindow]]
    BY <1>2, <2>3 DEF RenewWrites, TrialsTypeOK
  <2>5. Never \in Never..Grace
    BY TrialsConstants DEF Never
  <2> QED BY <1>2, <2>2, <2>4, <2>5 DEF RenewWrites, InPass, TrialsTypeOK
<1> QED BY <1>1, <1>2

LEMMA OthersTyped ==
  ASSUME TrialsTypeOK, OwnerStep \/ OperatorStep PROVE TrialsTypeOK'
<1>1. 0 \in Deadlines /\ Cycle \in Deadlines
  BY FloorBelow, TrialsConstants DEF Deadlines
<1> QED BY <1>1 DEF TrialsTypeOK, OwnerStep, OwnerStarts, OwnerStops, SlotsReturn, TrialKept,
           OperatorStep, Upgrade, Downgrade, Extend

\* Every variable keeps its type: no deadline is beyond one cycle and the window.
THEOREM TrialsTyped == TrialsSpec => []TrialsTypeOK
<1>1. TrialsInit => TrialsTypeOK
  <2> SUFFICES ASSUME TrialsInit PROVE TrialsTypeOK
    OBVIOUS
  <2>1. AtRest \in Passes /\ NoRenewal \in [step : {"idle", "read"}, expires : Floor..RenewWindow]
    BY FloorBelow, TrialsConstants DEF AtRest, NoRenewal, Passes, PassSteps
  <2>2. Cycle \in Deadlines /\ Never \in Never..Grace /\ Grace \in 0..Grace /\ 0 \in 0..MaxPassDeaths
    BY FloorBelow, TrialsConstants DEF Deadlines, Never
  <2> QED BY <2>1, <2>2 DEF TrialsInit, TrialsTypeOK, Passes
<1>2. TrialsTypeOK /\ [TrialsNext]_trialVars => TrialsTypeOK'
  <2>1. TrialsTypeOK /\ UNCHANGED trialVars => TrialsTypeOK'
    BY DEF trialVars, TrialsTypeOK
  <2> QED BY <2>1, PassTyped, DayTyped, DoorTyped, OthersTyped DEF TrialsNext
<1> QED BY <1>1, <1>2, PTL DEF TrialsSpec

\* NoStacking for any windows and cycles and any overlap of renewals.
THEOREM RenewalsDoNotStack == TrialsSpec => []NoStacking
<1>1. TrialsTypeOK => NoStacking
  BY FloorBelow, TrialsConstants DEF TrialsTypeOK, NoStacking, Deadlines
<1> QED BY <1>1, TrialsTyped, PTL

-----------------------------------------------------------------------------
(* Deletions *)

\* Only a pass that counted the workloads deletes them.
LEMMA OnlyDeletes ==
  ASSUME [TrialsNext]_trialVars, bot # "none", bot' = "none"
  PROVE  \E s \in Sweepers : PassDeletes(s)
BY DEF TrialsNext, trialVars, Day, PassStep, PassDies, PassLists, PassExpires, PassReads, PassWarns,
       PassStampsWarning, PassNotifies, PassStops, PassCounts, PassDeletes, RowKept, RenewReads,
       RenewWrites, OwnerStep, OwnerStarts, OwnerStops, SlotsReturn, OperatorStep, Upgrade,
       Downgrade, Extend

\* While no renewal was raced, the clock of a stop and of a pass that is about to
\* stop never runs ahead of the deadline: a stop that a pass noted just before a
\* renewal would, and that is the race.
DeadlinePassed(s) ==
  /\ pass[s].step \in {"stop", "noticed"} => plan = "trial" /\ left <= -pass[s].age
  /\ pass[s].step \in {"delete", "counted"} => left <= -Grace
Unraced ==
  ~renewRaced =>
    /\ stopped # Never => plan = "trial" /\ left <= -stopped
    /\ \A s \in Sweepers : DeadlinePassed(s)
QuietInv == TrialsTypeOK /\ Unraced

LEMMA DayQuiet == ASSUME QuietInv, Day PROVE Unraced'
<1> SUFFICES ASSUME ~renewRaced PROVE Unraced'
  BY DEF Day, Unraced
<1>1. plan' = plan /\ TrialsTypeOK /\ left \in Int /\ Floor <= left
  BY FloorBelow DEF Day, QuietInv, TrialsTypeOK, Deadlines
<1>2. /\ plan = "trial" => left' = Past[left]
      /\ left' = left \/ left' = Past[left]
      /\ Past[left] = Most(left - 1, Floor)
  BY <1>1 DEF Day, Past, TrialsTypeOK
<1>3. /\ left' \in Int /\ left' <= left
      /\ plan = "trial" => left' = left - 1 \/ left' = Floor
  BY <1>1, <1>2, FloorBelow DEF Most
<1>4. stopped' # Never => plan' = "trial" /\ left' <= -stopped'
  <2>1. stopped \in Never..Grace /\ stopped' = Ages(stopped, Grace)
    BY <1>1 DEF Day, TrialsTypeOK
  <2>2. CASE stopped = Never
    BY <2>1, <2>2 DEF Ages
  <2>3. CASE stopped # Never
    <3>1. plan = "trial" /\ left <= -stopped
      BY <2>3 DEF QuietInv, Unraced
    <3>2. stopped' \in 0..Grace /\ (stopped' = stopped \/ stopped' = stopped + 1)
      BY <2>1, <2>3, TrialsConstants DEF Ages, Never
    <3> QED BY <1>1, <1>3, <2>1, <3>1, <3>2, FloorBelow, TrialsConstants DEF Never
  <2> QED BY <2>2, <2>3
<1>5. ASSUME NEW s \in Sweepers PROVE DeadlinePassed(s)'
  <2>1. DeadlinePassed(s)
    BY DEF QuietInv, Unraced
  <2>2. CASE pass[s].step = "idle"
    <3>1. pass'[s] = AtRest
      BY <2>2 DEF Day
    <3> QED BY <3>1 DEF DeadlinePassed, AtRest
  <2>3. CASE pass[s].step # "idle"
    <3>1. pass[s] \in Passes /\ pass[s].age < Overrun
      BY <1>1, <2>3 DEF Day, TrialsTypeOK, Passes
    <3>2. pass'[s] = [pass[s] EXCEPT !.age = @ + 1]
      BY <2>3 DEF Day
    <3>3. pass'[s].step = pass[s].step /\ pass'[s].age = pass[s].age + 1 /\ pass[s].age \in 0..Overrun
      BY <3>1, <3>2 DEF Passes
    <3> QED BY <1>1, <1>3, <2>1, <3>1, <3>3, FloorBelow, TrialsConstants DEF DeadlinePassed
  <2> QED BY <2>2, <2>3
<1> QED BY <1>4, <1>5 DEF Unraced

LEMMA PassQuiet ==
  ASSUME QuietInv, NEW s \in Sweepers, PassStep(s) \/ PassDies(s) PROVE Unraced'
<1> SUFFICES ASSUME ~renewRaced PROVE Unraced'
  BY PassMoves DEF QuietInv, Unraced
<1> USE DEF PassSteps, RowKept, TrialKept
<1>1. TrialsTypeOK /\ DeadlinePassed(s) /\ (stopped # Never => plan = "trial" /\ left <= -stopped)
  BY DEF QuietInv, Unraced
<1>2. /\ \A t \in Sweepers \ {s} : pass'[t] = pass[t]
      /\ UNCHANGED <<plan, left, renewal, renewRaced>>
  BY <1>1, PassMoves
<1>3. \A t \in Sweepers \ {s} : DeadlinePassed(t)'
  BY <1>2 DEF QuietInv, Unraced, DeadlinePassed
<1>4. stopped' # Never => plan = "trial" /\ left <= -stopped'
  <2>1. CASE PassStops(s)
    BY <1>1, <2>1 DEF PassStops, DeadlinePassed
  <2>2. CASE stopped' = stopped
    BY <1>1, <2>2
  <2> QED BY <2>1, <2>2 DEF PassStep, PassDies, PassLists, PassExpires, PassReads, PassWarns,
             PassStampsWarning, PassNotifies, PassCounts, PassDeletes
<1>5. DeadlinePassed(s)'
  <2>1. CASE PassReads(s)
    <3>1. PICK step \in PassSteps :
            /\ pass' = [pass EXCEPT ![s] = [step |-> step, age |-> 0]]
            /\ step = "stop" => plan = "trial" /\ left <= 0
            /\ step = "delete" => plan = "trial" /\ stopped >= Grace
            /\ step \notin {"noticed", "counted"}
      BY <2>1 DEF PassReads, Verdict
    <3>2. pass'[s].step = step /\ pass'[s].age = 0
      BY <1>1, <3>1, Turning
    <3>3. step = "delete" => left <= -Grace
      BY <1>1, <3>1, FloorBelow, TrialsConstants DEF TrialsTypeOK, Never, Deadlines
    <3> QED BY <1>2, <3>1, <3>2, <3>3 DEF DeadlinePassed
  <2>2. CASE PassNotifies(s)
    <3>1. pass'[s].step = "noticed" /\ pass'[s].age = pass[s].age
      BY <1>1, <2>2, Moving DEF PassNotifies
    <3> QED BY <1>1, <1>2, <2>2, <3>1 DEF PassNotifies, DeadlinePassed
  <2>3. CASE PassCounts(s)
    <3>1. pass'[s].step \in {"idle", "counted"} /\ pass[s].step = "delete"
      <4>1. PICK step \in {"idle", "counted"} : PassGoes(s, step)
        BY <2>3 DEF PassCounts
      <4> QED BY <1>1, <2>3, <4>1, Moving DEF PassCounts
    <3> QED BY <1>1, <1>2, <3>1 DEF DeadlinePassed
  <2>4. CASE PassLists(s)
    <3>1. PICK step \in {"listed", "expired"} : pass' = [pass EXCEPT ![s] = [step |-> step, age |-> 0]]
      BY <2>4 DEF PassLists
    <3> QED BY <1>1, <3>1, Turning DEF DeadlinePassed
  <2>5. CASE \E step \in {"idle", "expired", "mailed"} : PassGoes(s, step)
    BY <1>1, <2>5, Moving DEF DeadlinePassed
  <2> QED BY <2>1, <2>2, <2>3, <2>4, <2>5
          DEF PassStep, PassDies, PassExpires, PassWarns, PassStampsWarning, PassStops, PassDeletes
<1> QED BY <1>2, <1>3, <1>4, <1>5 DEF Unraced

LEMMA OthersQuiet ==
  ASSUME QuietInv,
         \/ \E d \in Doors : RenewReads(d) \/ RenewWrites(d)
         \/ OwnerStep \/ OperatorStep
  PROVE  Unraced'
<1>1. CASE \E d \in Doors : RenewWrites(d)
  <2>1. stopped' = Never /\ renewRaced' = InPass /\ pass' = pass
    BY <1>1 DEF RenewWrites
  <2> QED BY <2>1 DEF InPass, Unraced, DeadlinePassed
<1>2. CASE OperatorStep
  BY <1>2 DEF OperatorStep, Upgrade, Downgrade, Extend, Unraced
<1>3. CASE UNCHANGED <<plan, left, stopped, pass, renewRaced>>
  BY <1>3 DEF QuietInv, Unraced, DeadlinePassed
<1> QED BY <1>1, <1>2, <1>3
        DEF RenewReads, RowKept, OwnerStep, OwnerStarts, OwnerStops, SlotsReturn, TrialKept

\* QuietRenewalSpares for any number of daemons and doors: workloads are deleted
\* the grace period after the deadline or later, unless the deadline was last
\* moved during a pass or by an operator.
THEOREM RenewalHolds == TrialsSpec => QuietRenewalSpares
<1>1. TrialsInit => Unraced
  BY DEF TrialsInit, Unraced, DeadlinePassed, AtRest
<1>2. TrialsTypeOK /\ Unraced /\ [TrialsNext]_trialVars => Unraced'
  <2>1. Unraced /\ UNCHANGED trialVars => Unraced'
    BY DEF trialVars, Unraced, DeadlinePassed
  <2> QED BY <2>1, DayQuiet, PassQuiet, OthersQuiet DEF QuietInv, TrialsNext
<1>3. Unraced /\ [TrialsNext]_trialVars
      => [bot # "none" /\ bot' = "none" => renewRaced \/ left <= -Grace]_trialVars
  BY OnlyDeletes DEF PassDeletes, Unraced, DeadlinePassed
<1> QED BY TrialsTyped, <1>1, <1>2, <1>3, PTL DEF TrialsSpec, QuietRenewalSpares

\* With one daemon the stamp of a stop is that of its own pass, and no mail is
\* sent while a stop is noted.
Told == notice = Never \/ notice >= halted
Announced ==
  /\ stopped <= halted + Overrun
  /\ halted = Never => stopped = Never
  /\ stopped # Never => Told
  /\ \A s \in Sweepers : pass[s].step \in {"delete", "counted"} => halted >= Grace - Overrun /\ Told
  /\ \A s \in Sweepers : pass[s].step \in {"stop", "noticed"} => stopped = Never

LEMMA PassAnnounces ==
  ASSUME TrialsTypeOK, Announced, NEW s \in Sweepers, Sweepers = {s}, PassStep(s) \/ PassDies(s)
  PROVE  Announced'
<1> USE DEF PassSteps, RowKept, TrialKept
<1> DEFINE Fine == /\ pass'[s].step \in {"delete", "counted"} => halted >= Grace - Overrun /\ Told
                   /\ pass'[s].step \in {"stop", "noticed"} => stopped = Never
<1>1. /\ notice \in Never..Grace /\ stopped \in Never..Grace /\ halted \in Never..Grace
      /\ pass[s].age \in 0..Overrun /\ stopped <= halted + Overrun
      /\ halted = Never => stopped = Never
      /\ stopped # Never => Told
      /\ pass[s].step \in {"delete", "counted"} => halted >= Grace - Overrun /\ Told
      /\ pass[s].step \in {"stop", "noticed"} => stopped = Never
  BY DEF TrialsTypeOK, Announced
<1>2. ASSUME stopped' = stopped, halted' = halted, notice' = notice, Fine PROVE Announced'
  BY <1>1, <1>2 DEF Announced, Told
<1>3. CASE PassReads(s)
  <2>1. PICK step \in PassSteps :
          /\ pass' = [pass EXCEPT ![s] = [step |-> step, age |-> 0]]
          /\ step = "stop" => stopped = Never
          /\ step = "delete" => stopped >= Grace
          /\ step \notin {"noticed", "counted"}
    BY <1>3 DEF PassReads, Verdict
  <2>2. step = "delete" => halted >= Grace - Overrun /\ Told
    BY <1>1, <2>1, TrialsConstants DEF Never
  <2>3. Fine
    BY <1>1, <2>1, <2>2, Turning
  <2> QED BY <1>2, <1>3, <2>3 DEF PassReads
<1>4. CASE PassNotifies(s)
  <2>1. pass'[s].step = "noticed" /\ halted' = halted /\ stopped' = stopped /\ stopped = Never
    BY <1>1, <1>4, Moving DEF PassNotifies
  <2> QED BY <1>1, <2>1, TrialsConstants DEF Announced, Never
<1>5. CASE PassStops(s)
  <2>1. pass'[s].step = "idle" /\ notice' = notice /\ stopped' = pass[s].age /\ halted' = 0
    BY <1>1, <1>5, Moving DEF PassStops
  <2>2. Told'
    BY <1>1, <2>1, TrialsConstants DEF Told, Never
  <2> QED BY <1>1, <2>1, <2>2, TrialsConstants DEF Announced, Never
<1>6. CASE PassCounts(s)
  <2>1. PICK step \in {"idle", "counted"} : PassGoes(s, step)
    BY <1>6 DEF PassCounts
  <2>2. Fine
    BY <1>1, <1>6, <2>1, Moving DEF PassCounts
  <2> QED BY <1>2, <1>6, <2>2 DEF PassCounts
<1>7. CASE PassLists(s)
  <2>1. PICK step \in {"listed", "expired"} : pass' = [pass EXCEPT ![s] = [step |-> step, age |-> 0]]
    BY <1>7 DEF PassLists
  <2>2. Fine
    BY <2>1, Turning
  <2> QED BY <1>2, <1>7, <2>2 DEF PassLists
<1>8. CASE PassExpires(s) \/ PassWarns(s) \/ PassStampsWarning(s) \/ PassDeletes(s) \/ PassDies(s)
  <2>1. PICK step \in {"idle", "expired", "mailed"} : PassGoes(s, step)
    BY <1>8 DEF PassExpires, PassWarns, PassStampsWarning, PassDeletes, PassDies
  <2>2. Fine
    BY <2>1, Moving
  <2> QED BY <1>2, <1>8, <2>2 DEF PassExpires, PassWarns, PassStampsWarning, PassDeletes, PassDies
<1> QED BY <1>3, <1>4, <1>5, <1>6, <1>7, <1>8 DEF PassStep

LEMMA DayAnnounces == ASSUME TrialsTypeOK, Announced, Day PROVE Announced'
<1>1. /\ notice \in Never..Grace /\ halted \in Never..Grace /\ stopped \in Never..Grace
      /\ stopped <= halted + Overrun /\ (halted = Never => stopped = Never)
      /\ stopped' = Ages(stopped, Grace) /\ notice' = Ages(notice, Grace)
      /\ halted' = Ages(halted, Grace)
  BY DEF Day, TrialsTypeOK, Announced
<1>2. /\ halted' >= halted /\ stopped' <= halted' + Overrun /\ (stopped = Never => stopped' = Never)
      /\ halted' = Never => stopped' = Never
  BY <1>1, TrialsConstants DEF Ages, Never
<1>5. Told => Told'
  BY <1>1, TrialsConstants DEF Told, Ages, Never
<1>6. stopped' # Never => stopped # Never
  BY <1>1 DEF Ages
<1>3. ASSUME NEW s \in Sweepers PROVE pass'[s].step = pass[s].step
  <2>1. pass[s] \in Passes
    BY DEF TrialsTypeOK, Passes
  <2> QED BY <2>1 DEF Day, AtRest, Passes
<1>4. halted' \in Int /\ halted \in Int
  BY <1>1, TrialsConstants DEF Ages, Never
<1> QED BY <1>1, <1>2, <1>3, <1>4, <1>5, <1>6, TrialsConstants DEF Announced

\* GraceGiven for one daemon, any number of doors, any periods and any deaths:
\* the stop that precedes a deletion is the grace period old, short of the time
\* that a pass takes, and its mail came before it or failed.
THEOREM StopComesFirst == ASSUME NEW s, Sweepers = {s} PROVE TrialsSpec => GraceGiven
<1>1. TrialsInit => Announced
  BY TrialsConstants DEF TrialsInit, Announced, AtRest, Never
<1>2. TrialsTypeOK /\ Announced /\ [TrialsNext]_trialVars => Announced'
  <2>1. ASSUME TrialsTypeOK, Announced,
               \/ \E d \in Doors : RenewReads(d) \/ RenewWrites(d)
               \/ OwnerStep \/ OperatorStep \/ UNCHANGED trialVars
        PROVE  Announced'
    <3>1. pass' = pass /\ halted' = halted /\ notice' = notice /\ (stopped' = stopped \/ stopped' = Never)
      BY <2>1 DEF RenewReads, RenewWrites, RowKept, OwnerStep, OwnerStarts, OwnerStops, SlotsReturn,
                  OperatorStep, Upgrade, Downgrade, Extend, trialVars
    <3> QED BY <2>1, <3>1, TrialsConstants DEF Announced, Told, TrialsTypeOK, Never
  <2> QED BY <2>1, DayAnnounces, PassAnnounces DEF TrialsNext
<1>3. Announced /\ [TrialsNext]_trialVars
      => [bot # "none" /\ bot' = "none" =>
            halted >= Grace - Overrun /\ (notice = Never \/ notice >= halted)]_trialVars
  BY OnlyDeletes DEF PassDeletes, Announced, Told
<1> QED BY TrialsTyped, <1>1, <1>2, <1>3, PTL DEF TrialsSpec, GraceGiven

-----------------------------------------------------------------------------
(* KeyRotation *)

KeysTyped ==
  /\ env \in [Tiers -> KeyRing] /\ loaded \in [Tiers -> KeyRing]
  /\ stored \in [Tables -> Keys] /\ listed \subseteq Tables /\ script \in Script
  /\ newest \in Keys

Primary == env["app"].key
\* Whatever a tier writes with, and will write with when it starts again, opens.
TiersOpen ==
  \A tier \in Tiers : loaded[tier].key \in Opens(env["app"]) /\ env[tier].key \in Opens(env["app"])
\* What the steps of the script know of the files.
ScriptKnows ==
  /\ script.step = "planned" => script.previous = Primary
  /\ script.step = "half" => Primary = newest
  /\ script.step = "scan" => script.ring = env["app"]
  /\ script.step = "drop" => script.job = "retire"
\* The tables that a clean scan has behind it are under the primary key, and
\* stay there, as every tier writes with that key.
Retiring ==
  script.job = "retire" =>
    /\ script.step \in {"scan", "drop"} => Healthy /\ ~script.apply
    /\ script.step = "scan" /\ script.clean =>
         /\ \A t \in listed \ (script.todo \cup {script.read}) : stored[t] = Primary
         /\ script.read # NoTable /\ script.found = Primary => stored[script.read] = Primary
    /\ script.step = "drop" => \A t \in Tables : stored[t] = Primary
KeysInv == KeysTyped /\ AppReads /\ TiersOpen /\ ScriptKnows /\ Retiring

LEMMA NoScriptTyped ==
  /\ NoScript \in Script /\ FirstRing \in KeyRing /\ 0 \in Keys
  /\ NoScript.step = "idle" /\ NoScript.job # "retire"
BY KeyRotationConstants DEF NoScript, Script, FirstRing, KeyRing, Keys, NoTable

\* A record of a script with other fields.
LEMMA ScriptWith ==
  ASSUME NEW s \in Script
  PROVE  /\ \A step \in {"half", "done", "drop", "dropped"} :
              /\ [s EXCEPT !.step = step] \in Script /\ [s EXCEPT !.step = step].step = step
              /\ [s EXCEPT !.step = step].job = s.job /\ [s EXCEPT !.step = step].apply = s.apply
         /\ \A m \in SUBSET Tables : [s EXCEPT !.missed = m] \in Script
BY DEF Script

LEMMA KeysInitially == KeyRotationInit => KeysInv
<1> SUFFICES ASSUME KeyRotationInit PROVE KeysInv
  OBVIOUS
<1>1. KeysTyped
  BY NoScriptTyped DEF KeyRotationInit, KeysTyped
<1>2. \A tier \in Tiers : env[tier] = FirstRing /\ loaded[tier] = FirstRing
  BY DEF KeyRotationInit
<1>3. env["app"] = FirstRing
  BY <1>2 DEF Tiers
<1>4. FirstRing.key = 0 /\ 0 \in Opens(FirstRing) /\ \A t \in Tables : stored[t] = 0
  BY DEF KeyRotationInit, Opens, FirstRing
<1>5. AppReads /\ TiersOpen
  BY <1>2, <1>3, <1>4 DEF AppReads, TiersOpen
<1>6. ScriptKnows /\ Retiring
  BY NoScriptTyped DEF KeyRotationInit, ScriptKnows, Retiring
<1> QED BY <1>1, <1>5, <1>6 DEF KeysInv

\* A scan that starts.
LEMMA ScanStarts ==
  ASSUME KeysTyped, KeysTyped', NEW job \in {"rotate", "rekey", "retire"}, NEW apply \in BOOLEAN,
         script' = [NoScript EXCEPT !.step = "scan", !.job = job, !.ring = env'["app"],
                                    !.apply = apply, !.todo = listed],
         UNCHANGED <<stored, listed>>, job = "retire" => Healthy' /\ ~apply
  PROVE  ScriptKnows' /\ Retiring'
<1>1. /\ script'.step = "scan" /\ script'.job = job /\ script'.ring = env'["app"]
      /\ script'.apply = apply /\ script'.todo = listed' /\ script'.read = NoTable
  BY DEF NoScript
<1> QED BY <1>1 DEF ScriptKnows, Retiring

LEMMA ScanTyped ==
  ASSUME KeysTyped, NEW ring \in KeyRing, NEW job \in {"rotate", "rekey", "retire"},
         NEW apply \in BOOLEAN
  PROVE  [NoScript EXCEPT !.step = "scan", !.job = job, !.ring = ring, !.apply = apply,
                          !.todo = listed] \in Script
BY NoScriptTyped DEF KeysTyped, Script

-----------------------------------------------------------------------------
(* rotate *)

LEMMA RotatesKeeps == ASSUME KeysInv, Rotates PROVE KeysInv'
<1>1. newest' \in Keys
  BY KeyRotationConstants DEF Rotates, KeysInv, KeysTyped, Keys
<1>2. env["app"] \in KeyRing
  BY DEF KeysInv, KeysTyped, Tiers
<1>3. /\ script' \in Script /\ script'.step = "planned" /\ script'.job = "rotate"
      /\ script'.previous = Primary
  BY <1>2, NoScriptTyped DEF Rotates, Script, KeyRing, Primary
<1> QED BY <1>1, <1>3 DEF Rotates, KeysInv, KeysTyped, AppReads, TiersOpen, ScriptKnows, Retiring,
           Primary

LEMMA RewrittenTyped ==
  ASSUME KeysTyped, NEW tier \in Tiers
  PROVE  /\ Rewritten(tier) \in [Tiers -> KeyRing]
         /\ Rewritten(tier)[tier] =
              [key |-> newest, old |-> {script.previous} \cup env[tier].old]
         /\ \A other \in Tiers \ {tier} : Rewritten(tier)[other] = env[other]
<1>1. env[tier].old \in SUBSET Keys /\ script.previous \in Keys /\ newest \in Keys
  BY DEF KeysTyped, KeyRing, Script
<1>2. [key |-> newest, old |-> {script.previous} \cup env[tier].old] \in KeyRing
  BY <1>1 DEF KeyRing
<1> QED BY <1>2 DEF Rewritten, Demoted, RetiredValue, KeysTyped

LEMMA WritesAppKeeps == ASSUME KeysInv, WritesApp PROVE KeysInv'
<1> DEFINE ring == [key |-> newest, old |-> {script.previous} \cup env["app"].old]
<1>1. "app" \in Tiers /\ KeysTyped /\ script.previous = Primary
  BY DEF Tiers, KeysInv, WritesApp, ScriptKnows
<1>2. /\ env' \in [Tiers -> KeyRing] /\ env'["app"] = ring
      /\ \A other \in Tiers \ {"app"} : env'[other] = env[other]
  BY <1>1, RewrittenTyped DEF WritesApp
<1>3. Opens(env["app"]) \subseteq Opens(ring) /\ newest \in Opens(ring)
  BY <1>1 DEF Opens, Primary
<1>4. AppReads'
  BY <1>2, <1>3 DEF WritesApp, KeysInv, AppReads
<1>7. TiersOpen'
  <2> SUFFICES ASSUME NEW tier \in Tiers
               PROVE  loaded[tier].key \in Opens(ring) /\ env'[tier].key \in Opens(ring)
    BY <1>2 DEF WritesApp, TiersOpen
  <2>1. loaded[tier].key \in Opens(ring) /\ env[tier].key \in Opens(ring)
    BY <1>3 DEF KeysInv, TiersOpen
  <2>2. ring.key = newest
    OBVIOUS
  <2> QED BY <1>2, <1>3, <2>1, <2>2
<1>5. script' \in Script /\ script'.step = "half"
  BY <1>1, ScriptWith DEF WritesApp, KeysTyped, Script
<1>6. KeysTyped' /\ ScriptKnows' /\ Retiring'
  BY <1>1, <1>2, <1>5 DEF WritesApp, KeysTyped, ScriptKnows, Retiring, Primary
<1> QED BY <1>4, <1>7, <1>6 DEF KeysInv

LEMMA WritesConsoleKeeps == ASSUME KeysInv, WritesConsole PROVE KeysInv'
<1>1. "app" \in Tiers \ {"console"} /\ "console" \in Tiers /\ KeysTyped /\ Primary = newest
  BY DEF Tiers, KeysInv, WritesConsole, ScriptKnows
<1>2. /\ env' \in [Tiers -> KeyRing] /\ env'["console"].key = newest
      /\ \A other \in Tiers \ {"console"} : env'[other] = env[other]
  <2>1. env' = Rewritten("console")
    BY DEF WritesConsole
  <2>2. [key |-> newest, old |-> {script.previous} \cup env["console"].old].key = newest
    OBVIOUS
  <2> QED BY <1>1, <2>1, <2>2, RewrittenTyped
<1>3. AppReads' /\ TiersOpen'
  BY <1>1, <1>2 DEF WritesConsole, KeysInv, AppReads, TiersOpen, Opens, Primary
<1>4. script' = [NoScript EXCEPT !.step = "scan", !.job = "rotate", !.ring = env'["app"],
                                 !.apply = TRUE, !.todo = listed]
  BY <1>1, <1>2 DEF WritesConsole, Scans
<1>5. env'["app"] \in KeyRing
  BY <1>1, <1>2
<1>6. KeysTyped'
  BY <1>1, <1>2, <1>4, <1>5, ScanTyped DEF WritesConsole, KeysTyped
<1>7. ScriptKnows' /\ Retiring'
  BY <1>1, <1>4, <1>6, ScanStarts DEF WritesConsole
<1> QED BY <1>3, <1>6, <1>7 DEF KeysInv

-----------------------------------------------------------------------------
(* The scan, and retire_old *)

LEMMA ScansKeeps ==
  ASSUME KeysInv, NEW job \in {"rotate", "rekey", "retire"}, NEW apply \in BOOLEAN,
         Scans(job, apply), UNCHANGED <<env, loaded, stored, listed, newest>>,
         job = "retire" => Healthy /\ ~apply
  PROVE  KeysInv'
<1>1. KeysTyped /\ env["app"] \in KeyRing
  BY DEF KeysInv, KeysTyped, Tiers
<1>2. KeysTyped'
  BY <1>1, ScanTyped DEF Scans, KeysTyped
<1>3. ScriptKnows' /\ Retiring'
  BY <1>1, <1>2, ScanStarts DEF Scans, Healthy
<1>4. AppReads' /\ TiersOpen'
  BY DEF KeysInv, AppReads, TiersOpen
<1> QED BY <1>2, <1>3, <1>4 DEF KeysInv

LEMMA ReadsTableKeeps == ASSUME KeysInv, NEW t \in Tables, ReadsTable(t) PROVE KeysInv'
<1>1. KeysTyped /\ stored[t] \in Keys /\ t # NoTable
  BY KeyRotationConstants DEF KeysInv, KeysTyped, NoTable
<1>2. /\ script' \in Script /\ script'.step = "scan" /\ script'.job = script.job
      /\ script'.ring = script.ring /\ script'.apply = script.apply /\ script'.clean = script.clean
      /\ script'.todo = script.todo \ {t} /\ script'.read = t /\ script'.found = stored[t]
  BY <1>1 DEF ReadsTable, KeysTyped, Script
<1>3. KeysTyped' /\ AppReads' /\ TiersOpen' /\ ScriptKnows'
  BY <1>1, <1>2 DEF ReadsTable, KeysInv, KeysTyped, AppReads, TiersOpen, ScriptKnows
<1>4. Retiring'
  <2> SUFFICES ASSUME script.job = "retire" PROVE Retiring'
    BY <1>2 DEF Retiring
  <2>1. Healthy' /\ ~script'.apply /\ UNCHANGED <<env, stored, listed>> /\ Primary' = Primary
    BY <1>2 DEF ReadsTable, KeysInv, Retiring, Healthy, Primary
  <2>2. ASSUME script.clean
        PROVE  /\ \A u \in listed \ (script'.todo \cup {script'.read}) : stored[u] = Primary
               /\ script'.found = Primary => stored[script'.read] = Primary
    <3>1. script.read = NoTable /\ script.step = "scan" /\ NoTable \notin listed
      BY <1>1, KeyRotationConstants DEF ReadsTable, KeysTyped, NoTable
    <3> QED BY <1>2, <2>2, <3>1 DEF KeysInv, Retiring
  <2> QED BY <1>2, <2>1, <2>2 DEF Retiring
<1> QED BY <1>3, <1>4 DEF KeysInv

LEMMA TreatsTableKeeps == ASSUME KeysInv, TreatsTable PROVE KeysInv'
<1>1. KeysTyped /\ script.read \in Tables /\ script.ring = env["app"] /\ env["app"].key \in Keys
  BY DEF KeysInv, KeysTyped, TreatsTable, Script, ScriptKnows, Tiers, KeyRing
<1>2. Clean(script.ring, script.found) \in BOOLEAN
  <2>1. (script.found \in Opens(script.ring)) \in BOOLEAN /\ (script.found = script.ring.key) \in BOOLEAN
    OBVIOUS
  <2> QED BY <2>1 DEF Clean
<1>3. /\ script' \in Script /\ script'.step = "scan" /\ script'.job = script.job
      /\ script'.ring = script.ring /\ script'.apply = script.apply /\ script'.todo = script.todo
      /\ script'.read = NoTable /\ script'.clean = (script.clean /\ Clean(script.ring, script.found))
  BY <1>1, <1>2 DEF TreatsTable, KeysTyped, Script
<1>4. \A t \in Tables : stored'[t] = stored[t] \/ stored'[t] = Primary
  BY <1>1 DEF TreatsTable, KeysTyped, Primary
<1>5. stored' \in [Tables -> Keys]
  BY <1>1 DEF TreatsTable, KeysTyped
<1>6. KeysTyped' /\ AppReads' /\ TiersOpen' /\ ScriptKnows'
  BY <1>1, <1>3, <1>4, <1>5
     DEF TreatsTable, KeysInv, KeysTyped, AppReads, TiersOpen, ScriptKnows, Opens, Primary
<1>7. Retiring'
  <2> SUFFICES ASSUME script.job = "retire" PROVE Retiring'
    BY <1>3 DEF Retiring
  <2>1. Healthy /\ ~script.apply /\ stored' = stored
    BY DEF TreatsTable, KeysInv, Retiring
  <2>2. Healthy' /\ Primary' = Primary
    BY <2>1 DEF TreatsTable, Healthy, Primary
  <2>3. script'.clean => script.clean /\ script.found = Primary
    BY <1>1, <1>3, <2>1 DEF Clean, Primary
  <2> QED BY <1>3, <2>1, <2>2, <2>3 DEF TreatsTable, KeysInv, Retiring
<1> QED BY <1>6, <1>7 DEF KeysInv

LEMMA FinishesKeeps == ASSUME KeysInv, Finishes PROVE KeysInv'
<1>1. KeysTyped /\ script.job \in {"rotate", "retire"}
  BY DEF KeysInv, Finishes
<1>2. /\ script' \in Script /\ script'.job = script.job /\ script'.apply = script.apply
      /\ script'.step = IF script.job = "rotate" THEN "done" ELSE "drop"
  <2>1. script \in Script
    BY <1>1 DEF KeysTyped
  <2>2. CASE script' = [script EXCEPT !.step = "done"] /\ script.job = "rotate"
    BY ZenonT(60), <2>1, <2>2, ScriptWith
  <2>3. CASE script' = [script EXCEPT !.step = "drop"] /\ script.job = "retire"
    BY ZenonT(60), <2>1, <2>3, ScriptWith
  <2> QED BY <1>1, <2>2, <2>3 DEF Finishes
<1>3. KeysTyped' /\ AppReads' /\ TiersOpen' /\ ScriptKnows'
  BY <1>1, <1>2 DEF Finishes, KeysInv, KeysTyped, AppReads, TiersOpen, ScriptKnows
<1>4. ASSUME script.job = "retire" PROVE \A t \in Tables : stored[t] = Primary
  BY <1>4, KeyRotationConstants
     DEF Finishes, ScanOver, Succeeds, Covered, KeysInv, Retiring, NoTable
<1>5. Retiring'
  BY <1>2, <1>4 DEF Finishes, ScanOver, KeysInv, Retiring, Healthy, Primary
<1> QED BY <1>3, <1>5 DEF KeysInv

LEMMA DropsOldKeeps == ASSUME KeysInv, DropsOld PROVE KeysInv'
<1>1. KeysTyped /\ "app" \in Tiers /\ "console" \in Tiers
  BY DEF KeysInv, Tiers
<1>2. CASE script.step = "drop"
  <2>1. /\ env' = [env EXCEPT !["app"].old = {}] /\ script' = [script EXCEPT !.step = "dropped"]
        /\ Healthy /\ \A t \in Tables : stored[t] = Primary
    BY <1>2 DEF DropsOld, KeysInv, ScriptKnows, Retiring
  <2>2. /\ env' \in [Tiers -> KeyRing] /\ env'["app"].key = Primary
        /\ \A tier \in Tiers : env'[tier].key = env[tier].key
    BY <1>1, <2>1 DEF KeysTyped, KeyRing, Primary
  <2>3. script' \in Script /\ script'.step = "dropped"
    BY <1>1, <2>1, ScriptWith DEF KeysTyped
  <2>4. AppReads' /\ TiersOpen'
    BY <2>1, <2>2 DEF DropsOld, AppReads, TiersOpen, Opens, Healthy, Primary
  <2> QED BY <1>1, <2>2, <2>3, <2>4 DEF DropsOld, KeysInv, KeysTyped, ScriptKnows, Retiring
<1>3. CASE script.step = "dropped"
  <2>1. env' = [env EXCEPT !["console"].old = {}] /\ script' = NoScript
    BY <1>3 DEF DropsOld
  <2>2. /\ env' \in [Tiers -> KeyRing] /\ env'["app"] = env["app"]
        /\ \A tier \in Tiers : env'[tier].key = env[tier].key
    BY <1>1, <2>1 DEF KeysTyped, KeyRing
  <2> QED BY <1>1, <2>1, <2>2, NoScriptTyped
          DEF DropsOld, KeysInv, KeysTyped, AppReads, TiersOpen, ScriptKnows, Retiring
<1> QED BY <1>2, <1>3 DEF DropsOld

\* The script stops, by itself or not.
LEMMA StopsKeeps ==
  ASSUME KeysInv, script' = NoScript, UNCHANGED <<env, loaded, stored, listed, newest>>
  PROVE  KeysInv'
BY NoScriptTyped DEF KeysInv, KeysTyped, AppReads, TiersOpen, ScriptKnows, Retiring

-----------------------------------------------------------------------------
(* The tiers and the list *)

LEMMA LiveWritesKeeps ==
  ASSUME KeysInv, NEW tier \in Tiers, NEW t \in Tables, LiveWrites(tier, t) PROVE KeysInv'
<1>1. KeysTyped /\ loaded[tier].key \in Keys /\ loaded[tier].key \in Opens(env["app"])
  BY DEF KeysInv, KeysTyped, KeyRing, TiersOpen
<1>2. /\ script' \in Script
      /\ script' = [script EXCEPT !.missed = script'.missed]
  <2>1. PICK m \in SUBSET Tables : script' = [script EXCEPT !.missed = m]
    BY <1>1 DEF LiveWrites, KeysTyped, Script
  <2>2. script'.missed = m
    BY <1>1, <2>1 DEF KeysTyped, Script
  <2> QED BY <1>1, <2>1, <2>2, ScriptWith DEF KeysTyped
<1>3. /\ script'.step = script.step /\ script'.job = script.job /\ script'.previous = script.previous
      /\ script'.ring = script.ring /\ script'.apply = script.apply /\ script'.todo = script.todo
      /\ script'.read = script.read /\ script'.found = script.found /\ script'.clean = script.clean
  BY <1>1, <1>2 DEF KeysTyped, Script
<1>4. stored' \in [Tables -> Keys] /\ \A u \in Tables : stored'[u] = stored[u] \/ stored'[u] = loaded[tier].key
  BY <1>1 DEF LiveWrites, KeysTyped
<1>5. KeysTyped' /\ AppReads' /\ TiersOpen' /\ ScriptKnows'
  BY <1>1, <1>2, <1>3, <1>4
     DEF LiveWrites, KeysInv, KeysTyped, AppReads, TiersOpen, ScriptKnows, Primary
<1>6. Retiring'
  <2> SUFFICES ASSUME script.job = "retire" /\ script.step \in {"scan", "drop"} PROVE Retiring'
    BY <1>3 DEF Retiring
  <2>1. Healthy /\ ~script.apply /\ loaded[tier].key = Primary
    BY DEF KeysInv, Retiring, Healthy, Primary
  <2>2. Healthy' /\ Primary' = Primary
    BY <2>1 DEF LiveWrites, Healthy, Primary
  <2>3. \A u \in Tables : stored[u] = Primary => stored'[u] = Primary
    BY <1>4, <2>1
  <2>4. listed \subseteq Tables /\ listed' = listed /\ script.read \in Tables \cup {NoTable}
    BY <1>1 DEF LiveWrites, KeysTyped, Script
  <2> QED BY <1>3, <2>1, <2>2, <2>3, <2>4 DEF KeysInv, Retiring
<1> QED BY <1>5, <1>6 DEF KeysInv

LEMMA TierRestartsKeeps ==
  ASSUME KeysInv, NEW tier \in Tiers, TierRestarts(tier) PROVE KeysInv'
<1>1. KeysTyped
  BY DEF KeysInv
<1>2. /\ loaded' \in [Tiers -> KeyRing]
      /\ \A other \in Tiers : loaded'[other] = loaded[other] \/ loaded'[other] = env[other]
  BY <1>1 DEF TierRestarts, KeysTyped
<1>3. Healthy => Healthy'
  BY <1>2 DEF TierRestarts, Healthy
<1>4. KeysTyped' /\ AppReads' /\ TiersOpen' /\ ScriptKnows'
  BY <1>1, <1>2 DEF TierRestarts, KeysInv, KeysTyped, AppReads, TiersOpen, ScriptKnows, Primary
<1>5. Retiring'
  BY <1>3 DEF TierRestarts, KeysInv, Retiring, Primary
<1> QED BY <1>4, <1>5 DEF KeysInv

LEMMA ListsTableKeeps == ASSUME KeysInv, NEW t \in Tables, ListsTable(t) PROVE KeysInv'
BY DEF ListsTable, KeysInv, KeysTyped, AppReads, TiersOpen, ScriptKnows, Retiring, Primary

\* AppReads for any number of tables, keys and deaths of the script, when the
\* operator restarts the stack before he retires: at every moment the app that
\* starts opens every stored value.
THEOREM RotationLosesNothing == ASSUME Careful PROVE KeyRotationSpec => []AppReads
<1>1. KeysInv /\ [KeyRotationNext]_rotationVars => KeysInv'
  <2>1. ASSUME KeysInv, Rekeys \/ Retires \/ TiersChecked PROVE KeysInv'
    <3>1. CASE Rekeys
      BY <2>1, <3>1, ScansKeeps DEF Rekeys
    <3>2. CASE Retires
      BY <2>1, <3>2, ScansKeeps DEF Retires
    <3>3. CASE TiersChecked
      BY <2>1, <3>3, ScansKeeps DEF TiersChecked
    <3> QED BY <2>1, <3>1, <3>2, <3>3
  <2>2. ASSUME KeysInv, ScriptGoesOn PROVE KeysInv'
    <3>1. CASE GivesUp
      BY <2>2, <3>1, StopsKeeps DEF GivesUp
    <3> QED BY <2>1, <2>2, <3>1, WritesAppKeeps, WritesConsoleKeeps, TreatsTableKeeps, FinishesKeeps,
               DropsOldKeeps, ReadsTableKeeps DEF ScriptGoesOn
  <2>3. ASSUME KeysInv, ScriptDies PROVE KeysInv'
    BY <2>3, StopsKeeps DEF ScriptDies
  <2>4. ASSUME KeysInv, KeyRotationNext PROVE KeysInv'
    BY <2>1, <2>2, <2>3, <2>4, RotatesKeeps, LiveWritesKeeps, TierRestartsKeeps, ListsTableKeeps
       DEF KeyRotationNext
  <2>5. KeysInv /\ UNCHANGED rotationVars => KeysInv'
    BY DEF rotationVars, KeysInv, KeysTyped, AppReads, TiersOpen, ScriptKnows, Retiring, Healthy,
           Primary
  <2> QED BY <2>4, <2>5
<1>2. KeysInv => AppReads
  BY DEF KeysInv
<1> QED BY KeysInitially, <1>1, <1>2, PTL DEF KeyRotationSpec
-----------------------------------------------------------------------------
(* What a rotation reports *)

\* What the rotation has reached at each of its steps, and what its second scan
\* has seen of the tables that it came by and nobody wrote since.
Reached ==
  /\ script.step = "half" => Primary = newest
  /\ script.step = "scan" => script.ring = env["app"]
  /\ script.step = "done" => script.job = "rotate"
  /\ script.job = "rotate" /\ script.step \in {"scan", "done"} =>
       \A tier \in Tiers : env[tier].key = newest
Verified ==
  script.job = "rotate" /\ script.step = "scan" /\ ~script.apply /\ script.clean =>
    /\ \A t \in listed \ (script.todo \cup {script.read} \cup script.missed) : stored[t] = newest
    /\ script.read # NoTable /\ script.read \notin script.missed => script.found = stored[script.read]
ReportInv == KeysTyped /\ Reached /\ Verified /\ DoneIsDone

LEMMA ReportInitially == KeyRotationInit => ReportInv
<1> SUFFICES ASSUME KeyRotationInit PROVE ReportInv
  OBVIOUS
<1>1. KeysTyped
  BY KeysInitially DEF KeysInv
<1> QED BY <1>1, NoScriptTyped DEF KeyRotationInit, ReportInv, Reached, Verified, DoneIsDone

LEMMA RotatesReports == ASSUME ReportInv, Rotates PROVE ReportInv'
<1>1. newest' \in Keys /\ env["app"] \in KeyRing
  BY KeyRotationConstants DEF Rotates, ReportInv, KeysTyped, Keys, Tiers
<1>2. script' \in Script /\ script'.step = "planned"
  BY <1>1, NoScriptTyped DEF Rotates, Script, KeyRing
<1> QED BY <1>1, <1>2 DEF Rotates, ReportInv, KeysTyped, Reached, Verified, DoneIsDone

LEMMA WritesAppReports == ASSUME ReportInv, WritesApp PROVE ReportInv'
<1>1. "app" \in Tiers /\ KeysTyped
  BY DEF Tiers, ReportInv
<1>2. env' \in [Tiers -> KeyRing] /\ env'["app"].key = newest
  <2>1. [key |-> newest, old |-> {script.previous} \cup env["app"].old].key = newest
    OBVIOUS
  <2> QED BY <1>1, <2>1, RewrittenTyped DEF WritesApp
<1>3. script' \in Script /\ script'.step = "half"
  BY <1>1, ScriptWith DEF WritesApp, KeysTyped
<1> QED BY <1>1, <1>2, <1>3 DEF WritesApp, KeysTyped, ReportInv, Reached, Verified, DoneIsDone, Primary

\* A scan that starts has come by no table.
LEMMA ScanReports ==
  ASSUME KeysTyped, KeysTyped', NEW job \in {"rotate", "rekey", "retire"}, NEW apply \in BOOLEAN,
         script' = [NoScript EXCEPT !.step = "scan", !.job = job, !.ring = env'["app"],
                                    !.apply = apply, !.todo = listed],
         UNCHANGED <<stored, listed>>,
         job = "rotate" => \A tier \in Tiers : env'[tier].key = newest'
  PROVE  ReportInv'
<1>1. /\ script'.step = "scan" /\ script'.job = job /\ script'.ring = env'["app"]
      /\ script'.apply = apply /\ script'.todo = listed' /\ script'.read = NoTable
  BY DEF NoScript
<1> QED BY <1>1 DEF ReportInv, Reached, Verified, DoneIsDone

LEMMA WritesConsoleReports == ASSUME ReportInv, WritesConsole PROVE ReportInv'
<1>1. "app" \in Tiers /\ "console" \in Tiers /\ KeysTyped /\ env["app"].key = newest
  BY DEF Tiers, ReportInv, WritesConsole, Reached, Primary
<1>2. /\ env' \in [Tiers -> KeyRing] /\ env'["app"] = env["app"]
      /\ \A tier \in Tiers : env'[tier].key = newest
  <2>1. env' = Rewritten("console")
    BY DEF WritesConsole
  <2>2. [key |-> newest, old |-> {script.previous} \cup env["console"].old].key = newest
    OBVIOUS
  <2>3. Tiers = {"app", "console"}
    BY DEF Tiers
  <2> QED BY <1>1, <2>1, <2>2, <2>3, RewrittenTyped
<1>3. script' = [NoScript EXCEPT !.step = "scan", !.job = "rotate", !.ring = env'["app"],
                                 !.apply = TRUE, !.todo = listed]
  BY <1>2 DEF WritesConsole, Scans
<1>4. KeysTyped'
  BY <1>1, <1>2, <1>3, ScanTyped DEF WritesConsole, KeysTyped
<1> QED BY <1>1, <1>2, <1>3, <1>4, ScanReports DEF WritesConsole

LEMMA ScansReport ==
  ASSUME ReportInv, Rekeys \/ Retires \/ TiersChecked PROVE ReportInv'
<1>1. PICK job \in {"rotate", "rekey", "retire"}, apply \in BOOLEAN :
        /\ Scans(job, apply)
        /\ job = "rotate" => script.job = "rotate" /\ script.step = "scan"
  <2>1. CASE Rekeys
    BY <2>1 DEF Rekeys
  <2>2. CASE Retires
    BY <2>2 DEF Retires
  <2>3. CASE TiersChecked
    BY <2>3 DEF TiersChecked, ScanOver
  <2> QED BY <2>1, <2>2, <2>3
<1>2. UNCHANGED <<env, loaded, stored, listed, newest>>
  BY DEF Rekeys, Retires, TiersChecked
<1>3. KeysTyped /\ env["app"] \in KeyRing
  BY DEF ReportInv, KeysTyped, Tiers
<1>4. KeysTyped'
  BY <1>1, <1>2, <1>3, ScanTyped DEF Scans, KeysTyped
<1> QED BY <1>1, <1>2, <1>3, <1>4, ScanReports DEF Scans, ReportInv, Reached

LEMMA ReadsTableReports == ASSUME ReportInv, NEW t \in Tables, ReadsTable(t) PROVE ReportInv'
<1>1. KeysTyped /\ stored[t] \in Keys /\ t # NoTable /\ script.read = NoTable /\ NoTable \notin listed
  BY KeyRotationConstants DEF ReportInv, KeysTyped, NoTable, ReadsTable
<1>2. /\ script' \in Script /\ script'.step = "scan" /\ script'.job = script.job
      /\ script'.ring = script.ring /\ script'.apply = script.apply /\ script'.clean = script.clean
      /\ script'.todo = script.todo \ {t} /\ script'.read = t /\ script'.found = stored[t]
      /\ script'.missed = script.missed \ {t}
  BY <1>1 DEF ReadsTable, KeysTyped, Script
<1>3. KeysTyped' /\ Reached' /\ DoneIsDone'
  BY <1>1, <1>2 DEF ReadsTable, ReportInv, KeysTyped, Reached, DoneIsDone
<1>4. Verified'
  BY <1>1, <1>2 DEF ReadsTable, ReportInv, Verified
<1> QED BY <1>3, <1>4 DEF ReportInv

LEMMA TreatsTableReports == ASSUME ReportInv, TreatsTable PROVE ReportInv'
<1>1. KeysTyped /\ script.read \in Tables /\ script.ring = env["app"] /\ env["app"].key \in Keys
  BY DEF ReportInv, KeysTyped, TreatsTable, Script, Reached, Tiers, KeyRing
<1>2. Clean(script.ring, script.found) \in BOOLEAN
  <2>1. (script.found \in Opens(script.ring)) \in BOOLEAN /\ (script.found = script.ring.key) \in BOOLEAN
    OBVIOUS
  <2> QED BY <2>1 DEF Clean
<1>3. /\ script' \in Script /\ script'.step = "scan" /\ script'.job = script.job
      /\ script'.ring = script.ring /\ script'.apply = script.apply /\ script'.todo = script.todo
      /\ script'.missed = script.missed
      /\ script'.read = NoTable /\ script'.clean = (script.clean /\ Clean(script.ring, script.found))
  BY <1>1, <1>2 DEF TreatsTable, KeysTyped, Script
<1>4. stored' \in [Tables -> Keys]
  BY <1>1 DEF TreatsTable, KeysTyped
<1>5. KeysTyped' /\ Reached' /\ DoneIsDone'
  BY <1>1, <1>3, <1>4 DEF TreatsTable, ReportInv, KeysTyped, Reached, DoneIsDone
<1>6. Verified'
  <2> SUFFICES ASSUME script.job = "rotate", ~script.apply, script'.clean
               PROVE  \A t \in listed \ (script.todo \cup {NoTable} \cup script.missed) : stored[t] = newest
    BY <1>3 DEF TreatsTable, Verified
  <2>1. script.step = "scan" /\ script.clean /\ script.found = script.ring.key
    BY <1>3 DEF Clean, TreatsTable
  <2>2. script.found = newest
    BY <1>1, <2>1 DEF ReportInv, Reached, Tiers
  <2> QED BY <1>1, <2>1, <2>2 DEF TreatsTable, ReportInv, Verified
<1> QED BY <1>5, <1>6 DEF ReportInv

LEMMA FinishesReports == ASSUME ReportInv, Finishes PROVE ReportInv'
<1>1. KeysTyped /\ script \in Script /\ script.missed \in SUBSET Tables
  BY DEF ReportInv, KeysTyped, Script
<1>2. CASE script.job = "rotate"
  <2>1. /\ script' \in Script /\ script'.step = "done" /\ script'.job = "rotate"
        /\ script'.missed = script.missed
    BY <1>1, <1>2, ScriptWith DEF Finishes, Script
  <2>2. \A t \in Tables \ script.missed : stored[t] = newest
    BY <1>2, KeyRotationConstants
       DEF Finishes, ScanOver, Succeeds, Covered, ReportInv, Verified, NoTable
  <2> QED BY <1>1, <1>2, <2>1, <2>2
          DEF Finishes, ScanOver, ReportInv, KeysTyped, Reached, Verified, DoneIsDone
<1>3. CASE script.job = "retire"
  <2>1. script' \in Script /\ script'.step = "drop"
    BY ZenonT(60), <1>1, <1>3, ScriptWith DEF Finishes
  <2> QED BY <1>1, <2>1 DEF Finishes, ReportInv, KeysTyped, Reached, Verified, DoneIsDone
<1> QED BY <1>2, <1>3 DEF Finishes

LEMMA DropsOldReports == ASSUME ReportInv, DropsOld PROVE ReportInv'
<1>1. KeysTyped /\ "app" \in Tiers /\ "console" \in Tiers
  BY DEF ReportInv, Tiers
<1>2. CASE script.step = "drop"
  <2>1. env' = [env EXCEPT !["app"].old = {}] /\ script' = [script EXCEPT !.step = "dropped"]
    BY <1>2 DEF DropsOld
  <2>2. env' \in [Tiers -> KeyRing]
    BY <1>1, <2>1 DEF KeysTyped, KeyRing
  <2>3. script' \in Script /\ script'.step = "dropped"
    BY <1>1, <2>1, ScriptWith DEF KeysTyped
  <2> QED BY <1>1, <2>2, <2>3 DEF DropsOld, ReportInv, KeysTyped, Reached, Verified, DoneIsDone
<1>3. CASE script.step = "dropped"
  <2>1. env' = [env EXCEPT !["console"].old = {}] /\ script' = NoScript
    BY <1>3 DEF DropsOld
  <2>2. env' \in [Tiers -> KeyRing]
    BY <1>1, <2>1 DEF KeysTyped, KeyRing
  <2> QED BY <1>1, <2>1, <2>2, NoScriptTyped
          DEF DropsOld, ReportInv, KeysTyped, Reached, Verified, DoneIsDone
<1> QED BY <1>2, <1>3 DEF DropsOld

LEMMA LiveWritesReports ==
  ASSUME ReportInv, NEW tier \in Tiers, NEW t \in Tables, LiveWrites(tier, t) PROVE ReportInv'
<1>1. KeysTyped /\ loaded[tier].key \in Keys
  BY DEF ReportInv, KeysTyped, KeyRing
<1>2. PICK m \in SUBSET Tables :
        /\ script' = [script EXCEPT !.missed = m]
        /\ script.step # "idle" => m = script.missed \cup {t}
  BY <1>1 DEF LiveWrites, KeysTyped, Script
<1>3. /\ script' \in Script /\ script'.missed = m
      /\ script'.step = script.step /\ script'.job = script.job
      /\ script'.ring = script.ring /\ script'.apply = script.apply /\ script'.todo = script.todo
      /\ script'.read = script.read /\ script'.found = script.found /\ script'.clean = script.clean
  BY <1>1, <1>2 DEF KeysTyped, Script
<1>4. stored' \in [Tables -> Keys] /\ \A u \in Tables \ {t} : stored'[u] = stored[u]
  BY <1>1 DEF LiveWrites, KeysTyped
<1>5. KeysTyped' /\ Reached'
  BY <1>1, <1>3, <1>4 DEF LiveWrites, ReportInv, KeysTyped, Reached, Primary
<1>6. Verified' /\ DoneIsDone'
  <2>1. listed \subseteq Tables /\ listed' = listed /\ newest' = newest /\ env' = env
        /\ script.read \in Tables \cup {NoTable}
    BY <1>1 DEF LiveWrites, KeysTyped, Script
  <2> QED BY <1>2, <1>3, <1>4, <2>1 DEF ReportInv, Verified, DoneIsDone
<1> QED BY <1>5, <1>6 DEF ReportInv

LEMMA OthersReport ==
  ASSUME ReportInv,
         \/ GivesUp \/ ScriptDies \/ UNCHANGED rotationVars
         \/ \E tier \in Tiers : TierRestarts(tier)
         \/ \E t \in Tables : ListsTable(t)
  PROVE  ReportInv'
<1>1. CASE GivesUp \/ ScriptDies
  BY <1>1, NoScriptTyped
     DEF GivesUp, ScriptDies, ReportInv, KeysTyped, Reached, Verified, DoneIsDone
<1>2. CASE UNCHANGED rotationVars
  BY <1>2 DEF rotationVars, ReportInv, KeysTyped, Reached, Verified, DoneIsDone, Primary
<1>3. ASSUME NEW tier \in Tiers, TierRestarts(tier) PROVE ReportInv'
  <2>1. loaded' \in [Tiers -> KeyRing]
    BY <1>3 DEF TierRestarts, ReportInv, KeysTyped
  <2> QED BY <1>3, <2>1 DEF TierRestarts, ReportInv, KeysTyped, Reached, Verified, DoneIsDone, Primary
<1>4. ASSUME NEW t \in Tables, ListsTable(t) PROVE ReportInv'
  BY <1>4 DEF ListsTable, ReportInv, KeysTyped, Reached, Verified, DoneIsDone, Primary
<1> QED BY <1>1, <1>2, <1>3, <1>4

LEMMA ReportInvariant == ReportInv /\ [KeyRotationNext]_rotationVars => ReportInv'
<1>1. ASSUME ReportInv, ScriptGoesOn PROVE ReportInv'
  BY <1>1, WritesAppReports, WritesConsoleReports, ScansReport, TreatsTableReports, FinishesReports,
     DropsOldReports, ReadsTableReports, OthersReport DEF ScriptGoesOn
<1> QED BY <1>1, RotatesReports, ScansReport, LiveWritesReports, OthersReport DEF KeyRotationNext

\* DoneIsDone for any number of tables, keys and deaths, and any operator: a
\* rotation that reports success has both files on the new key, and every value
\* that was not written since the verification read it.
THEOREM ReportIsTrue == KeyRotationSpec => []DoneIsDone
<1>1. ReportInv => DoneIsDone
  BY DEF ReportInv
<1> QED BY ReportInitially, ReportInvariant, <1>1, PTL DEF KeyRotationSpec

-----------------------------------------------------------------------------
(* The lists of retired keys *)

Short(old) == Cardinality(old) <= MaxRetired
\* What a rotation has still to write was measured before it began.
ListsShort ==
  /\ died \in 0..MaxScriptDeaths /\ \A tier \in Tiers : Short(env[tier].old)
  /\ script.step = "planned" => \A tier \in Tiers : Short(Demoted(tier, script.previous))
  /\ script.step = "half" => Short(Demoted("console", script.previous))

LEMMA KeysFinite == IsFiniteSet(Keys)
<1>1. 0 \in Int /\ MaxKeys \in Int
  BY KeyRotationConstants
<1> QED BY <1>1, FS_Interval DEF Keys

LEMMA ListsInitially == KeyRotationInit => ListsShort
<1> SUFFICES ASSUME KeyRotationInit PROVE ListsShort
  OBVIOUS
<1>1. \A tier \in Tiers : env[tier].old = {}
  BY DEF KeyRotationInit, FirstRing
<1>2. Cardinality({}) = 0
  BY FS_EmptySet
<1>3. Short({}) /\ died \in 0..MaxScriptDeaths
  BY <1>2, KeyRotationConstants DEF KeyRotationInit, Short
<1>4. script.step = "idle"
  BY NoScriptTyped DEF KeyRotationInit
<1> QED BY <1>1, <1>3, <1>4 DEF ListsShort

\* A step that leaves the files alone and begins no rotation.
LEMMA ListsStay ==
  ASSUME ListsShort, env' = env, died' \in 0..MaxScriptDeaths,
         script'.step \in {"planned", "half"} =>
           script'.step = script.step /\ script'.previous = script.previous
  PROVE  ListsShort'
BY DEF ListsShort, Short, Demoted, RetiredValue

LEMMA ListsKept == KeysTyped /\ ListsShort /\ [KeyRotationNext]_rotationVars => ListsShort'
<1> SUFFICES ASSUME KeysTyped, ListsShort, [KeyRotationNext]_rotationVars PROVE ListsShort'
  OBVIOUS
<1>1. /\ script \in Script /\ died \in 0..MaxScriptDeaths /\ "app" \in Tiers /\ "console" \in Tiers
      /\ env \in [Tiers -> KeyRing] /\ Cardinality({}) = 0 /\ MaxRetired \in Nat /\ MaxScriptDeaths \in Nat
  BY FS_EmptySet, KeyRotationConstants DEF KeysTyped, ListsShort, Tiers
<1>2. CASE UNCHANGED rotationVars
  BY <1>1, <1>2, ListsStay DEF rotationVars
<1>3. CASE Rotates
  <2>1. script'.step = "planned" /\ script'.previous = env["app"].key
    BY <1>3 DEF Rotates, NoScript
  <2>2. \A tier \in Tiers : Short(Demoted(tier, env["app"].key))
    <3>1. \A tier \in Tiers : ~(Cardinality(Demoted(tier, env["app"].key)) > MaxRetired)
      BY <1>3 DEF Rotates, Refuses
    <3>2. \A tier \in Tiers : Cardinality(Demoted(tier, env["app"].key)) \in Nat
      <4> SUFFICES ASSUME NEW tier \in Tiers PROVE Cardinality(Demoted(tier, env["app"].key)) \in Nat
        OBVIOUS
      <4>1. Demoted(tier, env["app"].key) \in SUBSET Keys
        BY <1>1 DEF Demoted, RetiredValue, KeyRing
      <4> QED BY <4>1, KeysFinite, FS_Subset, FS_CardinalityType
    <3> QED BY <1>1, <3>1, <3>2 DEF Short
  <2> QED BY <1>3, <2>1, <2>2 DEF Rotates, ListsShort, Short, Demoted
<1>4. ASSUME NEW tier \in Tiers, env' = Rewritten(tier), Short(Demoted(tier, script.previous))
      PROVE  \A other \in Tiers : Short(env'[other].old)
  <2>1. env'[tier].old = Demoted(tier, script.previous)
    BY <1>1, <1>4 DEF Rewritten
  <2>2. \A other \in Tiers \ {tier} : env'[other] = env[other]
    BY <1>1, <1>4 DEF Rewritten
  <2> QED BY <1>4, <2>1, <2>2 DEF ListsShort
<1>5. CASE WritesApp
  <2>1. \A other \in Tiers : Short(env'[other].old)
    BY <1>1, <1>4, <1>5 DEF WritesApp, ListsShort
  <2>2. script'.step = "half" /\ script'.previous = script.previous /\ env'["console"] = env["console"]
    BY <1>1, <1>5 DEF WritesApp, Rewritten, Script
  <2> QED BY <1>1, <1>5, <2>1, <2>2 DEF WritesApp, ListsShort, Demoted
<1>6. CASE WritesConsole
  <2>1. \A other \in Tiers : Short(env'[other].old)
    BY <1>1, <1>4, <1>6 DEF WritesConsole, ListsShort
  <2>2. script'.step = "scan"
    BY <1>6 DEF WritesConsole, Scans, NoScript
  <2> QED BY <1>6, <2>1, <2>2 DEF WritesConsole, ListsShort
<1>7. CASE DropsOld
  <2>1. PICK tier \in Tiers : env' = [env EXCEPT ![tier].old = {}]
    BY <1>1, <1>7 DEF DropsOld
  <2>2. \A other \in Tiers : env'[other].old = env[other].old \/ env'[other].old = {}
    BY <1>1, <2>1 DEF KeyRing
  <2>3. \A other \in Tiers : Short(env'[other].old)
    <3>1. Short({})
      BY <1>1 DEF Short
    <3>2. \A other \in Tiers : Short(env[other].old)
      BY DEF ListsShort
    <3> QED BY <2>2, <3>1, <3>2
  <2>4. script'.step \in {"dropped", "idle"}
    <3>1. script' = NoScript \/ script' = [script EXCEPT !.step = "dropped"]
      BY <1>7 DEF DropsOld
    <3>2. [script EXCEPT !.step = "dropped"].step = "dropped"
      BY <1>1, ScriptWith
    <3> QED BY <3>1, <3>2, NoScriptTyped
  <2> QED BY <1>7, <2>3, <2>4 DEF DropsOld, ListsShort
<1>8. CASE Rekeys \/ Retires \/ TiersChecked
  <2>1. script'.step = "scan" /\ env' = env /\ died' = died
    BY <1>8 DEF Rekeys, Retires, TiersChecked, Scans, NoScript
  <2> QED BY <1>1, <2>1, ListsStay
<1>9. CASE TreatsTable \/ Finishes \/ (\E t \in Tables : ReadsTable(t))
  <2>1. script'.step \in {"scan", "done", "drop"} /\ env' = env /\ died' = died
    BY <1>1, <1>9 DEF TreatsTable, Finishes, ReadsTable, Script
  <2> QED BY <1>1, <2>1, ListsStay
<1>10. CASE GivesUp \/ ScriptDies
  <2>1. script'.step = "idle" /\ env' = env
    BY <1>10, NoScriptTyped DEF GivesUp, ScriptDies
  <2>2. died' \in 0..MaxScriptDeaths
    BY <1>1, <1>10 DEF GivesUp, ScriptDies
  <2> QED BY <2>1, <2>2, ListsStay
<1>11. CASE \E tier \in Tiers, t \in Tables : LiveWrites(tier, t)
  <2>1. script'.step = script.step /\ script'.previous = script.previous /\ env' = env /\ died' = died
    BY <1>1, <1>11 DEF LiveWrites, Script
  <2> QED BY <1>1, <2>1, ListsStay
<1>12. CASE (\E tier \in Tiers : TierRestarts(tier)) \/ (\E t \in Tables : ListsTable(t))
  <2>1. UNCHANGED <<script, env, died>>
    BY <1>12 DEF TierRestarts, ListsTable
  <2> QED BY <1>1, <2>1, ListsStay
<1> QED BY <1>2, <1>3, <1>5, <1>6, <1>7, <1>8, <1>9, <1>10, <1>11, <1>12
        DEF KeyRotationNext, ScriptGoesOn

\* Types of the rotation: whatever dies, no file lists more retired keys than the
\* script allows.
THEOREM RetiredListsFit == KeyRotationSpec => []KeyRotationTypeOK
<1>1. ReportInv /\ ListsShort => KeyRotationTypeOK
  BY DEF ReportInv, KeysTyped, ListsShort, Short, KeyRotationTypeOK
<1>2. ReportInv => KeysTyped
  BY DEF ReportInv
<1> QED BY ReportInitially, ReportInvariant, ListsInitially, ListsKept, <1>1, <1>2, PTL
        DEF KeyRotationSpec

-----------------------------------------------------------------------------
(* The five side by side *)

\* A behaviour of the instances side by side is one of each model, so that what
\* is proved of a model holds in the run that checks it.
THEOREM AccountsParts ==
  AccountsSpec => SignupSpec /\ SessionsSpec /\ TrialsSpec /\ KeyRotationSpec /\ EdgeGateSpec
<1>1. AccountsInit => SignupInit /\ SessionsInit /\ TrialsInit /\ KeyRotationInit /\ EdgeGateInit
  BY DEF AccountsInit
<1>2. [AccountsNext]_accountsVars =>
        /\ [SignupNext]_signupVars /\ [SessionsNext]_sessionVars /\ [TrialsNext]_trialVars
        /\ [KeyRotationNext]_rotationVars /\ [EdgeGateNext]_gateVars
  BY DEF AccountsNext, accountsVars
<1> QED BY <1>1, <1>2, PTL DEF AccountsSpec, SignupSpec, SessionsSpec, TrialsSpec, KeyRotationSpec,
        EdgeGateSpec

\* The variables of all five keep their types.
THEOREM AccountsTyped == AccountsSpec => []AccountsTypeOK
<1>1. SignupTypeOK /\ SessionsTypeOK /\ TrialsTypeOK /\ KeyRotationTypeOK /\ EdgeGateTypeOK =>
        AccountsTypeOK
  BY DEF AccountsTypeOK
<1> QED BY <1>1, AccountsParts, SignupKeepsTypes, SessionsTyped, TrialsTyped, RetiredListsFit,
        TableCapped, PTL
=============================================================================
