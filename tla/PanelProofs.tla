---------------------------- MODULE PanelProofs ----------------------------
(***************************************************************************)
(* Theorems about the panel: what one undisturbed request to a server      *)
(* brings about (PanelPower), that a node carries a write out once and no  *)
(* request fails unasked (NodeClient), and that what is proved of these    *)
(* and of the fleet holds where MCPanel puts them side by side.            *)
(***************************************************************************)
EXTENDS MCPanel, FleetProofs, FunctionTheorems

-----------------------------------------------------------------------------
(* PanelPower *)

PowerTyped ==
  /\ running \in BOOLEAN /\ desired \in BOOLEAN /\ made \in Made /\ shown \in Made
  /\ written \in [state : BOOLEAN, image : Choices, startup : Choices]
  /\ serve \in [Calls -> Serve] /\ settled \in Powers \cup Changes \cup {"none"}

\* What is done of a request that met no other request and no fault so far.
Done(c) ==
  LET s == serve[c] IN
  /\ s.ask \in Powers =>
       /\ s.step \in {"wanted", "calling", "acted", "recorded"}
       /\ s.step \in {"acted", "recorded"} => running = Recorded(s.ask)
       /\ s.step = "recorded" => desired = running
  /\ s.ask \in {"image", "startup"} =>
       /\ s.step \in {"wanted", "acted", "recorded"}
       /\ s.step \in {"acted", "recorded"} => made[s.ask] = s.choice
       /\ s.step = "recorded" => shown[s.ask] = s.choice
  /\ s.ask = "rebuild" =>
       /\ s.step \in {"wanted", "looked", "imaged", "started"}
       /\ s.step \in {"imaged", "started"} => made.image = s.choice
       /\ s.step = "started" => made.startup = s.choice

\* A request that met no other has the server for itself, and when something is
\* settled nobody is busy.
Undisturbed ==
  /\ \A c \in Calls : Busy(c) /\ serve[c].quiet =>
       Done(c) /\ \A d \in Calls \ {c} : ~Busy(d)
  /\ settled # "none" => \A c \in Calls : ~Busy(c)
PowerInv == PowerTyped /\ Undisturbed /\ PowerSettles

LEMMA PowerInitially == PanelPowerInit => PowerInv
<1> SUFFICES ASSUME PanelPowerInit PROVE PowerInv
  OBVIOUS
<1>1. NotServed \in Serve /\ NotServed.step = "idle"
  BY DEF NotServed, Serve, ServeSteps, Powers, Changes, Choices
<1>2. PowerTyped
  BY <1>1 DEF PanelPowerInit, PowerTyped, Made, Choices, Powers
<1>3. Undisturbed
  BY <1>1 DEF PanelPowerInit, Undisturbed, Busy
<1>4. PowerSettles
  BY DEF PanelPowerInit, PowerSettles, Powers, Changes, Recorded
<1> QED BY <1>2, <1>3, <1>4 DEF PowerInv

\* A request that goes on by itself, and the types of what it changes.
GoesOn(c) ==
  /\ serve' \in [Calls -> Serve] /\ \A d \in Calls \ {c} : serve'[d] = serve[d]
  /\ serve'[c].step # "idle" /\ (serve'[c].quiet => serve[c].quiet)
Kept ==
  /\ running' \in BOOLEAN /\ desired' \in BOOLEAN /\ made' \in Made /\ shown' \in Made
  /\ written' \in [state : BOOLEAN, image : Choices, startup : Choices]

LEMMA StepOn ==
  ASSUME PowerTyped, NEW c \in Calls, NEW step \in ServeSteps, step # "idle", ServeOn(c, step)
  PROVE  GoesOn(c) /\ serve'[c] = [serve[c] EXCEPT !.step = step]
<1>1. serve[c] \in Serve /\ serve \in [Calls -> Serve]
  BY DEF PowerTyped
<1>2. [serve[c] EXCEPT !.step = step] \in Serve
  BY <1>1 DEF Serve
<1>3. serve' = [serve EXCEPT ![c] = [serve[c] EXCEPT !.step = step]]
  BY DEF ServeOn
<1> QED BY <1>1, <1>2, <1>3 DEF GoesOn, Serve

LEMMA FaultOn ==
  ASSUME PowerTyped, NEW c \in Calls, NEW step \in ServeSteps, step # "idle", ServeFaults(c, step)
  PROVE  GoesOn(c) /\ ~serve'[c].quiet
<1> DEFINE r == [serve[c] EXCEPT !.step = step, !.quiet = FALSE]
<1>1. serve[c] \in Serve /\ serve \in [Calls -> Serve]
  BY DEF PowerTyped
<1>2. r \in Serve /\ r.step = step /\ r.quiet = FALSE
  BY <1>1 DEF Serve
<1>3. serve' = [serve EXCEPT ![c] = r]
  BY DEF ServeFaults
<1> QED BY <1>1, <1>2, <1>3 DEF GoesOn

\* While a request is busy nothing is settled, so it keeps the invariant if it
\* keeps Done.
LEMMA GoingOn ==
  ASSUME PowerInv, NEW c \in Calls, Busy(c), GoesOn(c), Kept, UNCHANGED settled,
         serve'[c].quiet => Done(c)'
  PROVE  PowerInv'
<1>1. settled' = "none"
  BY DEF PowerInv, Undisturbed
<1>2. PowerTyped'
  BY DEF PowerInv, PowerTyped, GoesOn, Kept
<1>3. PowerSettles'
  BY <1>1 DEF PowerSettles, Powers
<1>4. ASSUME NEW d \in Calls, Busy(d)', serve'[d].quiet
      PROVE  Done(d)' /\ \A e \in Calls \ {d} : ~Busy(e)'
  <2>1. d = c
    BY <1>4 DEF GoesOn, Busy, PowerInv, Undisturbed
  <2>2. \A e \in Calls \ {c} : ~Busy(e)
    BY <1>4, <2>1 DEF GoesOn, PowerInv, Undisturbed
  <2> QED BY <1>4, <2>1, <2>2 DEF GoesOn, Busy
<1> QED BY <1>1, <1>2, <1>3, <1>4 DEF PowerInv, Undisturbed

\* A request that ends leaves the others busy or not, and none of them quiet.
LEMMA Ending ==
  ASSUME PowerInv, NEW c \in Calls, Busy(c), Kept,
         serve' = [serve EXCEPT ![c] = NotServed],
         \/ settled' = "none"
         \/ settled' = serve[c].ask /\ \A d \in Calls \ {c} : ~Busy(d),
         PowerSettles'
  PROVE  PowerInv'
<1>1. NotServed \in Serve /\ NotServed.step = "idle"
  BY DEF NotServed, Serve, ServeSteps, Powers, Changes, Choices
<1>2. /\ serve \in [Calls -> Serve] /\ serve' \in [Calls -> Serve] /\ serve'[c].step = "idle"
      /\ \A d \in Calls \ {c} : serve'[d] = serve[d]
  BY <1>1 DEF PowerInv, PowerTyped
<1>3. settled' \in Powers \cup Changes \cup {"none"}
  BY <1>2 DEF Serve
<1>4. PowerTyped'
  BY <1>2, <1>3 DEF Kept, PowerTyped
<1>5. \A d \in Calls : Busy(d)' => ~serve'[d].quiet
  BY <1>2 DEF Busy, PowerInv, Undisturbed
<1>6. settled' # "none" => \A d \in Calls : ~Busy(d)'
  BY <1>2 DEF Busy
<1> QED BY <1>4, <1>5, <1>6 DEF PowerInv, Undisturbed

LEMMA EndingInFault ==
  ASSUME PowerInv, NEW c \in Calls, Busy(c), Kept, ServedFaulty(c)
  PROVE  PowerInv'
<1>1. settled' = "none"
  BY DEF PowerInv, Undisturbed, ServedFaulty
<1>2. PowerSettles'
  BY <1>1 DEF PowerSettles, Powers
<1> QED BY <1>1, <1>2, Ending DEF ServedFaulty

\* A new request makes those under way unquiet.
LEMMA Asking ==
  ASSUME PowerInv, NEW c \in Calls, PowerAsked(c) PROVE PowerInv'
<1>1. PICK ask \in Asked, batch \in BOOLEAN, choice \in Choices :
        serve' = [d \in Calls |->
          IF d = c THEN [step |-> "wanted", ask |-> ask, batch |-> batch, choice |-> choice,
                         quiet |-> \A e \in Calls : ~Busy(e)]
          ELSE [serve[d] EXCEPT !.quiet = @ /\ ~Busy(d)]]
  BY ZenonT(60) DEF PowerAsked
<1>2. ask \in Powers \cup Changes
  BY PanelPowerConstants
<1>3. serve'[c] \in Serve /\ serve'[c].step = "wanted"
  BY <1>1, <1>2 DEF Serve, ServeSteps
<1>4. ASSUME NEW d \in Calls \ {c}
      PROVE  /\ serve'[d] \in Serve /\ serve'[d].step = serve[d].step
             /\ Busy(d) => ~serve'[d].quiet
  <2>1. serve[d] \in Serve
    BY DEF PowerInv, PowerTyped
  <2> QED BY <1>1, <2>1 DEF Serve, Busy
<1>5. PowerTyped'
  <2>1. serve' \in [Calls -> Serve]
    BY <1>1, <1>3, <1>4
  <2> QED BY <2>1 DEF PowerInv, PowerTyped, PowerAsked, NodeKept, RecordKept
<1>6. settled' = "none"
  BY DEF PowerAsked
<1>7. serve'[c].quiet => \A d \in Calls \ {c} : ~Busy(d)
  BY <1>1
<1>8. Done(c)'
  BY <1>3 DEF Done
<1>9. Undisturbed'
  BY <1>3, <1>4, <1>6, <1>7, <1>8 DEF Undisturbed, Busy
<1>10. PowerSettles'
  BY <1>6 DEF PowerSettles, Powers
<1> QED BY <1>5, <1>9, <1>10 DEF PowerInv

LEMMA PowerStepKeeps ==
  ASSUME PowerInv, NEW c \in Calls, PowerStep(c) PROVE PowerInv'
<1> USE DEF NodeKept, RecordKept
<1>1. PowerTyped /\ serve[c] \in Serve
  BY DEF PowerInv, PowerTyped
<1>2. \A step \in {"calling", "acted", "recorded", "undo"} : step \in ServeSteps /\ step # "idle"
  BY DEF ServeSteps
<1>3. Busy(c) /\ serve[c].quiet => Done(c)
  BY DEF PowerInv, Undisturbed
<1>4. CASE PowerLocks(c)
  <2>1. GoesOn(c) /\ serve'[c] = [serve[c] EXCEPT !.step = "calling"] /\ Busy(c)
    BY <1>1, <1>2, <1>4, StepOn DEF PowerLocks, Busy
  <2>2. Kept /\ UNCHANGED settled
    BY <1>1, <1>4 DEF PowerLocks, Kept, PowerTyped
  <2>3. Done(c)'
    BY <1>1, <1>4, <2>1 DEF PowerLocks, Done, Serve, Powers
  <2> QED BY <2>1, <2>2, <2>3, GoingOn
<1>5. CASE PowerActs(c)
  <2>1. GoesOn(c) /\ serve'[c] = [serve[c] EXCEPT !.step = "acted"] /\ Busy(c)
    BY <1>1, <1>2, <1>5, StepOn DEF PowerActs, Busy
  <2>2. Kept /\ UNCHANGED settled
    BY <1>1, <1>5 DEF PowerActs, Kept, PowerTyped, Runs
  <2>3. serve'[c].quiet => Done(c)'
    BY <1>1, <1>3, <1>5, <2>1 DEF PowerActs, Done, Serve, Powers, Changes, Runs, Recorded
  <2> QED BY <2>1, <2>2, <2>3, GoingOn
<1>6. CASE PowerFails(c)
  <2>1. running' = running \/ running' = Runs(serve[c].ask)
    BY <1>6 DEF PowerFails
  <2>2. Runs(serve[c].ask) \in BOOLEAN
    BY DEF Runs
  <2>3. Kept /\ Busy(c)
    BY <1>1, <1>6, <2>1, <2>2 DEF PowerFails, Kept, PowerTyped, Busy
  <2> QED BY <1>6, <2>3, EndingInFault DEF PowerFails
<1>7. CASE PowerRecords(c)
  <2>1. GoesOn(c) /\ serve'[c] = [serve[c] EXCEPT !.step = "recorded"] /\ Busy(c)
    BY <1>1, <1>2, <1>7, StepOn DEF PowerRecords, Busy
  <2>2. Kept /\ UNCHANGED settled
    BY <1>1, <1>7 DEF PowerRecords, Kept, PowerTyped, Recorded
  <2>3. serve'[c].quiet => Done(c)'
    BY <1>1, <1>3, <1>7, <2>1 DEF PowerRecords, Done, Serve, Powers, Busy
  <2> QED BY <2>1, <2>2, <2>3, GoingOn
<1>8. CASE PowerWrites(c)
  <2>1. Kept /\ Busy(c)
    <3>1. Recorded(serve[c].ask) \in BOOLEAN
      BY DEF Recorded
    <3>2. written' \in [state : BOOLEAN, image : Choices, startup : Choices]
      BY <1>1, <1>8, <3>1 DEF PowerWrites, PowerTyped
    <3> QED BY <1>1, <1>8, <3>2 DEF PowerWrites, Kept, PowerTyped, Busy
  <2>2. /\ serve' = [serve EXCEPT ![c] = NotServed]
        /\ \/ settled' = "none"
           \/ /\ settled' = serve[c].ask /\ serve[c].quiet
              /\ \A d \in Calls \ {c} : ~Busy(d)
    BY <1>8 DEF PowerWrites, Served
  <2>3. CASE settled' = "none"
    BY <2>1, <2>2, <2>3, Ending DEF PowerSettles, Powers
  <2>4. CASE settled' = serve[c].ask /\ serve[c].quiet /\ \A d \in Calls \ {c} : ~Busy(d)
    <3>1. running = Recorded(serve[c].ask) /\ desired = running
      BY <1>3, <1>8, <2>1, <2>4 DEF PowerWrites, Done
    <3>2. running' = running /\ desired' = desired /\ written'.state = Recorded(serve[c].ask)
      BY <1>1, <1>8 DEF PowerWrites, PowerTyped
    <3>3. PowerSettles'
      BY <1>8, <2>4, <3>1, <3>2 DEF PowerWrites, PowerSettles, Powers
    <3> QED BY <2>1, <2>2, <2>4, <3>3, Ending
  <2> QED BY <2>2, <2>3, <2>4
<1>9. CASE PowerUnrecorded(c)
  <2>1. Kept /\ Busy(c)
    BY <1>1, <1>9 DEF PowerUnrecorded, Kept, PowerTyped, Busy
  <2>2. CASE ServedFaulty(c)
    BY <2>1, <2>2, EndingInFault
  <2>3. CASE ServeFaults(c, "undo") /\ UNCHANGED settled
    <3>1. GoesOn(c) /\ ~serve'[c].quiet
      BY <1>1, <1>2, <2>3, FaultOn
    <3> QED BY <2>1, <2>3, <3>1, GoingOn
  <2> QED BY <1>9, <2>2, <2>3 DEF PowerUnrecorded
<1>10. CASE PowerUndoes(c)
  <2>1. Kept /\ Busy(c)
    BY <1>1, <1>10 DEF PowerUndoes, Kept, PowerTyped, Runs, Busy
  <2>2. ~serve[c].quiet
    <3>1. serve[c].ask \in Powers \/ serve[c].ask \in {"image", "startup"} \/ serve[c].ask = "rebuild"
      BY <1>1 DEF Serve, Changes
    <3> QED BY <1>3, <1>10, <2>1, <3>1 DEF PowerUndoes, Done
  <2>3. serve' = [serve EXCEPT ![c] = NotServed] /\ settled' = "none"
    BY <1>10, <2>2 DEF PowerUndoes, Served
  <2> QED BY <2>1, <2>3, Ending DEF PowerSettles, Powers
<1>11. CASE PowerUndoFails(c) \/ PowerUnwritten(c)
  <2>1. Kept /\ Busy(c)
    BY <1>1, <1>11 DEF PowerUndoFails, PowerUnwritten, Kept, PowerTyped, Busy
  <2> QED BY <1>11, <2>1, EndingInFault DEF PowerUndoFails, PowerUnwritten
<1> QED BY <1>4, <1>5, <1>6, <1>7, <1>8, <1>9, <1>10, <1>11 DEF PowerStep

LEMMA UnconfirmedTyped ==
  ASSUME PowerTyped, NEW what, NEW choice \in Choices, Unconfirmed(what, choice)
  PROVE  running' \in BOOLEAN /\ made' \in Made
<1>1. made \in Made /\ [made EXCEPT ![what] = choice] \in Made
  BY DEF PowerTyped, Made
<1> QED BY <1>1 DEF PowerTyped, Unconfirmed

LEMMA ChangeStepKeeps ==
  ASSUME PowerInv, NEW c \in Calls, ChangeStep(c) PROVE PowerInv'
<1> USE DEF NodeKept, RecordKept
<1>1. PowerTyped /\ serve[c] \in Serve
  BY DEF PowerInv, PowerTyped
<1>2. \A step \in {"acted", "recorded"} : step \in ServeSteps /\ step # "idle"
  BY DEF ServeSteps
<1>3. Busy(c) /\ serve[c].quiet => Done(c)
  BY DEF PowerInv, Undisturbed
<1>4. serve[c].choice \in Choices
  BY <1>1 DEF Serve
<1>5. CASE ChangeActs(c)
  <2>1. GoesOn(c) /\ serve'[c] = [serve[c] EXCEPT !.step = "acted"] /\ Busy(c)
    BY <1>1, <1>2, <1>5, StepOn DEF ChangeActs, Busy
  <2>2. Kept /\ UNCHANGED settled /\ made'[serve[c].ask] = serve[c].choice
    BY <1>1, <1>4, <1>5 DEF ChangeActs, Kept, PowerTyped, Made
  <2>3. Done(c)'
    BY <1>1, <1>5, <2>1, <2>2 DEF ChangeActs, Done, Serve, Powers
  <2> QED BY <2>1, <2>2, <2>3, GoingOn
<1>6. CASE ChangeRecords(c)
  <2>1. GoesOn(c) /\ serve'[c] = [serve[c] EXCEPT !.step = "recorded"] /\ Busy(c)
    BY <1>1, <1>2, <1>6, StepOn DEF ChangeRecords, Busy
  <2>2. Kept /\ UNCHANGED <<settled, made>> /\ shown'[serve[c].ask] = serve[c].choice
    BY <1>1, <1>4, <1>6 DEF ChangeRecords, Kept, PowerTyped, Made
  <2>3. serve'[c].quiet => Done(c)'
    BY <1>1, <1>3, <1>6, <2>1, <2>2 DEF ChangeRecords, Done, Serve, Powers
  <2> QED BY <2>1, <2>2, <2>3, GoingOn
<1>7. CASE ChangeWrites(c)
  <2>1. /\ Kept /\ Busy(c) /\ UNCHANGED <<made, shown>>
        /\ written'[serve[c].ask] = serve[c].choice
    BY <1>1, <1>4, <1>7 DEF ChangeWrites, Kept, PowerTyped, Busy
  <2>2. /\ serve' = [serve EXCEPT ![c] = NotServed]
        /\ \/ settled' = "none"
           \/ /\ settled' = serve[c].ask /\ serve[c].quiet
              /\ \A d \in Calls \ {c} : ~Busy(d)
    BY <1>7 DEF ChangeWrites, Served
  <2>3. CASE settled' = "none"
    BY <2>1, <2>2, <2>3, Ending DEF PowerSettles, Powers
  <2>4. CASE settled' = serve[c].ask /\ serve[c].quiet /\ \A d \in Calls \ {c} : ~Busy(d)
    <3>1. made[serve[c].ask] = serve[c].choice /\ shown[serve[c].ask] = serve[c].choice
      BY <1>3, <1>7, <2>1, <2>4 DEF ChangeWrites, Done
    <3>2. PowerSettles'
      BY <1>7, <2>1, <2>4, <3>1 DEF ChangeWrites, PowerSettles, Powers
    <3> QED BY <2>1, <2>2, <2>4, <3>2, Ending
  <2> QED BY <2>2, <2>3, <2>4
<1>8. CASE ChangeFails(c)
  <2>1. running' \in BOOLEAN /\ made' \in Made
    <3>1. CASE NodeKept
      BY <1>1, <3>1 DEF PowerTyped
    <3>2. CASE Unconfirmed(serve[c].ask, serve[c].choice)
      BY <1>1, <1>4, <1>8, <3>2, UnconfirmedTyped DEF ChangeFails
    <3> QED BY <1>8, <3>1, <3>2 DEF ChangeFails
  <2>2. Kept /\ Busy(c)
    BY <1>1, <1>8, <2>1 DEF ChangeFails, Kept, PowerTyped, Busy
  <2> QED BY <1>8, <2>2, EndingInFault DEF ChangeFails
<1> QED BY <1>5, <1>6, <1>7, <1>8 DEF ChangeStep

LEMMA RebuildStepKeeps ==
  ASSUME PowerInv, NEW c \in Calls, RebuildStep(c) PROVE PowerInv'
<1> USE DEF NodeKept, RecordKept
<1>1. PowerTyped /\ serve[c] \in Serve
  BY DEF PowerInv, PowerTyped
<1>2. \A step \in {"looked", "imaged", "started"} : step \in ServeSteps /\ step # "idle"
  BY DEF ServeSteps
<1>3. Busy(c) /\ serve[c].quiet => Done(c)
  BY DEF PowerInv, Undisturbed
<1>4. serve[c].choice \in Choices
  BY <1>1 DEF Serve
\* The steps between are those of a rebuild, for a quiet request.
<1>5. ASSUME serve[c].quiet, serve[c].step \in {"looked", "imaged", "started"}
      PROVE  serve[c].ask = "rebuild" /\ Done(c)
  <2>1. serve[c].ask \in Powers \/ serve[c].ask \in {"image", "startup"} \/ serve[c].ask = "rebuild"
    BY <1>1 DEF Serve, Changes
  <2> QED BY <1>3, <1>5, <2>1 DEF Done, Busy
<1>6. CASE RebuildLooks(c)
  <2>1. GoesOn(c) /\ serve'[c] = [serve[c] EXCEPT !.step = "looked"] /\ Busy(c)
    BY <1>1, <1>2, <1>6, StepOn DEF RebuildLooks, Busy
  <2>2. Kept /\ UNCHANGED settled
    BY <1>1, <1>6 DEF RebuildLooks, Kept, PowerTyped
  <2>3. Done(c)'
    BY <1>1, <1>6, <2>1 DEF RebuildLooks, Done, Serve, Powers
  <2> QED BY <2>1, <2>2, <2>3, GoingOn
<1>7. CASE RebuildImages(c)
  <2>1. GoesOn(c) /\ serve'[c] = [serve[c] EXCEPT !.step = "imaged"] /\ Busy(c)
    BY <1>1, <1>2, <1>7, StepOn DEF RebuildImages, Busy
  <2>2. Kept /\ UNCHANGED <<settled, running>> /\ made'.image = serve[c].choice
    BY <1>1, <1>4, <1>7 DEF RebuildImages, Kept, PowerTyped, Made
  <2>3. serve'[c].quiet => Done(c)'
    BY <1>1, <1>5, <1>7, <2>1, <2>2 DEF RebuildImages, Done, Serve, Powers
  <2> QED BY <2>1, <2>2, <2>3, GoingOn
<1>8. CASE RebuildStartups(c)
  <2>1. GoesOn(c) /\ serve'[c] = [serve[c] EXCEPT !.step = "started"] /\ Busy(c)
    BY <1>1, <1>2, <1>8, StepOn DEF RebuildStartups, Busy
  <2>2. /\ Kept /\ UNCHANGED <<settled, running>>
        /\ made'.image = made.image /\ made'.startup = serve[c].choice
    BY <1>1, <1>4, <1>8 DEF RebuildStartups, Kept, PowerTyped, Made
  <2>3. serve'[c].quiet => Done(c)'
    BY <1>1, <1>5, <1>8, <2>1, <2>2 DEF RebuildStartups, Done, Serve, Powers
  <2> QED BY <2>1, <2>2, <2>3, GoingOn
<1>9. CASE RebuildRecords(c)
  <2>1. Kept /\ Busy(c) /\ UNCHANGED <<made, running>>
    BY <1>1, <1>4, <1>9 DEF RebuildRecords, Kept, PowerTyped, Made, Busy
  <2>2. /\ serve' = [serve EXCEPT ![c] = NotServed]
        /\ \/ settled' = "none"
           \/ /\ settled' = serve[c].ask /\ serve[c].quiet
              /\ \A d \in Calls \ {c} : ~Busy(d)
    BY <1>9 DEF RebuildRecords, Served
  <2>3. CASE settled' = "none"
    BY <2>1, <2>2, <2>3, Ending DEF PowerSettles, Powers
  <2>4. CASE settled' = serve[c].ask /\ serve[c].quiet /\ \A d \in Calls \ {c} : ~Busy(d)
    <3>1. /\ serve[c].ask = "rebuild"
          /\ made.image = serve[c].choice /\ made.startup = serve[c].choice
      BY <1>5, <1>9, <2>4 DEF RebuildRecords, Done
    <3>2. shown' = made'
      BY <1>1, <1>9, <2>1, <3>1 DEF RebuildRecords, PowerTyped, Made
    <3>3. PowerSettles'
      BY <2>1, <2>4, <3>1, <3>2 DEF PowerSettles, Powers
    <3> QED BY <2>1, <2>2, <2>4, <3>3, Ending
  <2> QED BY <2>2, <2>3, <2>4
<1>10. CASE RebuildFails(c)
  <2>1. running' \in BOOLEAN /\ made' \in Made /\ shown' \in Made
    <3>1. CASE NodeKept /\ shown' \in {shown, [shown EXCEPT !.image = serve[c].choice]}
      BY <1>1, <1>4, <3>1 DEF PowerTyped, Made
    <3>2. CASE (\E what \in {"image", "startup"} : Unconfirmed(what, serve[c].choice)) /\ UNCHANGED shown
      BY <1>1, <1>4, <3>2, UnconfirmedTyped DEF PowerTyped
    <3> QED BY <1>10, <3>1, <3>2 DEF RebuildFails
  <2>2. Kept /\ Busy(c)
    BY <1>1, <1>10, <2>1 DEF RebuildFails, Kept, PowerTyped, Busy
  <2> QED BY <1>10, <2>2, EndingInFault DEF RebuildFails
<1> QED BY <1>6, <1>7, <1>8, <1>9, <1>10 DEF RebuildStep

LEMMA PowerInvariant == PowerInv /\ [PanelPowerNext]_powerVars => PowerInv'
<1>1. PowerInv /\ PanelPowerNext => PowerInv'
  BY Asking, PowerStepKeeps, ChangeStepKeeps, RebuildStepKeeps DEF PanelPowerNext
<1>2. PowerInv /\ UNCHANGED powerVars => PowerInv'
  BY DEF powerVars, PowerInv, PowerTyped, Undisturbed, PowerSettles, Busy, Done
<1> QED BY <1>1, <1>2

\* PowerSettles for any number of requests, of any mix and with any faults: one
\* request that meets no other and no fault brings the container, the row and
\* the configuration file of a server together.
THEOREM PowerSettled == PanelPowerSpec => []PowerSettles
<1>1. PowerInv => PowerSettles
  BY DEF PowerInv
<1> QED BY PowerInitially, PowerInvariant, <1>1, PTL DEF PanelPowerSpec

-----------------------------------------------------------------------------
(* PanelPower: the lock *)

\* One power call is under way, and no more faults than are allowed for.
OneCalls ==
  /\ faults \in 0..MaxFaults
  /\ \A c, d \in Calls : serve[c].step = "calling" /\ serve[d].step = "calling" => c = d

\* Only PowerLocks, with the lock free, lets a call begin.
LEMMA CallsBegin ==
  ASSUME PowerTyped, NEW c \in Calls, PowerAsked(c) \/ PowerStep(c) \/ ChangeStep(c) \/ RebuildStep(c)
  PROVE  /\ \A d \in Calls : serve'[d].step = "calling" =>
              serve[d].step = "calling" \/ (d = c /\ PowerLocks(c))
         /\ faults' = faults \/ (faults < MaxFaults /\ faults' = faults + 1)
<1> USE DEF NodeKept, RecordKept
<1>1. serve \in [Calls -> Serve] /\ serve[c] \in Serve /\ NotServed.step = "idle"
  BY DEF PowerTyped, NotServed
<1>2. ASSUME NEW step \in ServeSteps \ {"calling"}, ServeOn(c, step), UNCHANGED faults
      PROVE  (\A d \in Calls : serve'[d].step = "calling" => serve[d].step = "calling") /\ faults' = faults
  BY <1>1, <1>2 DEF ServeOn, Serve
<1>3. ASSUME NEW step \in ServeSteps \ {"calling"}, ServeFaults(c, step)
      PROVE  /\ \A d \in Calls : serve'[d].step = "calling" => serve[d].step = "calling"
             /\ faults < MaxFaults /\ faults' = faults + 1
  BY <1>1, <1>3 DEF ServeFaults, Serve
<1>4. ASSUME Served(c) \/ ServedFaulty(c)
      PROVE  \A d \in Calls : serve'[d].step = "calling" => serve[d].step = "calling"
  BY <1>1, <1>4 DEF Served, ServedFaulty
<1>5. \A step \in {"acted", "recorded", "undo", "looked", "imaged", "started"} :
        step \in ServeSteps \ {"calling"}
  BY DEF ServeSteps
<1>6. CASE PowerAsked(c)
  <2>1. \A d \in Calls : serve'[d].step = (IF d = c THEN "wanted" ELSE serve[d].step)
    BY <1>1, <1>6 DEF PowerAsked, Serve
  <2> QED BY <1>6, <2>1 DEF PowerAsked
<1>7. CASE PowerLocks(c)
  BY <1>1, <1>7 DEF PowerLocks, ServeOn
<1>8. CASE PowerActs(c) \/ PowerRecords(c) \/ ChangeActs(c) \/ ChangeRecords(c)
           \/ RebuildLooks(c) \/ RebuildImages(c) \/ RebuildStartups(c)
  BY <1>2, <1>5, <1>8 DEF PowerActs, PowerRecords, ChangeActs, ChangeRecords, RebuildLooks,
     RebuildImages, RebuildStartups
<1>9. CASE PowerWrites(c) \/ PowerUndoes(c) \/ ChangeWrites(c) \/ RebuildRecords(c)
  BY <1>4, <1>9 DEF PowerWrites, PowerUndoes, ChangeWrites, RebuildRecords
<1>10. CASE PowerFails(c) \/ PowerUnwritten(c) \/ PowerUndoFails(c) \/ ChangeFails(c) \/ RebuildFails(c)
  <2>1. ServedFaulty(c)
    BY <1>10 DEF PowerFails, PowerUnwritten, PowerUndoFails, ChangeFails, RebuildFails
  <2> QED BY <1>4, <2>1 DEF ServedFaulty
<1>11. CASE PowerUnrecorded(c)
  BY <1>3, <1>4, <1>5, <1>11 DEF PowerUnrecorded, ServedFaulty
<1> QED BY <1>6, <1>7, <1>8, <1>9, <1>10, <1>11 DEF PowerStep, ChangeStep, RebuildStep

LEMMA LockInitially == PanelPowerInit => OneCalls
BY PanelPowerConstants DEF PanelPowerInit, NotServed, OneCalls

LEMMA LockInvariant == PowerInv /\ OneCalls /\ [PanelPowerNext]_powerVars => OneCalls'
<1> SUFFICES ASSUME PowerInv, OneCalls, [PanelPowerNext]_powerVars PROVE OneCalls'
  OBVIOUS
<1>1. CASE UNCHANGED powerVars
  BY <1>1 DEF powerVars, OneCalls
<1>2. CASE PanelPowerNext
  <2>1. PICK c \in Calls : PowerAsked(c) \/ PowerStep(c) \/ ChangeStep(c) \/ RebuildStep(c)
    BY <1>2 DEF PanelPowerNext
  <2>2. /\ \A d \in Calls : serve'[d].step = "calling" =>
             serve[d].step = "calling" \/ (d = c /\ PowerLocks(c))
        /\ faults' = faults \/ (faults < MaxFaults /\ faults' = faults + 1)
    BY <2>1, CallsBegin DEF PowerInv
  <2>3. PowerLocks(c) => \A d \in Calls : serve[d].step # "calling"
    BY DEF PowerLocks
  <2>4. faults' \in 0..MaxFaults
    BY <2>2, PanelPowerConstants DEF OneCalls
  <2> QED BY <2>2, <2>3, <2>4 DEF OneCalls
<1> QED BY <1>1, <1>2

LEMMA PowerTypedMeans == PowerInv /\ OneCalls => PanelPowerTypeOK
BY DEF PowerInv, PowerTyped, OneCalls, PanelPowerTypeOK

\* Types of the power model: its lock lets one power call of the process through.
THEOREM OnePowerCall == PanelPowerSpec => []PanelPowerTypeOK
<1> DEFINE Inv == PowerInv /\ OneCalls
<1>1. PanelPowerInit => Inv
  BY PowerInitially, LockInitially
<1>2. Inv /\ [PanelPowerNext]_powerVars => Inv'
  BY PowerInvariant, LockInvariant
<1>3. Inv => PanelPowerTypeOK
  BY PowerTypedMeans
<1> QED BY <1>1, <1>2, <1>3, PTL DEF PanelPowerSpec

-----------------------------------------------------------------------------
(* NodeClient *)

\* Before the walk ends nothing is carried out but what a reset followed, and
\* nothing is after it.  What is left of the walk does not matter, so its type is
\* left open.
CallShaped(c) ==
  c = [f \in {"step", "method", "walk", "skipped", "asked", "acted", "cut"} |-> c[f]]
OnceEach(c) ==
  /\ CallShaped(c) /\ c.cut \in Nat /\ c.acted \in {c.cut, c.cut + 1}
  /\ c.step \notin {"answered", "failed"} => c.acted = c.cut
OnceInv == call = [t \in ClientThreads |-> call[t]] /\ \A t \in ClientThreads : OnceEach(call[t])

\* One thread goes on.
LEMMA OnceMoves ==
  ASSUME OnceInv, NEW t \in ClientThreads, NEW c, OnceEach(c), call' = [call EXCEPT ![t] = c]
  PROVE  OnceInv'
BY DEF OnceInv

LEMMA OnceNew ==
  ASSUME NEW m
  PROVE  OnceEach(NoCall) /\ OnceEach([NoCall EXCEPT !.step = "begun", !.method = m])
BY DEF NoCall, OnceEach, CallShaped

LEMMA OnceWalks ==
  ASSUME OnceInv, NEW t \in ClientThreads, NEW step, call[t].acted = call[t].cut, Walks(t, step)
  PROVE  OnceInv'
<1> DEFINE c == [call[t] EXCEPT !.step = IF Candidates = <<>> THEN "failed" ELSE step,
                   !.walk = Candidates,
                   !.skipped = {u \in Urls : \A i \in DOMAIN Candidates : Candidates[i] # u}]
<1>1. OnceEach(call[t])
  BY DEF OnceInv
<1>2. OnceEach(c)
  BY <1>1 DEF OnceEach, CallShaped
<1>3. call' = [call EXCEPT ![t] = c]
  BY DEF OnceInv, Walks
<1> QED BY <1>2, <1>3, OnceMoves

LEMMA OnceGoes ==
  ASSUME OnceInv, NEW t \in ClientThreads, NEW step, call[t].acted = call[t].cut, CallGoes(t, step)
  PROVE  OnceInv'
<1>1. OnceEach(call[t])
  BY DEF OnceInv
<1>2. OnceEach([call[t] EXCEPT !.step = step])
  BY <1>1 DEF OnceEach, CallShaped
<1>3. call' = [call EXCEPT ![t] = [call[t] EXCEPT !.step = step]]
  BY DEF OnceInv, CallGoes
<1> QED BY <1>2, <1>3, OnceMoves

LEMMA OnceNext ==
  ASSUME OnceInv, NEW t \in ClientThreads, NEW atEnd, NEW cut \in {0, 1},
         call[t].acted = call[t].cut, Moves(t, atEnd, cut)
  PROVE  OnceInv'
<1> DEFINE c == [call[t] EXCEPT !.walk = Tail(call[t].walk),
                   !.asked = call[t].asked \cup {Head(call[t].walk)},
                   !.step = IF Len(call[t].walk) = 1 THEN atEnd ELSE call[t].step,
                   !.acted = call[t].acted + cut, !.cut = call[t].cut + cut]
<1>1. OnceEach(call[t])
  BY DEF OnceInv
<1>2. OnceEach(c)
  <2>1. CallShaped(c) /\ c.acted = call[t].acted + cut /\ c.cut = call[t].cut + cut
    BY <1>1 DEF OnceEach, CallShaped
  <2>2. c.acted = c.cut /\ c.cut \in Nat
    BY <1>1, <2>1 DEF OnceEach
  <2> HIDE DEF c
  <2> QED BY <2>1, <2>2 DEF OnceEach
<1>3. call' = [call EXCEPT ![t] = c]
  BY DEF OnceInv, Moves
<1> QED BY <1>2, <1>3, OnceMoves

LEMMA OnceLeaves ==
  ASSUME OnceInv, NEW t \in ClientThreads, NEW step, NEW acted \in {0, 1},
         call[t].acted = call[t].cut, Leaves(t, step, acted), acted = 1 => step = "answered"
  PROVE  OnceInv'
<1> DEFINE more == IF call[t].method = "GET" THEN 0 ELSE acted
           c == [call[t] EXCEPT !.walk = <<>>,
                   !.asked = call[t].asked \cup {Head(call[t].walk)},
                   !.step = step, !.acted = call[t].acted + more]
<1>1. OnceEach(call[t]) /\ call[t].cut \in Nat
      /\ call[t].acted + more \in {call[t].cut, call[t].cut + 1}
  BY DEF OnceInv, OnceEach
<1>2. OnceEach(c)
  <2>1. CallShaped(c)
    BY <1>1 DEF OnceEach, CallShaped
  <2>2. c.acted = call[t].acted + more /\ c.cut = call[t].cut /\ c.step = step
    BY <1>1 DEF OnceEach, CallShaped
  <2>3. step # "answered" => call[t].acted + more = call[t].cut
    BY <1>1
  <2> HIDE DEF c, more
  <2> QED BY <1>1, <2>1, <2>2, <2>3 DEF OnceEach
<1>3. call' = [call EXCEPT ![t] = c]
  BY DEF OnceInv, Leaves
<1> QED BY <1>2, <1>3, OnceMoves

LEMMA OnceTimesOut ==
  ASSUME OnceInv, NEW t \in ClientThreads, call[t].acted = call[t].cut, TimesOut(t)
  PROVE  OnceInv'
<1> DEFINE u == Head(call[t].walk)
           more == IF answers[u] = "agent" /\ call[t].method # "GET" THEN call[t].acted + 1
                   ELSE call[t].acted
           step == IF Retries(t) /\ Len(call[t].walk) > 1 THEN call[t].step ELSE "failed"
           c == [call[t] EXCEPT
                   !.walk = IF Retries(t) THEN Tail(call[t].walk) ELSE <<>>,
                   !.asked = call[t].asked \cup {u}, !.acted = more, !.step = step]
<1>1. OnceEach(call[t])
  BY DEF OnceInv
<1>2. /\ call[t].cut \in Nat /\ more \in {call[t].cut, call[t].cut + 1}
      /\ step \notin {"answered", "failed"} => more = call[t].cut
  BY <1>1 DEF Retries, OnceEach
<1>3. OnceEach(c)
  <2>1. CallShaped(c) /\ c.acted = more /\ c.cut = call[t].cut /\ c.step = step
    BY <1>1 DEF OnceEach, CallShaped
  <2> HIDE DEF c, more, step
  <2> QED BY <1>2, <2>1 DEF OnceEach
<1>4. call' = [call EXCEPT ![t] = c]
  BY DEF OnceInv, TimesOut
<1> QED BY <1>3, <1>4, OnceMoves

LEMMA OnceSteps ==
  ASSUME OnceInv, NEW t \in ClientThreads, CallBegins(t) \/ CallGoesOn(t) PROVE OnceInv'
<1>1. call[t].step \notin {"answered", "failed"} => call[t].acted = call[t].cut
  BY DEF OnceInv, OnceEach
<1>2. CASE CallBegins(t)
  BY <1>2, OnceNew, OnceMoves DEF CallBegins
<1>3. CASE EnsureActive(t)
  BY <1>1, <1>3, OnceGoes, OnceWalks DEF EnsureActive
<1>4. CASE Probes(t)
  BY <1>1, <1>4, OnceLeaves, OnceNext DEF Probes
<1>5. CASE CallWalks(t)
  BY <1>1, <1>5, OnceWalks DEF CallWalks
<1>6. CASE Pings(t)
  BY <1>1, <1>6, OnceNew, OnceMoves, OnceNext DEF Pings
<1>7. CASE AgentAnswers(t)
  BY <1>1, <1>7, OnceLeaves DEF AgentAnswers, Trying
<1>8. CASE TimesOut(t)
  BY <1>1, <1>8, OnceTimesOut DEF TimesOut, Trying
<1>9. CASE ConnectFails(t)
  <2>1. PICK cut \in {0, 1} : Moves(t, "failed", cut)
    BY <1>9 DEF ConnectFails
  <2> QED BY <1>1, <1>9, <2>1, OnceNext DEF ConnectFails, Trying
<1>10. CASE AnsweredByOther(t)
  BY <1>1, <1>10, OnceLeaves, OnceNext DEF AnsweredByOther, Trying
<1>11. CASE CallEnds(t)
  BY <1>11, OnceNew, OnceMoves DEF CallEnds
<1> QED BY <1>2, <1>3, <1>4, <1>5, <1>6, <1>7, <1>8, <1>9, <1>10, <1>11 DEF CallGoesOn

\* WriteOnce for any number of threads and addresses, of changes of what is at
\* them, and of answers that are lost: a write that was carried out is sent again
\* after a reset connection alone.
THEOREM WrittenOnce == NodeClientSpec => []WriteOnce
<1>1. NodeClientInit => OnceInv
  BY OnceNew DEF NodeClientInit, OnceInv
<1>2. OnceInv /\ [NodeClientNext]_clientVars => OnceInv'
  <2>1. ASSUME OnceInv, \E u \in Urls : CooldownEnds(u) \/ AddressChanges(u) PROVE OnceInv'
    BY <2>1 DEF CooldownEnds, AddressChanges, OnceInv
  <2>2. OnceInv /\ UNCHANGED clientVars => OnceInv'
    BY DEF clientVars, OnceInv
  <2> QED BY <2>1, <2>2, OnceSteps DEF NodeClientNext
<1>3. OnceInv => WriteOnce
  BY DEF OnceInv, OnceEach, WriteOnce
<1> QED BY <1>1, <1>2, <1>3, PTL DEF NodeClientSpec

-----------------------------------------------------------------------------
(* The order of a walk *)

\* No two addresses have one place.
LEMMA PlacesDiffer ==
  ASSUME active \in Urls
  PROVE  /\ \A u \in Urls : Place(u) \in Nat
         /\ \A u, v \in Urls : Place(u) = Place(v) => u = v
BY NodeClientConstants DEF Place, Urls

LEMMA SomeUrls ==
  ASSUME NEW S \in SUBSET Urls
  PROVE  IsFiniteSet(S) /\ Cardinality(S) \in Nat
<1>1. IsFiniteSet(Urls)
  BY FS_Interval, NodeClientConstants DEF Urls
<1> QED BY <1>1, FS_Subset, FS_CardinalityType

\* The k-th of some addresses is the one with k - 1 of them before it, so each
\* is there once.
LEMMA InOrderLists ==
  ASSUME active \in Urls, NEW S \in SUBSET Urls
  PROVE  LET w == InOrder(S) IN
         /\ w \in Seq(Urls)
         /\ {w[i] : i \in DOMAIN w} = S
         /\ \A i, j \in DOMAIN w : w[i] = w[j] => i = j
         /\ w = <<>> <=> S = {}
<1> DEFINE Before(u) == {v \in S : Place(v) < Place(u)}
           n == Cardinality(S)
           f == [u \in S |-> Cardinality(Before(u)) + 1]
           w == [k \in 1..n |-> CHOOSE u \in S : Cardinality(Before(u)) = k - 1]
<1>1. n \in Nat /\ IsFiniteSet(S)
  BY SomeUrls
<1>2. \A u \in S : /\ IsFiniteSet(Before(u)) /\ Cardinality(Before(u)) \in Nat
                   /\ Cardinality(Before(u)) < n
  <2> SUFFICES ASSUME NEW u \in S
               PROVE  /\ IsFiniteSet(Before(u)) /\ Cardinality(Before(u)) \in Nat
                      /\ Cardinality(Before(u)) < n
    OBVIOUS
  <2>1. Before(u) \in SUBSET S /\ Before(u) # S
    BY PlacesDiffer
  <2>2. IsFiniteSet(Before(u)) /\ Cardinality(Before(u)) <= n /\ Cardinality(Before(u)) # n
    <3> HIDE DEF Before
    <3> QED BY <1>1, <2>1, FS_Subset
  <2>3. Cardinality(Before(u)) \in Nat
    BY <2>2, FS_CardinalityType
  <2> HIDE DEF Before
  <2> QED BY <1>1, <2>2, <2>3
<1>3. ASSUME NEW u \in S, NEW v \in S, Place(u) < Place(v)
      PROVE  Cardinality(Before(u)) < Cardinality(Before(v))
  <2>1. Before(u) \in SUBSET Before(v) /\ Before(u) # Before(v)
    BY <1>3, PlacesDiffer
  <2>2. Cardinality(Before(u)) <= Cardinality(Before(v))
        /\ Cardinality(Before(u)) # Cardinality(Before(v))
    <3> HIDE DEF Before
    <3> QED BY <1>2, <2>1, FS_Subset
  <2> HIDE DEF Before
  <2> QED BY <1>2, <2>2
<1>4. \A u, v \in S : f[u] = f[v] => u = v
  <2> SUFFICES ASSUME NEW u \in S, NEW v \in S, f[u] = f[v]
               PROVE  u = v
    OBVIOUS
  <2>1. Cardinality(Before(u)) = Cardinality(Before(v))
    <3> HIDE DEF Before
    <3> QED BY <1>2
  <2>2. ~ (Place(u) < Place(v)) /\ ~ (Place(v) < Place(u))
    <3> HIDE DEF Before
    <3> QED BY <1>2, <1>3, <2>1
  <2> QED BY <2>2, PlacesDiffer
<1>5. f \in [S -> 1..n]
  <2> HIDE DEF Before
  <2> QED BY <1>1, <1>2
<1>6. \A k \in 1..n : \E u \in S : f[u] = k
  <2>1. f \in Injection(S, 1..n)
    <3> HIDE DEF f
    <3> QED BY <1>4, <1>5 DEF Injection, IsInjective
  <2>2. IsFiniteSet(1..n) /\ Cardinality(1..n) = n
    BY <1>1, FS_Interval
  <2>3. f \in Surjection(S, 1..n)
    <3> HIDE DEF f
    <3> QED BY <2>1, <2>2, FS_Injection
  <2> HIDE DEF f
  <2> QED BY <2>3, Fun_SurjectionProperties
<1>7. \A u \in S : \A k \in 1..n : f[u] = k <=> Cardinality(Before(u)) = k - 1
  <2> HIDE DEF Before
  <2> QED BY <1>1, <1>2
<1> HIDE DEF f, Before
<1>8. \A k \in 1..n : w[k] \in S /\ f[w[k]] = k
  BY <1>6, <1>7
<1>9. \A u \in S : f[u] \in 1..n /\ w[f[u]] = u
  BY <1>4, <1>5, <1>8
<1>10. w = InOrder(S)
  BY DEF InOrder, Before
<1>11. DOMAIN w = 1..n /\ w \in [1..n -> S]
  BY <1>8
<1> HIDE DEF w
<1>12. w \in Seq(Urls)
  BY <1>1, <1>11
<1>13. {w[i] : i \in DOMAIN w} = S
  BY <1>9, <1>11
<1>14. \A i, j \in DOMAIN w : w[i] = w[j] => i = j
  BY <1>8, <1>11
<1>15. w = <<>> <=> S = {}
  <2>1. CASE n = 0
    <3>1. S = {} /\ DOMAIN w = {}
      BY <1>11, <1>13, <2>1
    <3> QED BY <1>12, <3>1
  <2>2. CASE n # 0
    <3>1. 1 \in DOMAIN w /\ w[1] \in S
      BY <1>1, <1>11, <1>13, <2>2
    <3> QED BY <3>1
  <2> QED BY <2>1, <2>2
<1> QED BY <1>10, <1>12, <1>13, <1>14, <1>15

\* What is tried is what is not in its cooldown, or everything; it is never
\* nothing.
LEMMA CandidatesList ==
  ASSUME active \in Urls
  PROVE  /\ Candidates \in Seq(Urls) /\ Candidates # <<>>
         /\ \A i, j \in DOMAIN Candidates : Candidates[i] = Candidates[j] => i = j
<1>1. Urls # {}
  BY NodeClientConstants DEF Urls
<1>2. Order \in Seq(Urls) /\ Order # <<>> /\ \A i, j \in DOMAIN Order : Order[i] = Order[j] => i = j
  BY <1>1, InOrderLists DEF Order
<1>3. Fit \in Seq(Urls) /\ \A i, j \in DOMAIN Fit : Fit[i] = Fit[j] => i = j
  BY InOrderLists DEF Fit
<1> QED BY <1>2, <1>3 DEF Candidates

-----------------------------------------------------------------------------
(* What a request that failed has tried *)

\* A walk comes to no address twice, it ends only with the step, and what is
\* left of it, was tried or was left out is every address.
WalkSound(c) ==
  /\ c \in Call
  /\ \A i, j \in DOMAIN c.walk : c.walk[i] = c.walk[j] => i = j
  /\ c.step \in {"probing", "pinging", "trying"} => c.walk # <<>>
  /\ c.step \in {"pinging", "trying"} =>
       Urls \subseteq {c.walk[i] : i \in DOMAIN c.walk} \cup c.asked \cup c.skipped
  /\ c.step = "failed" =>
       /\ c.asked # {}
       /\ c.method = "GET" => Urls \subseteq c.asked \cup c.skipped
ClientTyped ==
  /\ answers \in [Urls -> Conditions] /\ dead \subseteq Urls /\ active \in Urls
  /\ probed \in BOOLEAN /\ flips \in 0..MaxFlips /\ lost \in 0..MaxLost
OneProbes ==
  \A t, s \in ClientThreads : call[t].step = "probing" /\ call[s].step = "probing" => t = s
AskInv ==
  /\ ClientTyped /\ OneProbes /\ call = [t \in ClientThreads |-> call[t]]
  /\ \A t \in ClientThreads : WalkSound(call[t])

\* One thread goes on.
LEMMA WalkSteps ==
  ASSUME AskInv, NEW t \in ClientThreads, NEW c, WalkSound(c), call' = [call EXCEPT ![t] = c],
         c.step = "probing" => \A s \in ClientThreads \ {t} : call[s].step # "probing"
  PROVE  /\ OneProbes' /\ call' = [s \in ClientThreads |-> call'[s]]
         /\ \A s \in ClientThreads : WalkSound(call'[s])
BY DEF AskInv, OneProbes

LEMMA WalkNew ==
  ASSUME NEW m \in {"GET", "POST", "create"}
  PROVE  WalkSound(NoCall) /\ WalkSound([NoCall EXCEPT !.step = "begun", !.method = m])
<1>1. <<>> \in Seq(Urls) /\ DOMAIN <<>> = {}
  OBVIOUS
<1>2. NoCall \in Call /\ [NoCall EXCEPT !.step = "begun", !.method = m] \in Call
  BY <1>1 DEF NoCall, Call, CallSteps
<1> QED BY <1>1, <1>2 DEF NoCall, WalkSound

LEMMA WalkGoes ==
  ASSUME NEW c, WalkSound(c)
  PROVE  WalkSound([c EXCEPT !.step = "ready"])
BY DEF WalkSound, Call, CallSteps

LEMMA WalkStarts ==
  ASSUME AskInv, NEW t \in ClientThreads, NEW step \in {"probing", "pinging", "trying"},
         step = "probing" => \A s \in ClientThreads : call[s].step # "probing", Walks(t, step)
  PROVE  /\ OneProbes' /\ call' = [s \in ClientThreads |-> call'[s]]
         /\ \A s \in ClientThreads : WalkSound(call'[s])
<1> DEFINE out == {u \in Urls : \A i \in DOMAIN Candidates : Candidates[i] # u}
           c == [call[t] EXCEPT !.step = step, !.walk = Candidates, !.skipped = out]
<1>1. /\ Candidates \in Seq(Urls) /\ Candidates # <<>>
      /\ \A i, j \in DOMAIN Candidates : Candidates[i] = Candidates[j] => i = j
  BY CandidatesList DEF AskInv, ClientTyped
<1>2. call' = [call EXCEPT ![t] = c]
  BY <1>1 DEF AskInv, Walks
<1>3. Urls \subseteq {Candidates[i] : i \in DOMAIN Candidates} \cup out
  OBVIOUS
<1>4. call[t] \in Call /\ out \in SUBSET Urls
  BY DEF AskInv, WalkSound
<1> HIDE DEF out
<1>5. WalkSound(c)
  <2>1. step \in CallSteps
    BY DEF CallSteps
  <2>2. c \in Call
    BY <1>1, <1>4, <2>1 DEF Call
  <2>3. c.step = step /\ c.walk = Candidates /\ c.skipped = out
    BY <1>4 DEF Call
  <2>4. Urls \subseteq {c.walk[i] : i \in DOMAIN c.walk} \cup c.asked \cup c.skipped
    BY <1>3, <2>3
  <2> HIDE DEF c
  <2> QED BY <1>1, <2>2, <2>3, <2>4 DEF WalkSound
<1>6. c.step = "probing" => \A s \in ClientThreads \ {t} : call[s].step # "probing"
  BY <1>4 DEF Call
<1> HIDE DEF c
<1> QED BY <1>2, <1>5, <1>6, WalkSteps

\* What is left of a walk when its first address was tried.
LEMMA WalkTail ==
  ASSUME NEW w \in Seq(Urls), w # <<>>, \A i, j \in DOMAIN w : w[i] = w[j] => i = j
  PROVE  /\ Head(w) \in Urls /\ Tail(w) \in Seq(Urls) /\ Len(w) \in Nat \ {0}
         /\ \A i, j \in DOMAIN Tail(w) : Tail(w)[i] = Tail(w)[j] => i = j
         /\ {w[i] : i \in DOMAIN w} = {Head(w)} \cup {Tail(w)[i] : i \in DOMAIN Tail(w)}
         /\ Len(w) = 1 <=> Tail(w) = <<>>
<1>1. /\ Head(w) = w[1] /\ DOMAIN w = 1..Len(w) /\ Len(w) \in Nat \ {0}
      /\ Tail(w) \in Seq(Urls) /\ Len(Tail(w)) = Len(w) - 1 /\ DOMAIN Tail(w) = 1..(Len(w) - 1)
      /\ \A i \in 1..(Len(w) - 1) : Tail(w)[i] = w[i + 1]
  OBVIOUS
<1>2. Head(w) \in Urls
  BY <1>1
<1>3. \A i, j \in DOMAIN Tail(w) : Tail(w)[i] = Tail(w)[j] => i = j
  BY <1>1
<1>4. {w[i] : i \in DOMAIN w} = {Head(w)} \cup {Tail(w)[i] : i \in DOMAIN Tail(w)}
  <2>1. ASSUME NEW i \in DOMAIN w PROVE w[i] = Head(w) \/ \E j \in DOMAIN Tail(w) : w[i] = Tail(w)[j]
    <3>1. i = 1 \/ (i - 1 \in DOMAIN Tail(w) /\ Tail(w)[i - 1] = w[i])
      BY <1>1
    <3> QED BY <1>1, <3>1
  <2>2. ASSUME NEW j \in DOMAIN Tail(w) PROVE \E i \in DOMAIN w : w[i] = Tail(w)[j]
    <3>1. j + 1 \in DOMAIN w /\ w[j + 1] = Tail(w)[j]
      BY <1>1
    <3> QED BY <3>1
  <2>3. 1 \in DOMAIN w
    BY <1>1
  <2> QED BY <1>1, <2>1, <2>2, <2>3
<1>5. Len(w) = 1 <=> Tail(w) = <<>>
  BY <1>1
<1> QED BY <1>1, <1>2, <1>3, <1>4, <1>5

LEMMA WalkMoves ==
  ASSUME AskInv, NEW t \in ClientThreads, call[t].walk # <<>>, NEW atEnd, NEW cut \in {0, 1},
         Moves(t, atEnd, cut),
         \/ call[t].step = "probing" /\ atEnd = "ready"
         \/ call[t].step \in {"pinging", "trying"} /\ atEnd = "failed"
  PROVE  /\ OneProbes' /\ call' = [s \in ClientThreads |-> call'[s]]
         /\ \A s \in ClientThreads : WalkSound(call'[s])
<1> DEFINE w == call[t].walk
           u == Head(w)
           step == IF Len(w) = 1 THEN atEnd ELSE call[t].step
           more == call[t].acted + cut
           cuts == call[t].cut + cut
           c == [call[t] EXCEPT !.walk = Tail(w), !.asked = call[t].asked \cup {u}, !.step = step,
                   !.acted = more, !.cut = cuts]
<1>1. call[t] \in Call /\ WalkSound(call[t])
  BY DEF AskInv, WalkSound
<1>2. /\ u \in Urls /\ Tail(w) \in Seq(Urls) /\ Len(w) \in Nat \ {0}
      /\ \A i, j \in DOMAIN Tail(w) : Tail(w)[i] = Tail(w)[j] => i = j
      /\ {w[i] : i \in DOMAIN w} = {u} \cup {Tail(w)[i] : i \in DOMAIN Tail(w)}
      /\ Len(w) = 1 <=> Tail(w) = <<>>
  <2>1. w \in Seq(Urls) /\ w # <<>> /\ \A i, j \in DOMAIN w : w[i] = w[j] => i = j
    BY <1>1 DEF WalkSound, Call
  <2> QED BY <2>1, WalkTail
<1>3. call' = [call EXCEPT ![t] = c]
  BY DEF AskInv, Moves
<1>0. more \in Nat /\ cuts \in Nat
  BY <1>1 DEF Call
<1> HIDE DEF more, cuts
<1>4. /\ c \in Call /\ c.walk = Tail(w) /\ c.asked = call[t].asked \cup {u} /\ c.step = step
      /\ c.skipped = call[t].skipped /\ c.method = call[t].method
  BY <1>0, <1>1, <1>2 DEF Call, CallSteps
<1>5. step \in {"probing", "pinging", "trying"} => Tail(w) # <<>> /\ step = call[t].step
  BY <1>2
<1>6. call[t].step \in {"pinging", "trying"} =>
        Urls \subseteq {Tail(w)[i] : i \in DOMAIN Tail(w)} \cup c.asked \cup c.skipped
  BY <1>1, <1>2, <1>4 DEF WalkSound
<1>7. step = "failed" => Tail(w) = <<>> /\ call[t].step \in {"pinging", "trying"}
  BY <1>2
<1>8. step = "failed" => Urls \subseteq c.asked \cup c.skipped
  BY <1>6, <1>7
<1>9. WalkSound(c)
  <2> HIDE DEF c, step, u, w
  <2>1. \A i, j \in DOMAIN c.walk : c.walk[i] = c.walk[j] => i = j
    BY <1>2, <1>4
  <2>2. c.step \in {"pinging", "trying"} =>
          Urls \subseteq {c.walk[i] : i \in DOMAIN c.walk} \cup c.asked \cup c.skipped
    BY <1>4, <1>5, <1>6
  <2> QED BY <1>4, <1>5, <1>8, <2>1, <2>2 DEF WalkSound
<1>10. c.step = "probing" => call[t].step = "probing"
  BY <1>4, <1>5
<1> HIDE DEF c
<1> QED BY <1>3, <1>9, <1>10, WalkSteps DEF AskInv, OneProbes

LEMMA WalkLeaves ==
  ASSUME AskInv, NEW t \in ClientThreads, call[t].walk # <<>>, NEW step \in {"ready", "answered", "failed"},
         NEW acted \in {0, 1}, Leaves(t, step, acted), step = "failed" => call[t].method # "GET"
  PROVE  /\ OneProbes' /\ call' = [s \in ClientThreads |-> call'[s]]
         /\ \A s \in ClientThreads : WalkSound(call'[s])
<1> DEFINE u == Head(call[t].walk)
           more == call[t].acted + (IF call[t].method = "GET" THEN 0 ELSE acted)
           c == [call[t] EXCEPT !.walk = <<>>, !.asked = call[t].asked \cup {u},
                   !.step = step, !.acted = more]
<1>1. call[t] \in Call
  BY DEF AskInv, WalkSound
<1>2. u \in Urls /\ more \in Nat
  BY <1>1 DEF Call
<1>3. call' = [call EXCEPT ![t] = c]
  BY DEF AskInv, Leaves
<1> HIDE DEF u, more
<1>4. WalkSound(c)
  <2>1. <<>> \in Seq(Urls) /\ DOMAIN <<>> = {}
    OBVIOUS
  <2>2. /\ c \in Call /\ c.walk = <<>> /\ c.step = step /\ c.method = call[t].method
        /\ c.asked = call[t].asked \cup {u}
    BY <1>1, <1>2, <2>1 DEF Call, CallSteps
  <2> HIDE DEF c
  <2> QED BY <2>1, <2>2 DEF WalkSound
<1>5. c.step # "probing"
  BY <1>1 DEF Call
<1> HIDE DEF c
<1> QED BY <1>3, <1>4, <1>5, WalkSteps

LEMMA WalkTimesOut ==
  ASSUME AskInv, NEW t \in ClientThreads, TimesOut(t)
  PROVE  /\ OneProbes' /\ call' = [s \in ClientThreads |-> call'[s]]
         /\ \A s \in ClientThreads : WalkSound(call'[s])
<1> DEFINE w == call[t].walk
           u == Head(w)
           more == IF answers[u] = "agent" /\ call[t].method # "GET" THEN call[t].acted + 1
                   ELSE call[t].acted
           step == IF Retries(t) /\ Len(w) > 1 THEN call[t].step ELSE "failed"
           walk == IF Retries(t) THEN Tail(w) ELSE <<>>
           c == [call[t] EXCEPT !.walk = walk, !.asked = call[t].asked \cup {u},
                   !.acted = more, !.step = step]
<1>1. /\ call[t] \in Call /\ WalkSound(call[t]) /\ call[t].step = "trying" /\ w # <<>>
      /\ Retries(t) <=> call[t].method = "GET"
  BY DEF AskInv, WalkSound, TimesOut, Trying, Retries
<1>2. /\ u \in Urls /\ Tail(w) \in Seq(Urls) /\ Len(w) \in Nat \ {0}
      /\ \A i, j \in DOMAIN Tail(w) : Tail(w)[i] = Tail(w)[j] => i = j
      /\ {w[i] : i \in DOMAIN w} = {u} \cup {Tail(w)[i] : i \in DOMAIN Tail(w)}
      /\ Len(w) = 1 <=> Tail(w) = <<>>
  <2>1. w \in Seq(Urls) /\ w # <<>> /\ \A i, j \in DOMAIN w : w[i] = w[j] => i = j
    BY <1>1 DEF WalkSound, Call
  <2> QED BY <2>1, WalkTail
<1>3. call' = [call EXCEPT ![t] = c]
  BY DEF AskInv, TimesOut
<1>4. more \in Nat /\ walk \in Seq(Urls) /\ step \in {"trying", "failed"}
  <2>1. call[t].acted \in Nat
    BY <1>1 DEF Call
  <2>2. more \in Nat
    BY <2>1
  <2>3. walk \in Seq(Urls) /\ step \in {"trying", "failed"}
    BY <1>1, <1>2
  <2> QED BY <2>2, <2>3
<1> HIDE DEF more
<1>5. /\ c \in Call /\ c.walk = walk /\ c.asked = call[t].asked \cup {u} /\ c.step = step
      /\ c.skipped = call[t].skipped /\ c.method = call[t].method
  BY <1>1, <1>2, <1>4 DEF Call, CallSteps
<1>6. Urls \subseteq {Tail(w)[i] : i \in DOMAIN Tail(w)} \cup c.asked \cup c.skipped
  BY <1>1, <1>2, <1>5 DEF WalkSound
<1>7. step = "trying" => walk = Tail(w) /\ walk # <<>>
  <2>1. step = "trying" => Retries(t) /\ Len(w) > 1
    <3> HIDE DEF c, u, w
    <3> QED OBVIOUS
  <2>2. Len(w) > 1 => Tail(w) # <<>>
    <3>1. w \in Seq(Urls) /\ w # <<>>
      BY <1>1 DEF Call
    <3> HIDE DEF c, u, w, step, walk
    <3>2. Len(w) \in Nat \ {0} /\ DOMAIN Tail(w) = 1..(Len(w) - 1)
      BY <3>1
    <3>3. DOMAIN <<>> = {}
      OBVIOUS
    <3>4. Len(w) > 1 => 1 \in DOMAIN Tail(w)
      BY <3>2
    <3> QED BY <3>3, <3>4
  <2> HIDE DEF c, u, w
  <2> QED BY <2>1, <2>2
<1>8. step = "failed" /\ c.method = "GET" => Urls \subseteq c.asked \cup c.skipped
  <2>1. step = "failed" /\ c.method = "GET" => Tail(w) = <<>>
    BY <1>1, <1>2, <1>5
  <2> QED BY <1>6, <2>1
<1>9. \A i, j \in DOMAIN walk : walk[i] = walk[j] => i = j
  BY <1>2
<1>10. WalkSound(c)
  <2> HIDE DEF c, step, walk, u, w
  <2>1. \A i, j \in DOMAIN c.walk : c.walk[i] = c.walk[j] => i = j
    BY <1>5, <1>9
  <2>2. c.step \in {"pinging", "trying"} =>
          Urls \subseteq {c.walk[i] : i \in DOMAIN c.walk} \cup c.asked \cup c.skipped
    BY <1>4, <1>5, <1>6, <1>7
  <2> QED BY <1>4, <1>5, <1>7, <1>8, <2>1, <2>2 DEF WalkSound
<1>11. c.step # "probing"
  BY <1>4, <1>5
<1> HIDE DEF c
<1> QED BY <1>3, <1>10, <1>11, WalkSteps

LEMMA WalkPings ==
  ASSUME AskInv, NEW t \in ClientThreads, Pings(t)
  PROVE  /\ OneProbes' /\ call' = [s \in ClientThreads |-> call'[s]]
         /\ \A s \in ClientThreads : WalkSound(call'[s])
<1>1. CASE Moves(t, "failed", 0)
  BY <1>1, WalkMoves DEF Pings
<1>2. CASE call' = [call EXCEPT ![t] = [NoCall EXCEPT !.step = "begun", !.method = "POST"]]
  <2>1. [NoCall EXCEPT !.step = "begun", !.method = "POST"].step # "probing"
    BY DEF NoCall
  <2> QED BY <1>2, <2>1, WalkNew, WalkSteps
<1> QED BY <1>1, <1>2 DEF Pings

LEMMA AskTypes ==
  ASSUME AskInv, NEW t \in ClientThreads, CallBegins(t) \/ CallGoesOn(t)
  PROVE  ClientTyped'
<1>1. call[t].walk # <<>> => Head(call[t].walk) \in Urls
  BY DEF AskInv, WalkSound, Call
<1>2. lost < MaxLost => lost + 1 \in 0..MaxLost
  BY NodeClientConstants DEF AskInv, ClientTyped
<1>3. CASE CallBegins(t) \/ EnsureActive(t) \/ CallWalks(t) \/ CallEnds(t)
  BY <1>3 DEF CallBegins, EnsureActive, CallWalks, CallEnds, AskInv, ClientTyped, AddressesKept
<1>4. CASE Probes(t)
  BY <1>1, <1>4 DEF Probes, MarkDead, AskInv, ClientTyped, AddressesKept
<1>5. CASE Pings(t)
  BY <1>1, <1>5 DEF Pings, MarkDead, MarkLive, AskInv, ClientTyped, AddressesKept
<1>6. CASE AgentAnswers(t)
  BY <1>1, <1>6 DEF AgentAnswers, Trying, MarkLive, AskInv, ClientTyped, AddressesKept
<1>7. CASE TimesOut(t)
  BY <1>1, <1>2, <1>7 DEF TimesOut, Trying, MarkDead, AskInv, ClientTyped, AddressesKept
<1>8. CASE ConnectFails(t)
  BY <1>1, <1>2, <1>8 DEF ConnectFails, Trying, MarkDead, AskInv, ClientTyped, AddressesKept
<1>9. CASE AnsweredByOther(t)
  BY <1>1, <1>9 DEF AnsweredByOther, Trying, MarkDead, AskInv, ClientTyped, AddressesKept
<1> QED BY <1>3, <1>4, <1>5, <1>6, <1>7, <1>8, <1>9 DEF CallGoesOn

LEMMA AskGoesSound ==
  ASSUME AskInv, NEW t \in ClientThreads, CallBegins(t) \/ CallGoesOn(t) PROVE AskInv'
<1> SUFFICES /\ OneProbes' /\ call' = [s \in ClientThreads |-> call'[s]]
             /\ \A s \in ClientThreads : WalkSound(call'[s])
  BY AskTypes DEF AskInv
<1>1. CASE CallBegins(t)
  <2>1. PICK m \in Methods : call' = [call EXCEPT ![t] = [NoCall EXCEPT !.step = "begun", !.method = m]]
    BY <1>1 DEF CallBegins
  <2>2. WalkSound([NoCall EXCEPT !.step = "begun", !.method = m])
        /\ [NoCall EXCEPT !.step = "begun", !.method = m].step # "probing"
    BY WalkNew, NodeClientConstants DEF NoCall
  <2> QED BY <2>1, <2>2, WalkSteps
<1>2. ASSUME CallGoes(t, "ready")
      PROVE  /\ OneProbes' /\ call' = [s \in ClientThreads |-> call'[s]]
             /\ \A s \in ClientThreads : WalkSound(call'[s])
  <2>1. call' = [call EXCEPT ![t] = [call[t] EXCEPT !.step = "ready"]]
    BY <1>2 DEF CallGoes, AskInv
  <2>2. WalkSound([call[t] EXCEPT !.step = "ready"])
    BY WalkGoes DEF AskInv
  <2>3. [call[t] EXCEPT !.step = "ready"].step # "probing"
    BY DEF AskInv, WalkSound, Call
  <2> QED BY <2>1, <2>2, <2>3, WalkSteps
<1>3. CASE EnsureActive(t)
  BY <1>2, <1>3, WalkStarts DEF EnsureActive
<1>4. CASE Probes(t)
  <2>1. call[t].step = "probing" /\ call[t].walk # <<>> /\ (Leaves(t, "ready", 0) \/ Moves(t, "ready", 0))
    BY <1>4 DEF Probes
  <2>2. CASE Leaves(t, "ready", 0)
    BY <2>1, <2>2, WalkLeaves
  <2>3. CASE Moves(t, "ready", 0)
    BY <2>1, <2>3, WalkMoves
  <2> QED BY <2>1, <2>2, <2>3
<1>5. CASE CallWalks(t)
  BY <1>5, WalkStarts DEF CallWalks
<1>6. CASE Pings(t)
  BY <1>6, WalkPings
<1>7. CASE AgentAnswers(t)
  BY <1>7, WalkLeaves DEF AgentAnswers, Trying
<1>8. CASE TimesOut(t)
  BY <1>8, WalkTimesOut
<1>9. CASE ConnectFails(t)
  <2>1. PICK cut \in {0, 1} : Moves(t, "failed", cut)
    BY <1>9 DEF ConnectFails
  <2> QED BY <1>9, <2>1, WalkMoves DEF ConnectFails, Trying
<1>10. CASE AnsweredByOther(t)
  BY <1>10, WalkLeaves, WalkMoves DEF AnsweredByOther, Trying, Retries
<1>11. CASE CallEnds(t)
  <2>1. NoCall.step # "probing"
    BY DEF NoCall
  <2> QED BY <1>11, <2>1, WalkNew, WalkSteps DEF CallEnds
<1> QED BY <1>1, <1>3, <1>4, <1>5, <1>6, <1>7, <1>8, <1>9, <1>10, <1>11 DEF CallGoesOn

LEMMA AskInvariant == AskInv /\ [NodeClientNext]_clientVars => AskInv'
<1>1. ASSUME AskInv, NEW u \in Urls, CooldownEnds(u) \/ AddressChanges(u) PROVE AskInv'
  <2>1. call' = call /\ active' = active /\ probed' = probed /\ lost' = lost /\ dead' \subseteq dead
    BY <1>1 DEF CooldownEnds, AddressChanges, AddressesKept
  <2>2. answers' \in [Urls -> Conditions] /\ flips' \in 0..MaxFlips
    BY <1>1, NodeClientConstants
    DEF CooldownEnds, AddressChanges, AddressesKept, AskInv, ClientTyped
  <2> QED BY <1>1, <2>1, <2>2 DEF AskInv, ClientTyped, OneProbes
<1>2. AskInv /\ UNCHANGED clientVars => AskInv'
  BY DEF clientVars, AskInv, ClientTyped, OneProbes
<1> QED BY <1>1, <1>2, AskGoesSound DEF NodeClientNext

LEMMA AskInitially == NodeClientInit => AskInv
<1> SUFFICES ASSUME NodeClientInit PROVE AskInv
  OBVIOUS
<1>1. 1 \in Urls /\ 0 \in 0..MaxFlips /\ 0 \in 0..MaxLost
  BY NodeClientConstants DEF Urls
<1>2. ClientTyped
  BY <1>1 DEF NodeClientInit, ClientTyped
<1>3. OneProbes
  BY DEF NodeClientInit, OneProbes, NoCall
<1>4. \A t \in ClientThreads : WalkSound(call[t])
  BY WalkNew DEF NodeClientInit
<1>5. call = [t \in ClientThreads |-> call[t]]
  BY DEF NodeClientInit
<1> QED BY <1>2, <1>3, <1>4, <1>5 DEF AskInv

\* A walk with no address twice is as long as what is left of it.
LEMMA AskTyped == AskInv => NodeClientTypeOK
<1> SUFFICES ASSUME AskInv, NEW t \in ClientThreads
             PROVE  Cardinality(Walked(t)) = Len(call[t].walk)
  BY DEF AskInv, ClientTyped, OneProbes, WalkSound, NodeClientTypeOK
<1> DEFINE w == call[t].walk
<1>1. w \in Seq(Urls) /\ \A i, j \in DOMAIN w : w[i] = w[j] => i = j
  BY DEF AskInv, WalkSound, Call
<1> HIDE DEF w
<1>2. w \in Bijection(1..Len(w), {w[i] : i \in DOMAIN w})
  BY <1>1 DEF Bijection, Injection, Surjection, IsInjective
<1>3. Len(w) \in Nat /\ IsFiniteSet(1..Len(w)) /\ Cardinality(1..Len(w)) = Len(w)
  <2>1. Len(w) \in Nat
    BY <1>1
  <2>2. Cardinality(1..Len(w)) = IF 1 > Len(w) THEN 0 ELSE Len(w) - 1 + 1
    BY <2>1, FS_Interval
  <2>3. Cardinality(1..Len(w)) = Len(w)
    BY <2>1, <2>2
  <2>4. IsFiniteSet(1..Len(w))
    BY <2>1, FS_Interval
  <2> QED BY <2>1, <2>3, <2>4
<1>4. Cardinality({w[i] : i \in DOMAIN w}) = Len(w)
  BY <1>2, <1>3, FS_Bijection DEF ExistsBijection
<1> QED BY <1>4 DEF w, Walked

\* The client for any number of threads and addresses: one thread probes and a
\* walk comes to no address twice.
THEOREM ClientKeepsTypes == NodeClientSpec => []NodeClientTypeOK
BY AskInitially, AskInvariant, AskTyped, PTL DEF NodeClientSpec

\* FailsAsked for any number of threads and addresses, and however what is at
\* them changes: no request fails without an attempt, and no read while there
\* is an address that was neither tried nor in its cooldown as the walk began.
THEOREM FailuresWereAsked == NodeClientSpec => []FailsAsked
<1>1. AskInv => FailsAsked
  <2> SUFFICES ASSUME AskInv, NEW t \in ClientThreads, call[t].step = "failed"
               PROVE  /\ call[t].asked # {}
                      /\ call[t].method = "GET" => call[t].asked \cup call[t].skipped = Urls
    BY DEF FailsAsked
  <2>1. WalkSound(call[t]) /\ call[t].asked \subseteq Urls /\ call[t].skipped \subseteq Urls
    BY DEF AskInv, WalkSound, Call
  <2> QED BY <2>1 DEF WalkSound
<1> QED BY AskInitially, AskInvariant, <1>1, PTL DEF NodeClientSpec

-----------------------------------------------------------------------------
(* The three side by side *)

\* A behaviour of the instances side by side is one of each model, so that what
\* is proved of a model holds in the run that checks it.
THEOREM PanelParts == PanelSpec => Spec /\ NodeClientSpec /\ PanelPowerSpec
<1>1. PanelInit => Init /\ NodeClientInit /\ PanelPowerInit
  BY DEF PanelInit
<1>2. [PanelNext]_panelVars => [Next]_vars /\ [NodeClientNext]_clientVars /\ [PanelPowerNext]_powerVars
  BY DEF PanelNext, panelVars
<1> QED BY <1>1, <1>2, PTL DEF PanelSpec, Spec, NodeClientSpec, PanelPowerSpec

\* The variables of all three keep their types.
THEOREM PanelTyped == PanelSpec => []PanelTypeOK
<1>1. TypeOK /\ NodeClientTypeOK /\ PanelPowerTypeOK => PanelTypeOK
  BY DEF PanelTypeOK
<1> QED BY <1>1, PanelParts, TypeCorrect, ClientKeepsTypes, OnePowerCall, PTL
=============================================================================
