----------------------------- MODULE PanelPower -----------------------------
(***************************************************************************)
(* What the panel asks of one server that exists and what it records about *)
(* it: power requests, single or as a part of a batch, changes of the      *)
(* image and of the startup command, and the rebuild that makes both.  The *)
(* node carries out each call as a whole (NodeAgent); the row and the      *)
(* server's own configuration file are written after it.                   *)
(***************************************************************************)
EXTENDS Integers

CONSTANTS
  Calls,      \* requests that one panel process serves at a time
  Asked,      \* bound: what the owner asks for
  MaxFaults   \* bound: calls and writes that fail

Powers == {"start", "restart", "stop", "kill"}
Changes == {"image", "startup", "rebuild"}
ASSUME PanelPowerConstants == MaxFaults \in Nat /\ Asked \subseteq Powers \cup Changes

VARIABLES
  running,   \* the container runs
  made,      \* the image and the startup command that it was made with
  desired,   \* panel_servers.desired_state
  shown,     \* panel_servers: runtime, version and image; startup
  written,   \* .container_config.json: last_state, image and startup
  serve,     \* the request that each call handles
  settled,   \* history: what was done last, when it met no other request and no fault
  faults

powerVars == <<running, made, desired, shown, written, serve, settled, faults>>

Choices == {"old", "new"}
Made == [image : Choices, startup : Choices]
ServeSteps == {"idle", "wanted", "calling", "acted", "recorded", "undo",
               "looked", "imaged", "started"}
Serve == [step : ServeSteps, ask : Powers \cup Changes, batch : BOOLEAN, choice : Choices,
          quiet : BOOLEAN]   \* history: it met no other request and no fault
NotServed == [step |-> "idle", ask |-> "start", batch |-> FALSE, choice |-> "old", quiet |-> TRUE]

\* One power call of a process is under way at a time.
PanelPowerTypeOK ==
  /\ running \in BOOLEAN /\ desired \in BOOLEAN /\ made \in Made /\ shown \in Made
  /\ written \in [state : BOOLEAN, image : Choices, startup : Choices]
  /\ serve \in [Calls -> Serve] /\ settled \in Powers \cup Changes \cup {"none"} /\ faults \in 0..MaxFaults
  /\ \A c, d \in Calls : serve[c].step = "calling" /\ serve[d].step = "calling" => c = d

PanelPowerInit ==
  /\ running = TRUE /\ desired = TRUE
  /\ made = [image |-> "old", startup |-> "old"] /\ shown = made
  /\ written = [state |-> TRUE, image |-> "old", startup |-> "old"]
  /\ serve = [c \in Calls |-> NotServed] /\ settled = "start" /\ faults = 0

-----------------------------------------------------------------------------
(* Helpers *)

Busy(d) == serve[d].step # "idle"
ServeOn(c, step) == serve' = [serve EXCEPT ![c].step = step]
\* A fault goes on with a step of its own.
ServeFaults(c, step) ==
  /\ faults < MaxFaults /\ faults' = faults + 1
  /\ serve' = [serve EXCEPT ![c].step = step, ![c].quiet = FALSE]
Served(c) ==
  /\ serve' = [serve EXCEPT ![c] = NotServed]
  /\ settled' = IF serve[c].quiet /\ \A d \in Calls \ {c} : ~Busy(d) THEN serve[c].ask ELSE "none"
\* The request is over, in an error.
ServedFaulty(c) ==
  /\ faults < MaxFaults /\ faults' = faults + 1
  /\ serve' = [serve EXCEPT ![c] = NotServed] /\ UNCHANGED settled
NodeKept == UNCHANGED <<running, made>>
\* A change that the node does not confirm: it did nothing, left the server down,
\* or did everything and its answer was lost.
Unconfirmed(what, choice) ==
  running' \in {running, FALSE} /\ made' \in {made, [made EXCEPT ![what] = choice]}
RecordKept == UNCHANGED <<desired, shown, written>>

-----------------------------------------------------------------------------
(* Power *)

PowerAsked(c) ==
  /\ serve[c].step = "idle"
  /\ \E ask \in Asked, batch \in BOOLEAN, choice \in Choices :
       /\ batch => ask \in {"start", "stop"}
       /\ ask \in Powers => choice = "old"
       /\ serve' = [d \in Calls |->
            IF d = c THEN [step |-> "wanted", ask |-> ask, batch |-> batch, choice |-> choice,
                           quiet |-> \A e \in Calls : ~Busy(e)]
            ELSE [serve[d] EXCEPT !.quiet = @ /\ ~Busy(d)]]
  /\ settled' = "none"
  /\ NodeKept /\ RecordKept /\ UNCHANGED faults

\* _server_locks: the lock of the server, for the node call alone.
PowerLocks(c) ==
  /\ serve[c].step = "wanted" /\ serve[c].ask \in Powers
  /\ \A d \in Calls : serve[d].step # "calling"
  /\ ServeOn(c, "calling")
  /\ NodeKept /\ RecordKept /\ UNCHANGED <<settled, faults>>

Runs(ask) == ask \in {"start", "restart"}
PowerActs(c) ==
  /\ serve[c].step = "calling"
  /\ running' = Runs(serve[c].ask) /\ ServeOn(c, "acted")
  /\ RecordKept /\ UNCHANGED <<made, settled, faults>>
\* The node refuses, or its answer is lost after it acted.
PowerFails(c) ==
  /\ serve[c].step = "calling"
  /\ running' \in {running, Runs(serve[c].ask)} /\ ServedFaulty(c)
  /\ RecordKept /\ UNCHANGED made

Recorded(ask) == ask \in {"start", "restart"}
\* update_server_state, and then update_container_config.
PowerRecords(c) ==
  /\ serve[c].step = "acted" /\ serve[c].ask \in Powers
  /\ desired' = Recorded(serve[c].ask) /\ ServeOn(c, "recorded")
  /\ NodeKept /\ UNCHANGED <<shown, written, settled, faults>>
\* Mutant: a batch leaves the configuration file alone.
PowerWritesSingle(c) ==
  /\ serve[c].step = "recorded" /\ serve[c].ask \in Powers
  /\ written' = [written EXCEPT !.state = IF serve[c].batch THEN @ ELSE Recorded(serve[c].ask)]
  /\ Served(c) /\ NodeKept /\ UNCHANGED <<desired, shown, faults>>
PowerWrites(c) ==
  /\ serve[c].step = "recorded" /\ serve[c].ask \in Powers
  /\ written' = [written EXCEPT !.state = Recorded(serve[c].ask)] /\ Served(c)
  /\ NodeKept /\ UNCHANGED <<desired, shown, faults>>
\* The UPDATE fails: a batch goes on, a single request turns back the node.
PowerUnrecorded(c) ==
  /\ serve[c].step = "acted" /\ serve[c].ask \in Powers
  /\ IF serve[c].batch THEN ServedFaulty(c) ELSE ServeFaults(c, "undo") /\ UNCHANGED settled
  /\ NodeKept /\ RecordKept
\* A file that is not written is only logged.
PowerUnwritten(c) ==
  /\ serve[c].step = "recorded" /\ serve[c].ask \in Powers /\ ServedFaulty(c)
  /\ NodeKept /\ RecordKept

\* The reverse action, outside the lock; its failure is only logged.
PowerUndoes(c) ==
  /\ serve[c].step = "undo"
  /\ running' = ~Runs(serve[c].ask) /\ Served(c)
  /\ RecordKept /\ UNCHANGED <<made, faults>>
PowerUndoFails(c) ==
  /\ serve[c].step = "undo" /\ ServedFaulty(c)
  /\ NodeKept /\ RecordKept

-----------------------------------------------------------------------------
(* Changes of the image and the startup command *)

\* update_image, update_startup: the container is made again and runs as before.
ChangeActs(c) ==
  /\ serve[c].step = "wanted" /\ serve[c].ask \in {"image", "startup"}
  /\ made' = [made EXCEPT ![serve[c].ask] = serve[c].choice] /\ ServeOn(c, "acted")
  /\ RecordKept /\ UNCHANGED <<running, settled, faults>>
ChangeRecords(c) ==
  /\ serve[c].step = "acted" /\ serve[c].ask \in {"image", "startup"}
  /\ shown' = [shown EXCEPT ![serve[c].ask] = serve[c].choice] /\ ServeOn(c, "recorded")
  /\ NodeKept /\ UNCHANGED <<desired, written, settled, faults>>
ChangeWrites(c) ==
  /\ serve[c].step = "recorded" /\ serve[c].ask \in {"image", "startup"}
  /\ written' = [written EXCEPT ![serve[c].ask] = serve[c].choice] /\ Served(c)
  /\ NodeKept /\ UNCHANGED <<desired, shown, faults>>
\* A call or an UPDATE that fails, as the answer says, or a file that is not written.
ChangeFails(c) ==
  /\ serve[c].ask \in {"image", "startup"} /\ serve[c].step \in {"wanted", "acted", "recorded"}
  /\ IF serve[c].step = "wanted" THEN Unconfirmed(serve[c].ask, serve[c].choice) ELSE NodeKept
  /\ ServedFaulty(c) /\ RecordKept

-----------------------------------------------------------------------------
(* Rebuild: none of its calls is under the lock *)

\* The answer has the state at `server.status`, where it is not looked for: the
\* server counts as stopped, running or not, and no stop is ever sent.
RebuildLooks(c) ==
  /\ serve[c].step = "wanted" /\ serve[c].ask = "rebuild"
  /\ ServeOn(c, "looked")
  /\ NodeKept /\ RecordKept /\ UNCHANGED <<settled, faults>>
\* As in ChangeActs, what runs is made again and runs.
RebuildImages(c) ==
  /\ serve[c].step = "looked"
  /\ made' = [made EXCEPT !.image = serve[c].choice] /\ ServeOn(c, "imaged")
  /\ RecordKept /\ UNCHANGED <<running, settled, faults>>
RebuildStartups(c) ==
  /\ serve[c].step = "imaged"
  /\ made' = [made EXCEPT !.startup = serve[c].choice] /\ ServeOn(c, "started")
  /\ RecordKept /\ UNCHANGED <<running, settled, faults>>
\* Two UPDATEs; the configuration file and the power state are left alone.
RebuildRecords(c) ==
  /\ serve[c].step = "started"
  /\ shown' = [image |-> serve[c].choice, startup |-> serve[c].choice] /\ Served(c)
  /\ NodeKept /\ UNCHANGED <<desired, written, faults>>
\* A call fails and what was done before stays done; so does an UPDATE.
RebuildFails(c) ==
  /\ \/ serve[c].step = "looked" /\ Unconfirmed("image", serve[c].choice) /\ UNCHANGED shown
     \/ serve[c].step = "imaged" /\ Unconfirmed("startup", serve[c].choice) /\ UNCHANGED shown
     \/ serve[c].step = "started" /\ NodeKept
        /\ shown' \in {shown, [shown EXCEPT !.image = serve[c].choice]}
  /\ ServedFaulty(c) /\ UNCHANGED <<desired, written>>

-----------------------------------------------------------------------------
PowerStep(c) ==
  \/ PowerLocks(c) \/ PowerActs(c) \/ PowerFails(c) \/ PowerRecords(c) \/ PowerWrites(c)
  \/ PowerUnrecorded(c) \/ PowerUnwritten(c) \/ PowerUndoes(c) \/ PowerUndoFails(c)
ChangeStep(c) == ChangeActs(c) \/ ChangeRecords(c) \/ ChangeWrites(c) \/ ChangeFails(c)
RebuildStep(c) ==
  \/ RebuildLooks(c) \/ RebuildImages(c) \/ RebuildStartups(c)
  \/ RebuildRecords(c) \/ RebuildFails(c)

PanelPowerNext == \E c \in Calls : PowerAsked(c) \/ PowerStep(c) \/ ChangeStep(c) \/ RebuildStep(c)
PanelPowerSpec == PanelPowerInit /\ [][PanelPowerNext]_powerVars

-----------------------------------------------------------------------------
(* Properties *)

\* Whatever earlier requests left behind, one request that meets no other and no
\* fault brings container, row and configuration file together: a power action
\* its state, a change what the container is made with.  A rebuild, which does
\* not write the file, brings container and row together.
PowerSettles ==
  /\ settled \in Powers =>
       running = Recorded(settled) /\ desired = running /\ written.state = running
  /\ settled = "rebuild" => shown = made
  /\ settled \in {"image", "startup"} =>
       shown[settled] = made[settled] /\ written[settled] = made[settled]

\* "Record intent only once the node accepted it, so a failed stop does not leave
\* the row claiming stopped while the container runs" (api_power).
StoppedIsStopped == (\A c \in Calls : ~Busy(c)) => ~(running /\ ~desired)
=============================================================================
