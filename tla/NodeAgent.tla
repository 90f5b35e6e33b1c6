----------------------------- MODULE NodeAgent -----------------------------
(***************************************************************************)
(* One node agent (src/node-agent): the waitress workers that serve its    *)
(* HTTP routes, the daemon threads that run dependency installs, the disk  *)
(* cleanup thread, the Docker daemon underneath and the data root on disk. *)
(*                                                                         *)
(* A worker takes one request at a time and its progress is its program    *)
(* counter.  Steps end where another worker, an install thread, the sweep  *)
(* or a crash can be observed in between: at a Docker call, at a file      *)
(* system change or at the acquisition of a per-server lock.  Reads made   *)
(* before the lock is taken are kept in the worker (`handle', `running').  *)
(***************************************************************************)
EXTENDS Integers, FiniteSets

CONSTANTS
  Servers,      \* server ids
  Threads,      \* waitress workers
  Jobs,         \* identities for install threads: bounds how many exist at once
  None,         \* nobody
  MaxInstalls,  \* NODE_MAX_CONCURRENT_INSTALLS
  MaxDelete,    \* the cap the panel sends with reconcile (max_delete)
  MaxCrashes,   \* bound: how often the agent process is killed
  Requests,     \* bound: the kinds of work the environment submits
  Faults,       \* bound: the outside calls that may fail
  ReuseIds      \* whether create may be called again with an id used before

Powers == {"start", "stop", "restart", "kill"}
RequestKinds ==
  Powers \cup {"create", "remove", "purge", "reinstall", "rebuild",
               "reconcile", "sweep"}
\* "drop": Docker refuses to remove a container; "wipe": a data directory
\* cannot be removed.
FaultKinds ==
  {"create", "spawn", "start", "install", "reap", "bot", "drop", "wipe"}

ASSUME CapacityAssumption == MaxInstalls \in Nat \ {0}
ASSUME NoneAssumption == None \notin Threads
ASSUME FiniteAssumption == IsFiniteSet(Threads) /\ IsFiniteSet(Jobs)
ASSUME BoundAssumption ==
  /\ MaxDelete \in Nat /\ MaxCrashes \in Nat
  /\ Requests \subseteq RequestKinds /\ Faults \subseteq FaultKinds
  /\ ReuseIds \in BOOLEAN

VARIABLES
  container,  \* Docker: state of the managed container of each server
  dir,        \* disk: whether the server's (non-empty) data directory exists
  used,       \* history: ids create_server has accepted
  install,    \* memory: _installs[id]["status"], "idle" when there is no entry
  saved,      \* disk: status in <id>.install.json, "idle" when there is no file
  slots,      \* memory: _install_slots, the free permits
  lock,       \* memory: owner of each per-server lock
  pc,         \* worker: the next step of its request
  srv,        \* worker: the server id of its request
  running,    \* worker: the container status it read before taking the lock
  handle,     \* worker: the container object it looked up is still the live one
  job,        \* install threads and the install container each one drives
  pass,       \* the reconcile pass in progress and what its snapshot holds
  sweep,      \* the disk cleanup sweep in progress and its directory snapshot
  up,         \* whether the agent process is alive
  crashes,    \* history: how often it was killed
  stuck,      \* history: servers whose create was rolled back with the warning
              \* that the container could not be removed
  condemned   \* history: servers without a container whose directory a
              \* reconcile pass set out to remove

docker == <<container, dir, used>>
state == <<install, saved>>
worker == <<pc, srv, running, handle>>
history == <<crashes, stuck, condemned>>
process == <<up, history>>
vars == <<docker, state, slots, lock, worker, job, pass, sweep, process>>

ContainerStates == {"absent", "created", "running", "restarting", "exited"}
InstallStates == {"idle", "running", "success", "failed"}

\* Steps that hold an install slot reserved by create_server.
SlotSteps == {"admitted", "seeded", "built", "undoContainer", "undoData"}
\* Steps taken while holding the lock of the worker's server.
LockedSteps ==
  {"reinstalling", "purging", "forgetting", "unlinking", "recreate", "restore"}
Steps == SlotSteps \cup LockedSteps \cup Powers \cup
         {"idle", "rebuild", "reconciling", "dropping", "clearing"}

\* spawned: thread started, no container yet.   building: container running.
\* reaped: its container was removed under it.  leftover: container only, the
\* process that started it is gone.  success/failed: slot returned, the final
\* state still to be written.
Phases == {"none", "spawned", "building", "reaped", "leftover",
           "success", "failed"}
SlotPhases == {"spawned", "building", "reaped"}
LivePhases == {"building", "leftover"}

NoPass == [by |-> None, orphans |-> {}, files |-> {}, dirs |-> {}]
NoSweep == [on |-> FALSE, dirs |-> {}]

TypeOK ==
  /\ container \in [Servers -> ContainerStates]
  /\ dir \in [Servers -> BOOLEAN]
  /\ used \in SUBSET Servers
  /\ install \in [Servers -> InstallStates]
  /\ saved \in [Servers -> InstallStates]
  /\ slots \in 0..MaxInstalls
  /\ lock \in [Servers -> Threads \cup {None}]
  /\ pc \in [Threads -> Steps]
  /\ srv \in [Threads -> Servers]
  /\ running \in [Threads -> BOOLEAN]
  /\ handle \in [Threads -> BOOLEAN]
  /\ job \in [Jobs -> [phase : Phases, srv : Servers]]
  /\ pass \in [by : Threads \cup {None}, orphans : SUBSET Servers,
               files : SUBSET Servers, dirs : SUBSET Servers]
  /\ sweep \in [on : BOOLEAN, dirs : SUBSET Servers]
  /\ up \in BOOLEAN
  /\ crashes \in 0..MaxCrashes
  /\ stuck \subseteq Servers /\ condemned \subseteq Servers

\* A node that already hosts any of the servers, none of them installing.
Init ==
  \E hosted \in SUBSET Servers, s0 \in Servers :
    /\ container = [s \in Servers |->
                      IF s \in hosted THEN "created" ELSE "absent"]
    /\ dir = [s \in Servers |-> s \in hosted]
    /\ used = hosted
    /\ install = [s \in Servers |->
                    IF s \in hosted THEN "success" ELSE "idle"]
    /\ saved = install
    /\ slots = MaxInstalls
    /\ lock = [s \in Servers |-> None]
    /\ pc = [t \in Threads |-> "idle"]
    /\ srv = [t \in Threads |-> s0]
    /\ running = [t \in Threads |-> FALSE]
    /\ handle = [t \in Threads |-> FALSE]
    /\ job = [j \in Jobs |-> [phase |-> "none", srv |-> s0]]
    /\ pass = NoPass
    /\ sweep = NoSweep
    /\ up = TRUE
    /\ crashes = 0
    /\ stuck = {} /\ condemned = {}

-----------------------------------------------------------------------------
(* Helpers *)

Free(s) == lock[s] = None
Unlock(s) == lock' = [lock EXCEPT ![s] = None]
Goto(t, step) == pc' = [pc EXCEPT ![t] = step]
\* A worker that is removing on behalf of a reconcile pass goes on with it.
Return(t) == Goto(t, IF pass.by = t THEN "reconciling" ELSE "idle")

\* Mutant: the state file is written, the memory is not.
SetFileOnly(s, status) ==
  saved' = [saved EXCEPT ![s] = status] /\ UNCHANGED install
\* _set_install_state writes memory and file as one under _state_lock.
SetInstall(s, status) ==
  /\ install' = [install EXCEPT ![s] = status]
  /\ saved' = [saved EXCEPT ![s] = status]

\* The containers of ss are gone: every object looked up for them is dead.
Forsake(ss) == handle' = [t \in Threads |-> handle[t] /\ srv[t] \notin ss]
SetPhase(j, phase) == job' = [job EXCEPT ![j].phase = phase]
\* Mutant: a permit is taken although none is left.
ReserveUnchecked == slots' = slots - 1
\* _reserve_install_slot and _release_install_slot on a BoundedSemaphore:
\* acquire never waits, and a release too many is swallowed.
Reserve == slots > 0 /\ slots' = slots - 1
Released == IF slots < MaxInstalls THEN slots + 1 ELSE slots
\* Install containers removed under the threads (if any) that drive them.
Reaped(phase) ==
  CASE phase = "building" -> "reaped"
    [] phase = "leftover" -> "none"
    [] OTHER -> phase
Reap(js) ==
  job' = [j \in Jobs |->
            IF j \in js
            THEN [phase |-> Reaped(job[j].phase), srv |-> job[j].srv]
            ELSE job[j]]
\* Each of them that Docker agrees to remove.
ReapInstalls == \E js \in SUBSET Jobs : (js = Jobs \/ "reap" \in Faults) /\ Reap(js)

\* Docker stops the container, if it is in one of these states, and then
\* refuses to remove it.
Refused(s, stopped) ==
  /\ "drop" \in Faults
  /\ Free(s)
  /\ container[s] # "absent"
  /\ container' = [container EXCEPT ![s] = IF @ \in stopped THEN "exited" ELSE @]

\* Mutant: the running install is not looked for.
InstallNeverSeen(s) == FALSE
Installing(s) == install[s] = "running"

\* An idle worker of a live process takes a request of this kind.
Accept(t, kind) == up /\ kind \in Requests /\ pc[t] = "idle"

-----------------------------------------------------------------------------
(* create_server: no server lock, a slot reserved before anything exists *)

CreateAdmit(t, s) ==
  /\ Accept(t, "create")
  /\ ReuseIds \/ s \notin used
  /\ container[s] = "absent" /\ ~dir[s]
  /\ Reserve
  /\ used' = used \cup {s}
  /\ srv' = [srv EXCEPT ![t] = s]
  /\ handle' = [handle EXCEPT ![t] = FALSE]
  /\ Goto(t, "admitted")
  /\ UNCHANGED <<container, dir, state, lock, running, job, pass, sweep, process>>

\* mkdir, _seed_files (which leaves a non-empty directory as it is), chown.
CreateSeed(t) ==
  /\ pc[t] = "admitted"
  /\ dir' = [dir EXCEPT ![srv[t]] = TRUE]
  /\ Goto(t, "seeded")
  /\ UNCHANGED <<container, used, state, slots, lock, srv, running, handle, job,
                 pass, sweep, process>>

CreateContainer(t) ==
  /\ pc[t] = "seeded"
  /\ container[srv[t]] = "absent"
  /\ container' = [container EXCEPT ![srv[t]] = "created"]
  /\ handle' = [handle EXCEPT ![t] = TRUE]
  /\ Goto(t, "built")
  /\ UNCHANGED <<dir, used, state, slots, lock, srv, running, job, pass, sweep,
                 process>>

\* The pull or the create failed, or the container name is already taken.
CreateContainerFails(t) ==
  /\ pc[t] = "seeded"
  /\ container[srv[t]] # "absent" \/ "create" \in Faults
  /\ Goto(t, "undoData")
  /\ UNCHANGED <<docker, state, slots, lock, srv, running, handle, job, pass,
                 sweep, process>>

\* Mutant: the rollback leaves the container although nothing went wrong.
UndoContainerSkipped(t) ==
  /\ pc[t] = "undoContainer"
  /\ Goto(t, "undoData")
  /\ UNCHANGED <<docker, state, slots, lock, srv, running, handle, job, pass,
                 sweep, process>>
UndoContainer(t) ==
  /\ pc[t] = "undoContainer"
  /\ \/ /\ handle[t]
        /\ container' = [container EXCEPT ![srv[t]] = "absent"]
        /\ Forsake({srv[t]})
        /\ UNCHANGED stuck
     \/ /\ ~handle[t] \/ "drop" \in Faults
        /\ stuck' = stuck \cup {srv[t]}
        /\ UNCHANGED <<container, handle>>
  /\ Goto(t, "undoData")
  /\ UNCHANGED <<dir, used, state, slots, lock, srv, running, job, pass, sweep,
                 up, crashes, condemned>>

\* Removes the directory whoever uses it, unless that fails, and hands the slot
\* back.
UndoData(t) ==
  /\ pc[t] = "undoData"
  /\ \/ dir' = [dir EXCEPT ![srv[t]] = FALSE]
     \/ "wipe" \in Faults /\ UNCHANGED dir
  /\ slots' = Released
  /\ Goto(t, "idle")
  /\ UNCHANGED <<container, used, state, lock, srv, running, handle, job, pass,
                 sweep, process>>

-----------------------------------------------------------------------------
(* start_install, the tail of create_server and of reinstall *)

ReinstallCheck(t, s) ==
  /\ Accept(t, "reinstall")
  /\ Free(s)
  /\ container[s] \notin {"absent", "running"}
  /\ ~Installing(s)
  /\ lock' = [lock EXCEPT ![s] = t]
  /\ srv' = [srv EXCEPT ![t] = s]
  /\ Goto(t, "reinstalling")
  /\ UNCHANGED <<docker, state, slots, running, handle, job, pass, sweep, process>>

\* start_install as create_server calls it (slot already reserved, lock taken
\* inside) and as reinstall calls it (lock held, slot reserved inside).
ForCreate(t) == pc[t] = "built" /\ Free(srv[t])
ForReinstall(t) == pc[t] = "reinstalling"

InstallSpawned(t, j) ==
  LET s == srv[t] IN
  /\ ~Installing(s)
  /\ \/ ForCreate(t) /\ UNCHANGED <<slots, lock>>
     \/ ForReinstall(t) /\ Reserve /\ Unlock(s)
  /\ job[j].phase = "none"
  /\ job' = [job EXCEPT ![j] = [phase |-> "spawned", srv |-> s]]
  /\ SetInstall(s, "running")
  /\ Goto(t, "idle")
  /\ UNCHANGED <<docker, srv, running, handle, pass, sweep, process>>

\* Mutant: a thread that does not start keeps its slot.
InstallNotSpawnedLeaks(t) ==
  /\ "spawn" \in Faults /\ ~Installing(srv[t])
  /\ ForReinstall(t) /\ Reserve /\ Goto(t, "idle") /\ Unlock(srv[t])
  /\ SetInstall(srv[t], "failed")
  /\ UNCHANGED <<docker, srv, running, handle, job, pass, sweep, process>>
\* The thread could not be started: the slot goes back (create_server's own
\* rollback returns the one it reserved) and the state becomes failed.
InstallNotSpawned(t) ==
  LET s == srv[t] IN
  /\ "spawn" \in Faults
  /\ ~Installing(s)
  /\ \/ ForCreate(t) /\ Goto(t, "undoContainer") /\ UNCHANGED lock
     \/ ForReinstall(t) /\ slots > 0 /\ Goto(t, "idle") /\ Unlock(s)
  /\ SetInstall(s, "failed")
  /\ UNCHANGED <<docker, slots, srv, running, handle, job, pass, sweep, process>>

\* An install is already in progress, or (reinstall) every slot is taken.
InstallRefused(t) ==
  LET s == srv[t] IN
  /\ \/ ForCreate(t) /\ Installing(s) /\ Goto(t, "undoContainer")
        /\ UNCHANGED lock
     \/ ForReinstall(t) /\ (Installing(s) \/ slots = 0)
        /\ Goto(t, "idle") /\ Unlock(s)
  /\ UNCHANGED <<docker, state, slots, srv, running, handle, job, pass, sweep,
                 process>>

-----------------------------------------------------------------------------
(* _run_install on its own thread *)

JobBegins(j) ==
  /\ up /\ job[j].phase = "spawned"
  /\ dir[job[j].srv]
  /\ SetPhase(j, "building")
  /\ UNCHANGED <<docker, state, slots, lock, worker, pass, sweep, process>>

\* No data directory, or Docker refused the install container.
JobCannotBegin(j) ==
  /\ up /\ job[j].phase = "spawned"
  /\ ~dir[job[j].srv] \/ "install" \in Faults
  /\ SetPhase(j, "failed")
  /\ slots' = Released
  /\ UNCHANGED <<docker, state, lock, worker, pass, sweep, process>>

\* Exit status or the 900 s timeout; the container is removed, then the slot
\* handed back.  A container reaped under the thread ends in an exception.
JobEnds(j) ==
  /\ up
  /\ \/ job[j].phase = "building" /\ SetPhase(j, "success")
     \/ job[j].phase \in {"building", "reaped"} /\ SetPhase(j, "failed")
  /\ slots' = Released
  /\ UNCHANGED <<docker, state, lock, worker, pass, sweep, process>>

\* The final state, written whatever became of the server meanwhile.
JobReports(j) ==
  /\ up /\ job[j].phase \in {"success", "failed"}
  /\ SetInstall(job[j].srv, job[j].phase)
  /\ SetPhase(j, "none")
  /\ UNCHANGED <<docker, slots, lock, worker, pass, sweep, process>>

-----------------------------------------------------------------------------
(* power: the container is looked up before the lock and reloaded under it *)

PowerLookup(t, s, action) ==
  /\ Accept(t, action) /\ action \in Powers
  /\ container[s] # "absent"
  /\ srv' = [srv EXCEPT ![t] = s]
  /\ handle' = [handle EXCEPT ![t] = TRUE]
  /\ Goto(t, action)
  /\ UNCHANGED <<docker, state, slots, lock, running, job, pass, sweep, process>>

Startable(s) == install[s] \notin {"running", "failed"}

\* What Docker does to the container; `start' asks the install state first.
PowerApply(t) ==
  LET s == srv[t] IN
  /\ pc[t] \in Powers /\ Free(s)
  /\ handle[t]
  /\ \/ pc[t] = "start" /\ Startable(s)
        /\ container' = [container EXCEPT ![s] = "running"]
     \/ pc[t] = "restart" /\ container' = [container EXCEPT ![s] = "running"]
     \/ /\ pc[t] \in {"stop", "kill"}
        /\ container' = [container EXCEPT ![s] =
                           IF @ = "created" THEN @ ELSE "exited"]
  /\ Goto(t, "idle")
  /\ UNCHANGED <<dir, used, state, slots, lock, srv, running, handle, job, pass,
                 sweep, process>>

\* The object was replaced or removed; start during or after a failed install,
\* without its package.json; a Docker error.
PowerRefused(t) ==
  LET s == srv[t] IN
  /\ pc[t] \in Powers /\ Free(s)
  /\ \/ ~handle[t]
     \/ pc[t] = "start" /\ ~Startable(s)
     \/ "start" \in Faults /\ pc[t] \in {"start", "restart"}
  /\ Goto(t, "idle")
  /\ UNCHANGED <<docker, state, slots, lock, srv, running, handle, job, pass,
                 sweep, process>>

-----------------------------------------------------------------------------
(* update_startup, update_version and _rebuild *)

\* Read before the lock: whether to start the replacement.  (A running server
\* whose configuration would not change returns here without a rebuild.)
RebuildLookup(t, s) ==
  /\ Accept(t, "rebuild")
  /\ container[s] # "absent"
  /\ srv' = [srv EXCEPT ![t] = s]
  /\ running' = [running EXCEPT ![t] = container[s] = "running"]
  /\ Goto(t, "rebuild")
  /\ UNCHANGED <<docker, state, slots, lock, handle, job, pass, sweep, process>>

RebuildRemove(t) ==
  LET s == srv[t] IN
  /\ pc[t] = "rebuild" /\ Free(s)
  /\ container[s] # "absent"
  /\ container' = [container EXCEPT ![s] = "absent"]
  /\ Forsake({s})
  /\ lock' = [lock EXCEPT ![s] = t]
  /\ Goto(t, "recreate")
  /\ UNCHANGED <<dir, used, state, slots, srv, running, job, pass, sweep, process>>

RebuildNotFound(t) ==
  /\ pc[t] = "rebuild" /\ Free(srv[t])
  /\ container[srv[t]] = "absent"
  /\ Goto(t, "idle")
  /\ UNCHANGED <<docker, state, slots, lock, srv, running, handle, job, pass,
                 sweep, process>>

\* The container of the server is stopped and stays.
RebuildCannotRemove(t) ==
  /\ pc[t] = "rebuild"
  /\ Refused(srv[t], {"running"})
  /\ Goto(t, "idle")
  /\ UNCHANGED <<dir, used, state, slots, lock, srv, running, handle, job, pass,
                 sweep, process>>

\* What runtime.create and, when asked, start can leave behind.
Built(t) ==
  IF running[t]
  THEN {"running"} \cup (IF "start" \in Faults THEN {"created"} ELSE {})
  ELSE {"created"}
CannotCreate(s) == container[s] # "absent" \/ "create" \in Faults

RebuildCreate(t) ==
  LET s == srv[t] IN
  /\ pc[t] = "recreate"
  /\ container[s] = "absent"
  /\ \E status \in Built(t) : container' = [container EXCEPT ![s] = status]
  /\ Unlock(s)
  /\ Goto(t, "idle")
  /\ UNCHANGED <<dir, used, state, slots, srv, running, handle, job, pass, sweep,
                 process>>

RebuildCreateFails(t) ==
  /\ pc[t] = "recreate"
  /\ CannotCreate(srv[t])
  /\ Goto(t, "restore")
  /\ UNCHANGED <<docker, state, slots, lock, srv, running, handle, job, pass,
                 sweep, process>>

\* _restore_container; a restored container that does not start counts as a
\* failed restore.
RestoreContainer(t) ==
  LET s == srv[t] IN
  /\ pc[t] = "restore"
  /\ container[s] = "absent"
  /\ \E status \in Built(t) :
       /\ container' = [container EXCEPT ![s] = status]
       /\ IF running[t] /\ status = "created"
          THEN SetInstall(s, "failed")
          ELSE UNCHANGED state
  /\ Unlock(s)
  /\ Goto(t, "idle")
  /\ UNCHANGED <<dir, used, slots, srv, running, handle, job, pass, sweep, process>>

\* Mutant: the loss of the container is not recorded.
RestoreFailsSilently(t) ==
  /\ pc[t] = "restore" /\ CannotCreate(srv[t])
  /\ Unlock(srv[t])
  /\ Goto(t, "idle")
  /\ UNCHANGED <<docker, state, slots, srv, running, handle, job, pass, sweep,
                 process>>
RestoreFails(t) ==
  LET s == srv[t] IN
  /\ pc[t] = "restore"
  /\ CannotCreate(s)
  /\ SetInstall(s, "failed")
  /\ Unlock(s)
  /\ Goto(t, "idle")
  /\ UNCHANGED <<docker, slots, srv, running, handle, job, pass, sweep, process>>

-----------------------------------------------------------------------------
(* remove: stop, remove, purge the data, forget the install state *)

\* `next' is "purging" for purge=True and "forgetting" otherwise.
TakeDown(t, s, next) ==
  /\ Free(s)
  /\ container[s] # "absent"
  /\ container' = [container EXCEPT ![s] = "absent"]
  /\ Forsake({s})
  /\ lock' = [lock EXCEPT ![s] = t]
  /\ srv' = [srv EXCEPT ![t] = s]
  /\ Goto(t, next)
  /\ UNCHANGED <<dir, used, state, slots, running, job, sweep, process>>

RemoveContainer(t, s) ==
  /\ \/ Accept(t, "purge") /\ TakeDown(t, s, "purging")
     \/ Accept(t, "remove") /\ TakeDown(t, s, "forgetting")
  /\ UNCHANGED pass

\* The container stays, stopped, and so does everything else of the server.
RemoveRefused(t, s) ==
  /\ Accept(t, "purge") \/ Accept(t, "remove")
  /\ Refused(s, {"running", "restarting"})
  /\ UNCHANGED <<dir, used, state, slots, lock, worker, job, pass, sweep, process>>

RemoveData(t) ==
  /\ pc[t] = "purging"
  /\ dir' = [dir EXCEPT ![srv[t]] = FALSE]
  /\ Goto(t, "forgetting")
  /\ UNCHANGED <<container, used, state, slots, lock, srv, running, handle, job,
                 pass, sweep, process>>

\* The directory stays, and with it the install state of a server that has no
\* container any more.
RemoveDataFails(t) ==
  /\ pc[t] = "purging" /\ "wipe" \in Faults
  /\ Unlock(srv[t])
  /\ Return(t)
  /\ UNCHANGED <<docker, state, slots, srv, running, handle, job, pass, sweep,
                 process>>

\* _forget_install_state pops the entry under _state_lock ...
ForgetMemory(t) ==
  /\ pc[t] = "forgetting"
  /\ install' = [install EXCEPT ![srv[t]] = "idle"]
  /\ Goto(t, "unlinking")
  /\ UNCHANGED <<docker, saved, slots, lock, srv, running, handle, job, pass,
                 sweep, process>>

\* ... and unlinks the file after releasing it.
ForgetFile(t) ==
  LET s == srv[t] IN
  /\ pc[t] \in {"unlinking", "dropping"}
  /\ saved' = [saved EXCEPT ![s] = "idle"]
  /\ IF pc[t] = "unlinking" THEN Unlock(s) ELSE UNCHANGED lock
  /\ Return(t)
  /\ UNCHANGED <<docker, install, slots, srv, running, handle, job, pass, sweep,
                 process>>

-----------------------------------------------------------------------------
(* reconcile: a snapshot, then removals from the snapshot, without a lock *)

\* Mutant: a list over the cap removes nothing.
AllOrNothing(n, S) == {IF Cardinality(S) <= n THEN S ELSE {}}
\* The first n of a list in no particular order: all of S when it is no larger.
UpTo(n, S) ==
  {T \in SUBSET S : Cardinality(T) <= n /\ (T # S => Cardinality(T) = n)}

\* `known' and `protected' are the lists the panel sent.  An empty allowlist is
\* refused; max_delete caps containers first, directories with what is left.
ReconcileSnapshot(t, known, protected) ==
  LET orphans == {s \in Servers \ (known \cup protected) : container[s] # "absent"}
      gone == {s \in Servers \ (known \cup protected) : container[s] = "absent"}
      files == {s \in gone : saved[s] # "idle"}
      dirs == {s \in gone : dir[s]}
  IN
  /\ Accept(t, "reconcile") /\ pass = NoPass
  /\ orphans \cup files \cup dirs # {}
  /\ known # {} \/ orphans \cup dirs = {}
  /\ \E os \in UpTo(MaxDelete, orphans) :
     \E ds \in UpTo(MaxDelete - Cardinality(os), dirs) :
       /\ pass' = [by |-> t, orphans |-> os, files |-> files, dirs |-> ds]
       /\ condemned' = condemned \cup ds
  /\ Goto(t, "reconciling")
  /\ UNCHANGED <<docker, state, slots, lock, srv, running, handle, job, sweep,
                 up, crashes, stuck>>

ReconcileRemove(t, s) ==
  /\ pc[t] = "reconciling" /\ s \in pass.orphans
  /\ TakeDown(t, s, "purging")
  /\ pass' = [pass EXCEPT !.orphans = @ \ {s}]

\* Any other exception: a warning, and the pass goes on with the next one.
ReconcileGivesUp(t, s) ==
  /\ pc[t] = "reconciling" /\ s \in pass.orphans
  /\ Refused(s, {"running", "restarting"})
  /\ pass' = [pass EXCEPT !.orphans = @ \ {s}]
  /\ UNCHANGED <<dir, used, state, slots, lock, worker, job, sweep, process>>

\* ServerNotFoundError, or a state file that had no container to begin with.
ReconcileForget(t, s) ==
  /\ pc[t] = "reconciling"
  /\ \/ /\ s \in pass.orphans /\ Free(s) /\ container[s] = "absent"
        /\ pass' = [pass EXCEPT !.orphans = @ \ {s}]
     \/ /\ pass.orphans = {} /\ s \in pass.files
        /\ pass' = [pass EXCEPT !.files = @ \ {s}]
  /\ install' = [install EXCEPT ![s] = "idle"]
  /\ srv' = [srv EXCEPT ![t] = s]
  /\ Goto(t, "dropping")
  /\ UNCHANGED <<docker, saved, slots, lock, running, handle, job, sweep, process>>

\* Install containers carry no server id: every one that can be is removed.
\* Then the directories of the snapshot go, and the pass ends.
ReconcileReap(t) ==
  /\ pc[t] = "reconciling"
  /\ pass.orphans = {} /\ pass.files = {}
  /\ ReapInstalls
  /\ Goto(t, "clearing")
  /\ UNCHANGED <<docker, state, slots, lock, srv, running, handle, pass, sweep,
                 process>>

ReconcileDir(t, s) ==
  /\ pc[t] = "clearing" /\ s \in pass.dirs
  /\ \/ dir' = [dir EXCEPT ![s] = FALSE]
     \/ "wipe" \in Faults /\ UNCHANGED dir
  /\ pass' = [pass EXCEPT !.dirs = @ \ {s}]
  /\ UNCHANGED <<container, used, state, slots, lock, worker, job, sweep, process>>

ReconcileEnds(t) ==
  /\ pc[t] = "clearing" /\ pass.dirs = {}
  /\ pass' = NoPass
  /\ Goto(t, "idle")
  /\ UNCHANGED <<docker, state, slots, lock, srv, running, handle, job, sweep,
                 process>>

-----------------------------------------------------------------------------
(* disk_cleanup._clean_orphan_containers: directories first, then containers *)

SweepDirs ==
  /\ up /\ "sweep" \in Requests /\ ~sweep.on
  /\ sweep' = [on |-> TRUE, dirs |-> {s \in Servers : dir[s]}]
  /\ UNCHANGED <<docker, state, slots, lock, worker, job, pass, process>>

SweepContainers ==
  /\ up /\ sweep.on
  /\ \E kept \in SUBSET Servers :
       /\ sweep.dirs \subseteq kept
       /\ kept = sweep.dirs \/ "drop" \in Faults
       /\ container' = [s \in Servers |->
                          IF s \in kept THEN container[s] ELSE "absent"]
       /\ Forsake(Servers \ kept)
  /\ ReapInstalls
  /\ sweep' = NoSweep
  /\ UNCHANGED <<dir, used, state, slots, lock, pc, srv, running, pass, process>>

-----------------------------------------------------------------------------
(* Docker on its own, and the agent process *)

\* The bot's process ends by itself, or crashes and is restarted on failure.
BotExits(s) ==
  /\ \/ container[s] = "running" /\ container' = [container EXCEPT ![s] = "exited"]
     \/ /\ "bot" \in Faults /\ container[s] = "running"
        /\ container' = [container EXCEPT ![s] = "restarting"]
     \/ container[s] = "restarting" /\ container' = [container EXCEPT ![s] = "running"]
  /\ UNCHANGED <<dir, used, state, slots, lock, worker, job, pass, sweep, process>>

\* The agent is killed: containers, directories and files survive.
Orphaned(phase) == IF phase \in LivePhases THEN "leftover" ELSE "none"
Crash ==
  /\ up /\ crashes < MaxCrashes
  /\ up' = FALSE /\ crashes' = crashes + 1
  /\ install' = [s \in Servers |-> "idle"]
  /\ slots' = MaxInstalls
  /\ lock' = [s \in Servers |-> None]
  /\ pc' = [t \in Threads |-> "idle"]
  /\ running' = [t \in Threads |-> FALSE]
  /\ handle' = [t \in Threads |-> FALSE]
  /\ job' = [j \in Jobs |->
               [phase |-> Orphaned(job[j].phase), srv |-> job[j].srv]]
  /\ pass' = NoPass
  /\ sweep' = NoSweep
  /\ UNCHANGED <<docker, saved, srv, stuck, condemned>>

\* Mutant: `running' is loaded as it was saved.
InterruptedKept(status) == status
\* ServerManager.__init__: reap what install containers can be removed, then
\* load the state files with `running' turned into `failed'.
Interrupted(status) == IF status = "running" THEN "failed" ELSE status
\* Mutant: no install container is reaped at startup.
StartupReapSkipped == UNCHANGED job
StartupReap == ReapInstalls
Restart ==
  /\ ~up
  /\ up' = TRUE
  /\ StartupReap
  /\ saved' = [s \in Servers |-> Interrupted(saved[s])]
  /\ install' = saved'
  /\ UNCHANGED <<docker, slots, lock, worker, pass, sweep, history>>

-----------------------------------------------------------------------------
Request(t, s) ==
  \/ CreateAdmit(t, s)
  \/ ReinstallCheck(t, s)
  \/ \E action \in Powers : PowerLookup(t, s, action)
  \/ RebuildLookup(t, s)
  \/ RemoveContainer(t, s) \/ RemoveRefused(t, s)

\* What a worker does to finish the request it has taken.
Handler(t) ==
  \/ CreateSeed(t) \/ CreateContainer(t) \/ CreateContainerFails(t)
  \/ UndoContainer(t) \/ UndoData(t)
  \/ \E j \in Jobs : InstallSpawned(t, j)
  \/ InstallNotSpawned(t) \/ InstallRefused(t)
  \/ PowerApply(t) \/ PowerRefused(t)
  \/ RebuildRemove(t) \/ RebuildNotFound(t) \/ RebuildCannotRemove(t)
  \/ RebuildCreate(t) \/ RebuildCreateFails(t)
  \/ RestoreContainer(t) \/ RestoreFails(t)
  \/ RemoveData(t) \/ RemoveDataFails(t) \/ ForgetMemory(t) \/ ForgetFile(t)
  \/ \E s \in Servers : \/ ReconcileRemove(t, s) \/ ReconcileGivesUp(t, s)
                        \/ ReconcileForget(t, s) \/ ReconcileDir(t, s)
  \/ ReconcileReap(t) \/ ReconcileEnds(t)

Job(j) == JobBegins(j) \/ JobCannotBegin(j) \/ JobEnds(j) \/ JobReports(j)

Reconcile(t) ==
  \E known, protected \in SUBSET Servers : ReconcileSnapshot(t, known, protected)

Next ==
  \/ \E t \in Threads : Handler(t) \/ Reconcile(t)
  \/ \E t \in Threads, s \in Servers : Request(t, s)
  \/ \E j \in Jobs : Job(j)
  \/ \E s \in Servers : BotExits(s)
  \/ SweepDirs \/ SweepContainers
  \/ Crash \/ Restart

Spec == Init /\ [][Next]_vars

\* Request threads and install threads are run by the OS until they are done
\* (install containers are stopped after INSTALL_TIMEOUT_SECONDS, Docker calls
\* time out after 120 s), and the container runtime restarts a killed agent.
\* Nothing makes a request arrive, and nothing makes lock acquisition fair.
Fairness ==
  /\ \A t \in Threads : WF_vars(Handler(t))
  /\ \A j \in Jobs : WF_vars(Job(j))
  /\ WF_vars(Restart)
  /\ WF_vars(SweepContainers)

FairSpec == Spec /\ Fairness

-----------------------------------------------------------------------------
(* Properties *)

SlotWorkers == {t \in Threads : pc[t] \in SlotSteps}
SlotJobs == {j \in Jobs : job[j].phase \in SlotPhases}
Builds == {j \in Jobs : job[j].phase \in LivePhases}

\* Every install permit is free, reserved by a worker inside create_server, or
\* held by an install thread until its container is gone: none is lost on an
\* error path and none is returned twice (the case _release_install_slot
\* swallows never happens).
SlotAccounting ==
  slots + Cardinality(SlotWorkers) + Cardinality(SlotJobs) = MaxInstalls

\* The node's semaphore and its bookkeeping implement the abstract pool: every
\* step acquires, passes on or returns at most one permit, or loses them all.
PermitHolders == ({"worker"} \X Threads) \cup ({"thread"} \X Jobs)
Held == ({"worker"} \X SlotWorkers) \cup ({"thread"} \X SlotJobs)
Pool == INSTANCE InstallPool
        WITH Holders <- PermitHolders, Capacity <- MaxInstalls, held <- Held
ImplementsPool == Pool!Spec

\* The node never runs more install containers than it has slots, counting
\* those a killed agent left behind (_max_concurrent_installs).
InstallCeiling == Cardinality(Builds) <= MaxInstalls

\* Two install containers never write one server's directory: the re-check in
\* start_install, and the reaping at startup before anything is admitted.
OneBuildPerServer ==
  \A j, k \in Builds : job[j].srv = job[k].srv => j = k

\* A bot never runs while an install container writes its directory.
NoBotDuringBuild ==
  \A j \in Builds : container[job[j].srv] # "running"

\* Two workers are never inside the critical section of one server: power,
\* rebuild, reinstall and remove of a server exclude each other.
ServerMutex ==
  \A t, u \in Threads :
    /\ pc[t] \in LockedSteps /\ pc[u] \in LockedSteps
    /\ srv[t] = srv[u]
    => t = u

\* A container never outlives its data directory: create seeds first and rolls
\* back last, remove purges last and under the lock.  Two ways are left, and
\* both are on record: a create whose rollback warned that it could not remove
\* the container, and a directory that a reconcile pass removes on a snapshot in
\* which it had no container.
ContainerHasData ==
  \A s \in Servers \ (stuck \cup condemned) : container[s] # "absent" => dir[s]

\* No worker is in the middle of a request about s.
Quiet(s) == \A t \in Threads : pc[t] # "idle" => srv[t] # s

\* An install thread at work on an existing server is what its state says.
BuildIsReported ==
  \A j \in SlotJobs :
    container[job[j].srv] # "absent" => install[job[j].srv] = "running"

\* An install recorded as running comes to an end, across kills of the agent.
InstallSettles ==
  \A s \in Servers : saved[s] = "running" ~> saved[s] # "running"
=============================================================================
