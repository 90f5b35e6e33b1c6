-------------------------- MODULE NodeAgentProofs --------------------------
(***************************************************************************)
(* Theorems about NodeAgent, for every set of servers, workers and install *)
(* threads and every capacity; the last of them about the closed load of   *)
(* MCNodeAgent, from which it takes s1, t1 and t2.                         *)
(***************************************************************************)
EXTENDS MCNodeAgent, FiniteSetTheorems, TLAPS

LEMMA TypeInit == Init => TypeOK
  BY CapacityAssumption, BoundAssumption
  DEF Init, TypeOK, ContainerStates, InstallStates, Steps, Phases, NoPass, NoSweep

\* The helper operators yield values of the right type.
LEMMA HelperTypes ==
  ASSUME TypeOK
  PROVE  /\ Released \in 0..MaxInstalls
         /\ \A t \in Threads, step \in Steps : Goto(t, step) => pc' \in [Threads -> Steps]
         /\ \A t \in Threads : Return(t) => pc' \in [Threads -> Steps]
         /\ \A s \in Servers : Unlock(s) => lock' \in [Servers -> Threads \cup {None}]
         /\ \A s \in Servers, status \in InstallStates :
              SetInstall(s, status) => /\ install' \in [Servers -> InstallStates]
                                       /\ saved' \in [Servers -> InstallStates]
         /\ \A ss : Forsake(ss) => handle' \in [Threads -> BOOLEAN]
         /\ \A j \in Jobs, phase \in Phases :
              SetPhase(j, phase) => job' \in [Jobs -> [phase : Phases, srv : Servers]]
         /\ \A js : Reap(js) => job' \in [Jobs -> [phase : Phases, srv : Servers]]
  <1> USE DEF TypeOK
  <1>1. Released \in 0..MaxInstalls
    BY CapacityAssumption DEF Released
  <1>2. \A t \in Threads, step \in Steps : Goto(t, step) => pc' \in [Threads -> Steps]
    BY DEF Goto
  <1>3. \A t \in Threads : Return(t) => pc' \in [Threads -> Steps]
    BY <1>2 DEF Return, Steps
  <1>4. \A s \in Servers : Unlock(s) => lock' \in [Servers -> Threads \cup {None}]
    BY DEF Unlock
  <1>5. \A s \in Servers, status \in InstallStates :
          SetInstall(s, status) => /\ install' \in [Servers -> InstallStates]
                                   /\ saved' \in [Servers -> InstallStates]
    BY DEF SetInstall
  <1>6. \A ss : Forsake(ss) => handle' \in [Threads -> BOOLEAN]
    BY DEF Forsake
  <1>7. \A j \in Jobs, phase \in Phases :
          SetPhase(j, phase) => job' \in [Jobs -> [phase : Phases, srv : Servers]]
    BY DEF SetPhase
  <1>8. \A js : Reap(js) => job' \in [Jobs -> [phase : Phases, srv : Servers]]
    <2> SUFFICES ASSUME NEW js, Reap(js), NEW j \in Jobs
                 PROVE  job'[j] \in [phase : Phases, srv : Servers]
      BY DEF Reap
    <2>1. Reaped(job[j].phase) \in Phases
      BY DEF Reaped, Phases
    <2> QED BY <2>1 DEF Reap
  <1> QED BY <1>1, <1>2, <1>3, <1>4, <1>5, <1>6, <1>7, <1>8

LEMMA TypeStep == TypeOK /\ [Next]_vars => TypeOK'
  <1> SUFFICES ASSUME TypeOK, [Next]_vars PROVE TypeOK'
    OBVIOUS
  <1> USE HelperTypes, BoundAssumption, CapacityAssumption
  <1> USE DEF TypeOK, docker, state, worker, process, history, Steps, SlotSteps, LockedSteps,
              Powers, ContainerStates, InstallStates, Phases
  <1>1. ASSUME NEW t \in Threads, NEW s \in Servers, CreateAdmit(t, s)
        PROVE  TypeOK'
    BY <1>1 DEF CreateAdmit, Accept, Reserve
  <1>2. ASSUME NEW t \in Threads, CreateSeed(t)
        PROVE  TypeOK'
    BY <1>2 DEF CreateSeed
  <1>3. ASSUME NEW t \in Threads, CreateContainer(t)
        PROVE  TypeOK'
    BY <1>3 DEF CreateContainer
  <1>4. ASSUME NEW t \in Threads, CreateContainerFails(t)
        PROVE  TypeOK'
    BY <1>4 DEF CreateContainerFails
  <1>5. ASSUME NEW t \in Threads, UndoContainer(t)
        PROVE  TypeOK'
    BY <1>5 DEF UndoContainer
  <1>6. ASSUME NEW t \in Threads, UndoData(t)
        PROVE  TypeOK'
    BY <1>6 DEF UndoData
  <1>7. ASSUME NEW t \in Threads, NEW s \in Servers, ReinstallCheck(t, s)
        PROVE  TypeOK'
    BY <1>7 DEF ReinstallCheck, Accept
  <1>8. ASSUME NEW t \in Threads, NEW j \in Jobs, InstallSpawned(t, j)
        PROVE  TypeOK'
    BY <1>8 DEF InstallSpawned, ForCreate, ForReinstall, Reserve
  <1>9. ASSUME NEW t \in Threads, InstallNotSpawned(t)
        PROVE  TypeOK'
    BY <1>9 DEF InstallNotSpawned, ForCreate, ForReinstall
  <1>10. ASSUME NEW t \in Threads, InstallRefused(t)
        PROVE  TypeOK'
    BY <1>10 DEF InstallRefused, ForCreate, ForReinstall
  <1>11. ASSUME NEW j \in Jobs, Job(j)
        PROVE  TypeOK'
    BY <1>11 DEF Job, JobBegins, JobCannotBegin, JobEnds, JobReports
  <1>12. ASSUME NEW t \in Threads, NEW s \in Servers, NEW action \in Powers,
               PowerLookup(t, s, action)
        PROVE  TypeOK'
    BY <1>12 DEF PowerLookup, Accept
  <1>13. ASSUME NEW t \in Threads, PowerApply(t)
        PROVE  TypeOK'
    BY SMTT(60), <1>13 DEF PowerApply
  <1>14. ASSUME NEW t \in Threads, PowerRefused(t)
        PROVE  TypeOK'
    BY <1>14 DEF PowerRefused
  <1>15. ASSUME NEW t \in Threads, NEW s \in Servers, RebuildLookup(t, s)
        PROVE  TypeOK'
    BY <1>15 DEF RebuildLookup, Accept
  <1>16. ASSUME NEW t \in Threads, RebuildRemove(t)
        PROVE  TypeOK'
    BY <1>16 DEF RebuildRemove
  <1>17. ASSUME NEW t \in Threads, RebuildNotFound(t) \/ RebuildCannotRemove(t)
        PROVE  TypeOK'
    BY <1>17 DEF RebuildNotFound, RebuildCannotRemove, Refused
  <1>18. ASSUME NEW t \in Threads, RebuildCreate(t)
        PROVE  TypeOK'
    BY <1>18 DEF RebuildCreate, Built
  <1>19. ASSUME NEW t \in Threads, RebuildCreateFails(t)
        PROVE  TypeOK'
    BY <1>19 DEF RebuildCreateFails
  <1>20. ASSUME NEW t \in Threads, RestoreContainer(t)
        PROVE  TypeOK'
    BY <1>20 DEF RestoreContainer, Built
  <1>21. ASSUME NEW t \in Threads, RestoreFails(t)
        PROVE  TypeOK'
    BY <1>21 DEF RestoreFails
  <1>22. ASSUME NEW t \in Threads, NEW s \in Servers, RemoveContainer(t, s) \/ RemoveRefused(t, s)
        PROVE  TypeOK'
    BY SMTT(60), <1>22 DEF RemoveContainer, RemoveRefused, Refused, TakeDown, Accept
  <1>23. ASSUME NEW t \in Threads, RemoveData(t) \/ RemoveDataFails(t)
        PROVE  TypeOK'
    BY <1>23 DEF RemoveData, RemoveDataFails
  <1>24. ASSUME NEW t \in Threads, ForgetMemory(t)
        PROVE  TypeOK'
    BY <1>24 DEF ForgetMemory
  <1>25. ASSUME NEW t \in Threads, ForgetFile(t)
        PROVE  TypeOK'
    BY <1>25 DEF ForgetFile
  <1>26. ASSUME NEW t \in Threads, Reconcile(t)
        PROVE  TypeOK'
    BY <1>26 DEF Reconcile, ReconcileSnapshot, Accept, UpTo
  <1>27. ASSUME NEW t \in Threads, NEW s \in Servers, ReconcileRemove(t, s)
        PROVE  TypeOK'
    BY <1>27 DEF ReconcileRemove, TakeDown
  <1>28. ASSUME NEW t \in Threads, NEW s \in Servers, ReconcileForget(t, s)
                                   \/ ReconcileGivesUp(t, s)
        PROVE  TypeOK'
    BY SMTT(60), <1>28 DEF ReconcileForget, ReconcileGivesUp, Refused
  <1>29. ASSUME NEW t \in Threads, ReconcileReap(t)
        PROVE  TypeOK'
    BY <1>29 DEF ReconcileReap, ReapInstalls
  <1>30. ASSUME NEW t \in Threads, NEW s \in Servers, ReconcileDir(t, s)
        PROVE  TypeOK'
    BY <1>30 DEF ReconcileDir
  <1>31. ASSUME NEW t \in Threads, ReconcileEnds(t)
        PROVE  TypeOK'
    BY <1>31 DEF ReconcileEnds, NoPass
  <1>32. ASSUME SweepDirs
        PROVE  TypeOK'
    BY <1>32 DEF SweepDirs
  <1>33. ASSUME SweepContainers
        PROVE  TypeOK'
    BY <1>33 DEF SweepContainers, ReapInstalls, NoSweep
  <1>34. ASSUME NEW s \in Servers, BotExits(s)
        PROVE  TypeOK'
    BY <1>34 DEF BotExits
  <1>35. ASSUME Crash
        PROVE  TypeOK'
    <2>1. job' \in [Jobs -> [phase : Phases, srv : Servers]]
      BY <1>35 DEF Crash, Orphaned
    <2>2. /\ crashes < MaxCrashes /\ crashes' = crashes + 1
          /\ slots' = MaxInstalls /\ up' = FALSE /\ srv' = srv /\ saved' = saved
          /\ container' = container /\ dir' = dir /\ used' = used
      BY <1>35, Zenon DEF Crash
    <2>5. crashes' \in 0..MaxCrashes /\ slots' \in 0..MaxInstalls
      BY <2>2
    <2>3. /\ install' \in [Servers -> InstallStates]
          /\ lock' \in [Servers -> Threads \cup {None}]
          /\ pc' \in [Threads -> Steps]
          /\ running' \in [Threads -> BOOLEAN] /\ handle' \in [Threads -> BOOLEAN]
      BY <1>35 DEF Crash
    <2>4. /\ pass' \in [by : Threads \cup {None}, orphans : SUBSET Servers,
                         files : SUBSET Servers, dirs : SUBSET Servers]
          /\ sweep' \in [on : BOOLEAN, dirs : SUBSET Servers]
      BY <1>35 DEF Crash, NoPass, NoSweep
    <2>6. stuck' = stuck /\ condemned' = condemned
      BY <1>35 DEF Crash
    <2> QED BY <2>1, <2>2, <2>3, <2>4, <2>5, <2>6
  <1>36. ASSUME Restart
        PROVE  TypeOK'
    BY <1>36 DEF Restart, StartupReap, ReapInstalls, Interrupted
  <1>37. ASSUME UNCHANGED vars
        PROVE  TypeOK'
    BY <1>37 DEF vars
  <1> HIDE HelperTypes, BoundAssumption, CapacityAssumption DEF TypeOK
  <1>38. ASSUME NEW t \in Threads, NEW s \in Servers, Request(t, s)
         PROVE  TypeOK'
    BY <1>1, <1>7, <1>12, <1>15, <1>22, <1>38 DEF Request
  <1>39. ASSUME NEW t \in Threads, Handler(t)
         PROVE  TypeOK'
    BY <1>2, <1>3, <1>4, <1>5, <1>6, <1>8, <1>9, <1>10, <1>13, <1>14, <1>16,
       <1>17, <1>18, <1>19, <1>20, <1>21, <1>23, <1>24, <1>25, <1>27, <1>28,
       <1>29, <1>30, <1>31, <1>39 DEF Handler
  <1> QED
    BY <1>11, <1>26, <1>32, <1>33, <1>34, <1>35, <1>36, <1>37, <1>38, <1>39
    DEF Next

\* The variables keep their types: THEOREM for every instance.
THEOREM TypeCorrect == Spec => []TypeOK
  BY TypeInit, TypeStep, PTL DEF Spec

-----------------------------------------------------------------------------
(* The install permits *)

LEMMA FiniteUsers ==
  /\ IsFiniteSet(SlotWorkers) /\ IsFiniteSet(SlotJobs)
  /\ Cardinality(SlotWorkers) \in Nat /\ Cardinality(SlotJobs) \in Nat
  BY FiniteAssumption, FS_Subset, FS_CardinalityType DEF SlotWorkers, SlotJobs

\* Removing install containers leaves their threads in possession of a permit.
LEMMA ReapKeepsSlotJobs ==
  ASSUME TypeOK, NEW js, Reap(js)
  PROVE  SlotJobs' = SlotJobs
  <1>1. \A j \in Jobs : job'[j].phase \in SlotPhases <=> job[j].phase \in SlotPhases
    BY DEF TypeOK, Reap, Reaped, SlotPhases
  <1> QED BY <1>1 DEF SlotJobs

\* The steps that neither take nor return a permit nor pass one on.
Neutral == slots' = slots /\ SlotWorkers' = SlotWorkers /\ SlotJobs' = SlotJobs

LEMMA NeutralHandler ==
  ASSUME TypeOK, NEW t \in Threads, Handler(t),
         ~UndoData(t), \A j \in Jobs : ~InstallSpawned(t, j)
  PROVE  Neutral
  <1> USE DEF TypeOK, SlotSteps, LockedSteps, Powers, Goto, Return, worker
  <1>1. /\ slots' = slots
        /\ \A u \in Threads : pc'[u] \in SlotSteps <=> pc[u] \in SlotSteps
        /\ job' = job \/ ReapInstalls
    <2>1. CASE CreateSeed(t) \/ CreateContainer(t) \/
             CreateContainerFails(t) \/ UndoContainer(t) \/
             InstallNotSpawned(t) \/ InstallRefused(t)
      BY <2>1 DEF CreateSeed, CreateContainer, CreateContainerFails,
             UndoContainer, InstallNotSpawned, InstallRefused, ForCreate,
             ForReinstall
    <2>2. CASE PowerApply(t) \/ PowerRefused(t)
      BY <2>2 DEF PowerApply, PowerRefused
    <2>3. CASE RebuildRemove(t) \/ RebuildNotFound(t) \/ RebuildCannotRemove(t) \/ RebuildCreate(t)
             \/ RebuildCreateFails(t) \/ RestoreContainer(t) \/
             RestoreFails(t)
      BY <2>3 DEF RebuildRemove, RebuildNotFound, RebuildCannotRemove, Refused, RebuildCreate,
             RebuildCreateFails, RestoreContainer, RestoreFails
    <2>4. CASE RemoveData(t) \/ RemoveDataFails(t) \/ ForgetMemory(t) \/ ForgetFile(t)
      BY <2>4 DEF RemoveData, RemoveDataFails, ForgetMemory, ForgetFile
    <2>5. ASSUME NEW s \in Servers, ReconcileRemove(t, s)
          PROVE  /\ slots' = slots /\ job' = job
                 /\ pc[t] = "reconciling" /\ pc' = [pc EXCEPT ![t] = "purging"]
      BY <2>5 DEF ReconcileRemove, TakeDown
    <2>6. ASSUME NEW s \in Servers, ReconcileForget(t, s) \/ ReconcileGivesUp(t, s)
                                    \/ ReconcileDir(t, s)
          PROVE  /\ slots' = slots /\ job' = job
                 /\ \/ pc' = pc
                    \/ pc[t] = "reconciling" /\ pc' = [pc EXCEPT ![t] = "dropping"]
      BY <2>6 DEF ReconcileForget, ReconcileGivesUp, Refused, ReconcileDir
    <2>7. CASE ReconcileReap(t) \/ ReconcileEnds(t)
      BY <2>7 DEF ReconcileReap, ReapInstalls, ReconcileEnds
    <2> QED BY <2>1, <2>2, <2>3, <2>4, <2>5, <2>6, <2>7 DEF Handler
  <1>2. SlotWorkers' = SlotWorkers
    BY <1>1 DEF SlotWorkers
  <1>3. SlotJobs' = SlotJobs
    BY <1>1, ReapKeepsSlotJobs DEF SlotJobs, ReapInstalls
  <1> QED BY <1>1, <1>2, <1>3 DEF Neutral

LEMMA NeutralOthers ==
  ASSUME TypeOK,
         \/ \E t \in Threads, s \in Servers : Request(t, s) /\ ~CreateAdmit(t, s)
         \/ \E t \in Threads : Reconcile(t)
         \/ \E j \in Jobs : JobBegins(j) \/ JobReports(j)
         \/ \E s \in Servers : BotExits(s)
         \/ SweepDirs \/ SweepContainers \/ Restart \/ UNCHANGED vars
  PROVE  Neutral
  <1> USE DEF TypeOK, SlotSteps, LockedSteps, Powers, Goto, worker
  <1>1. ASSUME NEW t \in Threads, NEW s \in Servers, Request(t, s), ~CreateAdmit(t, s)
        PROVE  /\ slots' = slots /\ job' = job
               /\ \A u \in Threads : pc'[u] \in SlotSteps <=> pc[u] \in SlotSteps
    <2>1. CASE ReinstallCheck(t, s) \/ RebuildLookup(t, s) \/ RemoveContainer(t, s)
               \/ RemoveRefused(t, s)
      BY <2>1 DEF ReinstallCheck, RebuildLookup, RemoveContainer, RemoveRefused, Refused, TakeDown,
                  Accept
    <2>2. ASSUME NEW action \in Powers, PowerLookup(t, s, action)
          PROVE  /\ slots' = slots /\ job' = job /\ pc[t] = "idle"
                 /\ pc' = [pc EXCEPT ![t] = action]
      BY <2>2 DEF PowerLookup, Accept
    <2> QED BY <1>1, <2>1, <2>2 DEF Request
  <1>2. ASSUME NEW t \in Threads, Reconcile(t)
        PROVE  /\ slots' = slots /\ job' = job
               /\ pc[t] = "idle" /\ pc' = [pc EXCEPT ![t] = "reconciling"]
    BY <1>2 DEF Reconcile, ReconcileSnapshot, Accept, UpTo
  <1>3. ASSUME NEW j \in Jobs, JobBegins(j) \/ JobReports(j)
        PROVE  /\ slots' = slots /\ pc' = pc
               /\ \A k \in Jobs : job'[k].phase \in SlotPhases <=> job[k].phase \in SlotPhases
    BY <1>3 DEF JobBegins, JobReports, SetPhase, SlotPhases
  <1>4. ASSUME NEW s \in Servers, BotExits(s)
        PROVE  slots' = slots /\ pc' = pc /\ job' = job
    BY <1>4 DEF BotExits
  <1>5. ASSUME SweepDirs \/ UNCHANGED vars
        PROVE  slots' = slots /\ pc' = pc /\ job' = job
    BY <1>5 DEF SweepDirs, vars
  <1>6. ASSUME SweepContainers \/ Restart
        PROVE  slots' = slots /\ pc' = pc /\ SlotJobs' = SlotJobs
    BY <1>6, ReapKeepsSlotJobs DEF SweepContainers, ReapInstalls, Restart, StartupReap, ReapInstalls
  <1> QED
    BY <1>1, <1>2, <1>3, <1>4, <1>5, <1>6 DEF Neutral, SlotWorkers, SlotJobs

\* A permit is passed around as the code passes it: one step at a time, from
\* the semaphore to a worker or a thread, from a worker to a thread, and back.
LEMMA SlotStep == TypeOK /\ SlotAccounting /\ [Next]_vars => SlotAccounting'
  <1> SUFFICES ASSUME TypeOK, SlotAccounting, [Next]_vars
               PROVE  SlotAccounting'
    OBVIOUS
  <1> USE FiniteUsers, CapacityAssumption
  <1>1. ASSUME NEW t \in Threads, NEW s \in Servers, CreateAdmit(t, s)
        PROVE  SlotAccounting'
    <2>1. /\ slots' = slots - 1 /\ job' = job /\ t \notin SlotWorkers
          /\ SlotWorkers' = SlotWorkers \cup {t}
      BY <1>1 DEF TypeOK, CreateAdmit, Accept, Reserve, Goto, SlotWorkers, SlotSteps
    <2>2. SlotJobs' = SlotJobs
      BY <2>1 DEF SlotJobs
    <2>3. Cardinality(SlotWorkers') = Cardinality(SlotWorkers) + 1
      BY <2>1, FS_AddElement
    <2> QED BY <2>1, <2>2, <2>3 DEF SlotAccounting, TypeOK
  <1>2. ASSUME NEW t \in Threads, UndoData(t)
        PROVE  SlotAccounting'
    <2>1. /\ slots' = Released /\ job' = job /\ t \in SlotWorkers
          /\ SlotWorkers' = SlotWorkers \ {t}
      BY <1>2 DEF TypeOK, UndoData, Goto, SlotWorkers, SlotSteps
    <2>2. SlotJobs' = SlotJobs
      BY <2>1 DEF SlotJobs
    <2>3. Cardinality(SlotWorkers') = Cardinality(SlotWorkers) - 1
      BY <2>1, FS_RemoveElement
    <2>4. Cardinality(SlotWorkers) # 0
      BY <2>1, FS_EmptySet
    <2>5. slots' = slots + 1
      BY <2>1, <2>4 DEF SlotAccounting, TypeOK, Released
    <2> QED BY <2>2, <2>3, <2>5 DEF SlotAccounting, TypeOK
  <1>3. ASSUME NEW t \in Threads, NEW j \in Jobs, InstallSpawned(t, j)
        PROVE  SlotAccounting'
    <2>1. j \notin SlotJobs /\ SlotJobs' = SlotJobs \cup {j}
      BY <1>3 DEF TypeOK, InstallSpawned, SlotJobs, SlotPhases
    <2>2. Cardinality(SlotJobs') = Cardinality(SlotJobs) + 1
      BY <2>1, FS_AddElement
    <2>3. CASE ForCreate(t)
      <3>1. /\ slots' = slots /\ t \in SlotWorkers
            /\ SlotWorkers' = SlotWorkers \ {t}
        BY <1>3, <2>3 DEF TypeOK, InstallSpawned, ForCreate, ForReinstall, Reserve, Goto,
                          SlotWorkers, SlotSteps
      <3>2. Cardinality(SlotWorkers') = Cardinality(SlotWorkers) - 1
        BY <3>1, FS_RemoveElement
      <3> QED BY <2>2, <3>1, <3>2 DEF SlotAccounting, TypeOK
    <2>4. CASE ForReinstall(t)
      <3>1. slots' = slots - 1 /\ SlotWorkers' = SlotWorkers
        BY <1>3, <2>4 DEF TypeOK, InstallSpawned, ForCreate, ForReinstall, Reserve, Goto,
                          SlotWorkers, SlotSteps
      <3> QED BY <2>2, <3>1 DEF SlotAccounting, TypeOK
    <2> QED BY <1>3, <2>3, <2>4 DEF InstallSpawned
  <1>4. ASSUME NEW j \in Jobs, JobCannotBegin(j) \/ JobEnds(j)
        PROVE  SlotAccounting'
    <2>1. /\ slots' = Released /\ pc' = pc /\ j \in SlotJobs
          /\ SlotJobs' = SlotJobs \ {j}
      BY <1>4 DEF TypeOK, JobCannotBegin, JobEnds, SetPhase, SlotJobs, SlotPhases,
                  worker
    <2>2. SlotWorkers' = SlotWorkers
      BY <2>1 DEF SlotWorkers
    <2>3. Cardinality(SlotJobs') = Cardinality(SlotJobs) - 1
      BY <2>1, FS_RemoveElement
    <2>4. Cardinality(SlotJobs) # 0
      BY <2>1, FS_EmptySet
    <2>5. slots' = slots + 1
      BY <2>1, <2>4 DEF SlotAccounting, TypeOK, Released
    <2> QED BY <2>2, <2>3, <2>5 DEF SlotAccounting, TypeOK
  <1>5. ASSUME Crash
        PROVE  SlotAccounting'
    <2>1. slots' = MaxInstalls /\ SlotWorkers' = {} /\ SlotJobs' = {}
      BY <1>5 DEF Crash, Orphaned, SlotWorkers, SlotJobs, SlotSteps, SlotPhases
    <2> QED BY <2>1, FS_EmptySet DEF SlotAccounting
  <1>6. ASSUME Neutral
        PROVE  SlotAccounting'
    BY <1>6 DEF Neutral, SlotAccounting
  <1>7. ASSUME NEW t \in Threads, NEW s \in Servers, Request(t, s)
        PROVE  SlotAccounting'
    BY <1>1, <1>6, <1>7, NeutralOthers
  <1>8. ASSUME NEW t \in Threads, Handler(t)
        PROVE  SlotAccounting'
    BY <1>2, <1>3, <1>6, <1>8, NeutralHandler
  <1>9. ASSUME NEW j \in Jobs, Job(j)
        PROVE  SlotAccounting'
    BY <1>4, <1>6, <1>9, NeutralOthers DEF Job
  <1> QED
    BY <1>5, <1>6, <1>7, <1>8, <1>9, NeutralOthers DEF Next

\* No install permit is ever lost or returned twice, whatever the interleaving
\* of creates, reinstalls, install threads, sweeps and kills of the agent.
THEOREM SlotsAccountedFor == Spec => []SlotAccounting
  <1>1. Init => SlotAccounting
    <2> SUFFICES ASSUME Init PROVE SlotAccounting
      OBVIOUS
    <2>1. slots = MaxInstalls /\ SlotWorkers = {} /\ SlotJobs = {}
      BY DEF Init, SlotWorkers, SlotJobs, SlotSteps, SlotPhases
    <2> QED BY <2>1, FS_EmptySet, CapacityAssumption DEF SlotAccounting
  <1> QED BY <1>1, TypeInit, TypeStep, SlotStep, PTL DEF Spec

-----------------------------------------------------------------------------
(* What kinds of step can touch the process and the install threads *)

LEMMA HandlerFrame ==
  ASSUME NEW t \in Threads, Handler(t)
  PROVE  /\ up' = up
         /\ pc[t] # "idle"
         /\ \/ job' = job
            \/ ReapInstalls
            \/ \E j \in Jobs : InstallSpawned(t, j)
  <1> USE DEF process, history, Powers
  <1>1. CASE CreateSeed(t) \/ CreateContainer(t) \/ CreateContainerFails(t) \/
             UndoContainer(t) \/ UndoData(t) \/ InstallNotSpawned(t) \/
             InstallRefused(t)
    BY <1>1 DEF CreateSeed, CreateContainer, CreateContainerFails,
               UndoContainer, UndoData, InstallNotSpawned, InstallRefused,
               ForCreate, ForReinstall
  <1>2. CASE PowerApply(t) \/ PowerRefused(t) \/ RebuildRemove(t) \/
             RebuildNotFound(t) \/ RebuildCannotRemove(t) \/ RebuildCreate(t) \/ RebuildCreateFails(t)
             \/ RestoreContainer(t) \/ RestoreFails(t)
    BY <1>2 DEF PowerApply, PowerRefused, RebuildRemove, RebuildNotFound, RebuildCannotRemove,
                Refused,
               RebuildCreate, RebuildCreateFails, RestoreContainer,
               RestoreFails
  <1>3. CASE RemoveData(t) \/ RemoveDataFails(t) \/ ForgetMemory(t) \/ ForgetFile(t)
    BY <1>3 DEF RemoveData, RemoveDataFails, ForgetMemory, ForgetFile
  <1>4. CASE ReconcileReap(t) \/ ReconcileEnds(t)
    BY <1>4 DEF ReconcileReap, ReapInstalls, ReconcileEnds
  <1>5. ASSUME NEW j \in Jobs, InstallSpawned(t, j)
        PROVE  up' = up /\ pc[t] # "idle"
    BY <1>5 DEF InstallSpawned, ForCreate, ForReinstall
  <1>6. ASSUME NEW s \in Servers,
               ReconcileRemove(t, s) \/ ReconcileForget(t, s) \/ ReconcileGivesUp(t, s) \/ ReconcileDir(t, s)
        PROVE  up' = up /\ pc[t] # "idle" /\ job' = job
    BY <1>6 DEF ReconcileRemove, TakeDown, ReconcileForget, ReconcileGivesUp, Refused, ReconcileDir
  <1> QED BY <1>1, <1>2, <1>3, <1>4, <1>5, <1>6 DEF Handler

LEMMA RequestFrame ==
  ASSUME NEW t \in Threads,
         Reconcile(t) \/ \E s \in Servers : Request(t, s)
  PROVE  up /\ up' = up /\ job' = job
  <1> USE DEF process, history, Accept
  <1>1. CASE Reconcile(t)
    BY <1>1 DEF Reconcile, ReconcileSnapshot
  <1>2. ASSUME NEW s \in Servers, Request(t, s)
        PROVE  up /\ up' = up /\ job' = job
    BY <1>2 DEF Request, CreateAdmit, ReinstallCheck, PowerLookup, RebuildLookup,
                RemoveContainer, RemoveRefused, Refused, TakeDown
  <1> QED BY <1>1, <1>2

LEMMA JobFrame ==
  ASSUME NEW j \in Jobs, Job(j)
  PROVE  up /\ up' = up /\ pc' = pc
  BY DEF Job, JobBegins, JobCannotBegin, JobEnds, JobReports, process, history, worker

LEMMA OtherFrame ==
  ASSUME \/ \E s \in Servers : BotExits(s)
         \/ SweepDirs \/ SweepContainers \/ UNCHANGED vars
  PROVE  up' = up /\ pc' = pc /\ (job' = job \/ (up /\ ReapInstalls))
  BY DEF BotExits, SweepDirs, SweepContainers, ReapInstalls, vars, process, history, worker

-----------------------------------------------------------------------------
(* The ceiling on install containers *)

\* While the process is dead nothing is in progress; while it is alive every
\* install container has its thread, hence its permit.
NothingStray ==
  /\ up => \A j \in Jobs : job[j].phase # "leftover"
  /\ ~up => \A t \in Threads : pc[t] = "idle"

\* A dead process takes no step but Restart; containers it left stay as they are.
LEMMA DeadStep ==
  ASSUME NothingStray, [Next]_vars, ~up, ~up'
  PROVE  job' = job /\ pc' = pc
  <1>1. ~Restart /\ ~Crash
    BY DEF Restart, Crash
  <1> QED
    BY <1>1, HandlerFrame, RequestFrame, JobFrame, OtherFrame DEF Next, NothingStray

LEMMA StrayStep ==
  ASSUME "reap" \notin Faults, TypeOK, NothingStray, [Next]_vars
  PROVE  NothingStray'
  <1>1. ASSUME up, up', NEW j \in Jobs
        PROVE  job'[j].phase # "leftover"
    <2> USE <1>1 DEF TypeOK, NothingStray
    <2>1. CASE job' = job
      BY <2>1
    <2>2. CASE ReapInstalls
      BY <2>2 DEF ReapInstalls, Reap, Reaped
    <2>3. ASSUME NEW t \in Threads, NEW k \in Jobs, InstallSpawned(t, k)
          PROVE  job'[j].phase # "leftover"
      BY <2>3 DEF InstallSpawned
    <2>4. ASSUME NEW k \in Jobs, Job(k)
          PROVE  job'[j].phase # "leftover"
      BY <2>4 DEF Job, JobBegins, JobCannotBegin, JobEnds, JobReports, SetPhase
    <2>5. ~Restart /\ ~Crash
      BY DEF Restart, Crash
    <2> QED
      BY <2>1, <2>2, <2>3, <2>4, <2>5, HandlerFrame, RequestFrame, OtherFrame DEF Next
  <1>2. ASSUME up, ~up', NEW t \in Threads
        PROVE  pc'[t] = "idle"
    BY <1>2, HandlerFrame, RequestFrame, JobFrame, OtherFrame DEF Next, Restart, Crash
  <1>3. ASSUME ~up, up', NEW j \in Jobs
        PROVE  job'[j].phase # "leftover"
    <2>1. Restart
      BY <1>3, HandlerFrame, RequestFrame, JobFrame, OtherFrame DEF Next, Crash
    <2>2. Reap(Jobs)
      BY <2>1 DEF Restart, StartupReap, ReapInstalls
    <2> QED BY <2>2 DEF Reap, Reaped
  <1>4. ASSUME ~up, ~up', NEW t \in Threads
        PROVE  pc'[t] = "idle"
    BY <1>4, DeadStep DEF NothingStray
  <1> QED BY <1>1, <1>2, <1>3, <1>4 DEF NothingStray, TypeOK

\* A build is an install container, whether or not its thread survived.
LEMMA CeilingStep ==
  ASSUME "reap" \notin Faults, TypeOK, TypeOK', SlotAccounting', NothingStray,
         NothingStray', InstallCeiling, [Next]_vars
  PROVE  InstallCeiling'
  <1>1. CASE up'
    <2>1. Builds' \subseteq SlotJobs'
      BY <1>1 DEF NothingStray, Builds, SlotJobs, LivePhases, SlotPhases
    <2>2. IsFiniteSet(SlotWorkers') /\ IsFiniteSet(SlotJobs')
      BY FiniteAssumption, FS_Subset DEF SlotWorkers, SlotJobs
    <2>3. Cardinality(Builds') <= Cardinality(SlotJobs') /\ IsFiniteSet(Builds')
      BY <2>1, <2>2, FS_Subset
    <2>4. /\ Cardinality(SlotWorkers') \in Nat /\ Cardinality(SlotJobs') \in Nat
          /\ Cardinality(Builds') \in Nat
      BY <2>2, <2>3, FS_CardinalityType
    <2> QED BY <2>3, <2>4, CapacityAssumption DEF SlotAccounting, InstallCeiling, TypeOK
  <1>2. CASE ~up'
    <2>1. CASE ~up
      BY <1>2, <2>1, DeadStep DEF InstallCeiling, Builds
    <2>2. CASE up
      <3>1. Crash
        BY <1>2, <2>2, HandlerFrame, RequestFrame, JobFrame, OtherFrame
        DEF Next, Restart
      <3>2. Builds' = Builds
        BY <3>1 DEF Crash, Orphaned, Builds, LivePhases
      <3> QED BY <3>2 DEF InstallCeiling
    <2> QED BY <2>1, <2>2
  <1> QED BY <1>1, <1>2

\* The node never runs more install containers than it has slots, not even
\* across kills of the agent, provided the startup reap reaches Docker.
THEOREM InstallsBounded ==
  ASSUME "reap" \notin Faults
  PROVE  Spec => []InstallCeiling
  <1>1. Init => NothingStray /\ InstallCeiling
    <2> SUFFICES ASSUME Init PROVE NothingStray /\ InstallCeiling
      OBVIOUS
    <2>1. NothingStray /\ Builds = {}
      BY DEF Init, NothingStray, Builds, LivePhases
    <2> QED BY <2>1, FS_EmptySet, CapacityAssumption DEF InstallCeiling
  <1>2. /\ TypeOK /\ TypeOK' /\ SlotAccounting /\ SlotAccounting'
        /\ NothingStray /\ InstallCeiling /\ [Next]_vars
        => NothingStray' /\ InstallCeiling'
    BY StrayStep, CeilingStep
  <1> QED BY <1>1, <1>2, TypeCorrect, SlotsAccountedFor, PTL DEF Spec

-----------------------------------------------------------------------------
(* The critical section of a server *)

LockHeld == \A t \in Threads : pc[t] \in LockedSteps => lock[srv[t]] = t

LEMMA LockStep == TypeOK /\ LockHeld /\ [Next]_vars => LockHeld'
  <1> SUFFICES ASSUME TypeOK, LockHeld, [Next]_vars, NEW u \in Threads,
                      pc'[u] \in LockedSteps
               PROVE  lock'[srv'[u]] = u
    BY DEF LockHeld
  <1> USE NoneAssumption
  <1> USE DEF TypeOK, LockHeld, LockedSteps, SlotSteps, Powers, Goto, Unlock, Free,
              worker
  <1>1. ASSUME NEW t \in Threads, NEW s \in Servers, Request(t, s)
        PROVE  lock'[srv'[u]] = u
    <2>1. CASE CreateAdmit(t, s) \/ RebuildLookup(t, s)
      BY <2>1 DEF CreateAdmit, RebuildLookup, Accept
    <2>2. ASSUME NEW action \in Powers, PowerLookup(t, s, action)
          PROVE  lock'[srv'[u]] = u
      BY <2>2 DEF PowerLookup, Accept
    <2>3. CASE ReinstallCheck(t, s) \/ RemoveContainer(t, s) \/ RemoveRefused(t, s)
      BY <2>3 DEF ReinstallCheck, RemoveContainer, RemoveRefused, Refused, TakeDown, Accept
    <2> QED BY <1>1, <2>1, <2>2, <2>3 DEF Request
  <1>2. ASSUME NEW t \in Threads, Handler(t)
        PROVE  lock'[srv'[u]] = u
    <2>1. CASE CreateSeed(t) \/ CreateContainer(t) \/ CreateContainerFails(t)
               \/ UndoContainer(t) \/ UndoData(t) \/ PowerApply(t) \/ PowerRefused(t)
               \/ RebuildNotFound(t) \/ RebuildCannotRemove(t)
      BY <2>1 DEF CreateSeed, CreateContainer, CreateContainerFails, UndoContainer,
                  UndoData, PowerApply, PowerRefused, RebuildNotFound, RebuildCannotRemove, Refused
    <2>2. ASSUME NEW j \in Jobs, InstallSpawned(t, j)
          PROVE  lock'[srv'[u]] = u
      BY <2>2 DEF InstallSpawned, ForCreate, ForReinstall
    <2>3. CASE InstallNotSpawned(t) \/ InstallRefused(t)
      BY <2>3 DEF InstallNotSpawned, InstallRefused, ForCreate, ForReinstall
    <2>4. CASE RebuildRemove(t) \/ RebuildCreate(t) \/ RebuildCreateFails(t)
      BY <2>4 DEF RebuildRemove, RebuildCreate, RebuildCreateFails
    <2>5. CASE RestoreContainer(t) \/ RestoreFails(t)
      BY <2>5 DEF RestoreContainer, RestoreFails
    <2>6. CASE RemoveData(t) \/ RemoveDataFails(t) \/ ForgetMemory(t)
      BY <2>6 DEF RemoveData, RemoveDataFails, ForgetMemory, Return
    <2>7. CASE ForgetFile(t)
      BY <2>7 DEF ForgetFile, Return
    <2>8. ASSUME NEW s \in Servers,
                 ReconcileRemove(t, s) \/ ReconcileForget(t, s) \/ ReconcileGivesUp(t, s) \/ ReconcileDir(t, s)
          PROVE  lock'[srv'[u]] = u
      BY <2>8 DEF ReconcileRemove, TakeDown, ReconcileForget, ReconcileGivesUp, Refused,
                  ReconcileDir
    <2>9. CASE ReconcileReap(t) \/ ReconcileEnds(t)
      BY <2>9 DEF ReconcileReap, ReapInstalls, ReconcileEnds
    <2> QED BY <1>2, <2>1, <2>2, <2>3, <2>4, <2>5, <2>6, <2>7, <2>8, <2>9 DEF Handler
  <1>3. ASSUME \/ \E t \in Threads : Reconcile(t)
               \/ \E j \in Jobs : Job(j)
               \/ \E s \in Servers : BotExits(s)
               \/ SweepDirs \/ SweepContainers \/ Restart \/ UNCHANGED vars
        PROVE  lock'[srv'[u]] = u
    BY <1>3 DEF Reconcile, ReconcileSnapshot, Accept, Job, JobBegins, JobCannotBegin,
                JobEnds, JobReports, BotExits, SweepDirs, SweepContainers, ReapInstalls, Restart,
                vars
  <1>4. ~Crash
    BY DEF Crash
  <1> QED BY <1>1, <1>2, <1>3, <1>4 DEF Next

\* Power, rebuild, reinstall and remove of one server exclude each other: the
\* worker in the critical section is the owner of the server's lock.
THEOREM ServerMutexHolds == Spec => []ServerMutex
  <1>1. Init => LockHeld
    BY DEF Init, LockHeld, LockedSteps
  <1>2. LockHeld => ServerMutex
    BY DEF LockHeld, ServerMutex
  <1> QED BY <1>1, <1>2, TypeCorrect, LockStep, PTL DEF Spec

-----------------------------------------------------------------------------
(* The node implements the abstract pool of permits *)

LEMMA HeldCount == Cardinality(Held) = Cardinality(SlotWorkers) + Cardinality(SlotJobs)
  <1> DEFINE W == {"worker"} \X SlotWorkers
             J == {"thread"} \X SlotJobs
  <1>1. IsFiniteSet({"worker"}) /\ Cardinality({"worker"}) = 1
    BY FS_Singleton
  <1>2. IsFiniteSet({"thread"}) /\ Cardinality({"thread"}) = 1
    BY FS_Singleton
  <1> HIDE DEF W, J
  <1>3. IsFiniteSet(W) /\ Cardinality(W) = Cardinality(SlotWorkers)
    <2>1. IsFiniteSet(W) /\ Cardinality(W) = Cardinality({"worker"}) * Cardinality(SlotWorkers)
      BY <1>1, FiniteUsers, FS_Product, Zenon DEF W
    <2> QED BY <1>1, <2>1, FiniteUsers
  <1>4. IsFiniteSet(J) /\ Cardinality(J) = Cardinality(SlotJobs)
    <2>1. IsFiniteSet(J) /\ Cardinality(J) = Cardinality({"thread"}) * Cardinality(SlotJobs)
      BY <1>2, FiniteUsers, FS_Product, Zenon DEF J
    <2> QED BY <1>2, <2>1, FiniteUsers
  <1>5. W \cap J = {}
    BY DEF W, J
  <1>6. Cardinality(W \cup J) = Cardinality(W) + Cardinality(J) - 0
    BY <1>3, <1>4, <1>5, FS_Union, FS_EmptySet
  <1> QED BY <1>3, <1>4, <1>6, FiniteUsers DEF Held, W, J

\* The library operator the pool's module uses is the one used here.
LEMMA PoolCardinality == \A S : Pool!Cardinality(S) = Cardinality(S)
  BY DEF Pool!Cardinality, Cardinality

LEMMA PoolStep ==
  ASSUME TypeOK, SlotAccounting, [Next]_vars
  PROVE  Pool!Next \/ Held' = Held
  <1> USE PoolCardinality
  <1> USE DEF Pool!Next, Pool!Acquire, Pool!PassOn, Pool!Release, Pool!Lose
  <1>0. Neutral => Held' = Held
    BY DEF Neutral, Held
  <1>1. ASSUME NEW t \in Threads, NEW s \in Servers, CreateAdmit(t, s)
        PROVE  Pool!Acquire(<<"worker", t>>)
    <2>1. /\ slots > 0 /\ job' = job /\ t \notin SlotWorkers
          /\ SlotWorkers' = SlotWorkers \cup {t}
      BY <1>1 DEF TypeOK, CreateAdmit, Accept, Reserve, Goto, SlotWorkers, SlotSteps
    <2>2. Cardinality(Held) < MaxInstalls
      BY <2>1, HeldCount, FiniteUsers, CapacityAssumption DEF SlotAccounting, TypeOK
    <2>3. Held' = Held \cup {<<"worker", t>>} /\ <<"worker", t>> \notin Held
      BY <2>1 DEF Held, SlotJobs
    <2> QED BY <2>2, <2>3
  <1>2. ASSUME NEW t \in Threads, UndoData(t)
        PROVE  Pool!Release(<<"worker", t>>)
    <2>1. job' = job /\ t \in SlotWorkers /\ SlotWorkers' = SlotWorkers \ {t}
      BY <1>2 DEF TypeOK, UndoData, Goto, SlotWorkers, SlotSteps
    <2> QED BY <2>1 DEF Held, SlotJobs
  <1>3. ASSUME NEW t \in Threads, NEW j \in Jobs, InstallSpawned(t, j)
        PROVE  Pool!PassOn(<<"worker", t>>, <<"thread", j>>) \/ Pool!Acquire(<<"thread", j>>)
    <2>1. j \notin SlotJobs /\ SlotJobs' = SlotJobs \cup {j}
      BY <1>3 DEF TypeOK, InstallSpawned, SlotJobs, SlotPhases
    <2>2. CASE ForCreate(t)
      <3>1. t \in SlotWorkers /\ SlotWorkers' = SlotWorkers \ {t}
        BY <1>3, <2>2 DEF TypeOK, InstallSpawned, ForCreate, ForReinstall, Goto,
                          SlotWorkers, SlotSteps
      <3> QED BY <2>1, <3>1 DEF Held
    <2>3. CASE ForReinstall(t)
      <3>1. slots > 0 /\ SlotWorkers' = SlotWorkers
        BY <1>3, <2>3 DEF TypeOK, InstallSpawned, ForCreate, ForReinstall, Reserve, Goto,
                          SlotWorkers, SlotSteps
      <3>2. Cardinality(Held) < MaxInstalls
        BY <3>1, HeldCount, FiniteUsers, CapacityAssumption DEF SlotAccounting, TypeOK
      <3>3. Held' = Held \cup {<<"thread", j>>} /\ <<"thread", j>> \notin Held
        BY <2>1, <3>1 DEF Held
      <3> QED BY <3>2, <3>3
    <2> QED BY <1>3, <2>2, <2>3 DEF InstallSpawned
  <1>4. ASSUME NEW j \in Jobs, JobCannotBegin(j) \/ JobEnds(j)
        PROVE  Pool!Release(<<"thread", j>>)
    <2>1. /\ pc' = pc /\ j \in SlotJobs /\ SlotJobs' = SlotJobs \ {j}
      BY <1>4 DEF TypeOK, JobCannotBegin, JobEnds, SetPhase, SlotJobs, SlotPhases,
                  worker
    <2> QED BY <2>1 DEF Held, SlotWorkers
  <1>5. ASSUME Crash
        PROVE  Pool!Lose
    <2>1. SlotWorkers' = {} /\ SlotJobs' = {}
      BY <1>5 DEF Crash, Orphaned, SlotWorkers, SlotJobs, SlotSteps, SlotPhases
    <2> QED BY <2>1 DEF Held
  <1>6. /\ \A t \in Threads :
             \/ Pool!Acquire(<<"worker", t>>) \/ Pool!Release(<<"worker", t>>)
             => Pool!Next
        /\ \A j \in Jobs :
             \/ Pool!Acquire(<<"thread", j>>) \/ Pool!Release(<<"thread", j>>)
             => Pool!Next
        /\ \A t \in Threads, j \in Jobs :
             Pool!PassOn(<<"worker", t>>, <<"thread", j>>) => Pool!Next
    <2>1. /\ \A t \in Threads : <<"worker", t>> \in PermitHolders
          /\ \A j \in Jobs : <<"thread", j>> \in PermitHolders
      BY DEF PermitHolders
    <2> HIDE DEF Pool!Acquire, Pool!Release, Pool!PassOn, Pool!Lose
    <2> QED BY <2>1, Zenon
  <1> HIDE PoolCardinality
  <1> HIDE DEF Pool!Acquire, Pool!Release, Pool!PassOn, Pool!Lose, Pool!Next
  <1>7. ASSUME NEW t \in Threads, NEW s \in Servers, Request(t, s)
        PROVE  Pool!Next \/ Held' = Held
    BY <1>0, <1>1, <1>6, <1>7, NeutralOthers
  <1>8. ASSUME NEW t \in Threads, Handler(t)
        PROVE  Pool!Next \/ Held' = Held
    BY <1>0, <1>2, <1>3, <1>6, <1>8, NeutralHandler
  <1>9. ASSUME NEW j \in Jobs, Job(j)
        PROVE  Pool!Next \/ Held' = Held
    BY <1>0, <1>4, <1>6, <1>9, NeutralOthers DEF Job
  <1>10. ASSUME \/ \E t \in Threads : Reconcile(t)
                \/ \E s \in Servers : BotExits(s)
                \/ SweepDirs \/ SweepContainers \/ Restart \/ UNCHANGED vars
         PROVE  Held' = Held
    BY <1>0, <1>10, NeutralOthers
  <1>11. Crash => Pool!Next
    BY <1>5 DEF Pool!Next
  <1> QED BY <1>7, <1>8, <1>9, <1>10, <1>11 DEF Next

\* Every behaviour of the node is one of the abstract pool.
THEOREM NodeImplementsPool == Spec => ImplementsPool
  <1>1. Init => Pool!Init
    BY DEF Init, Pool!Init, Held, SlotWorkers, SlotJobs, SlotSteps, SlotPhases
  <1>2. TypeOK /\ SlotAccounting /\ [Next]_vars => [Pool!Next]_Held
    BY PoolStep
  <1> QED
    BY <1>1, <1>2, TypeCorrect, SlotsAccountedFor, PTL DEF Spec, ImplementsPool, Pool!Spec

-----------------------------------------------------------------------------
(* Servers whose container was made *)

\* The create of s is past the point where it makes the container.
Begun(s) ==
  s \in used /\ \A t \in Threads : pc[t] \in {"admitted", "seeded"} => srv[t] # s

\* What any step does to the creates that have not come that far.
LEMMA CreatesStep ==
  ASSUME TypeOK, [Next]_vars
  PROVE  /\ used \subseteq used'
         /\ \A u \in Threads : pc'[u] \in {"admitted", "seeded"} =>
              \/ pc[u] \in {"admitted", "seeded"} /\ srv'[u] = srv[u]
              \/ /\ pc[u] = "idle" /\ pc'[u] = "admitted" /\ (ReuseIds \/ srv'[u] \notin used)
                 /\ srv'[u] \in used'
                 /\ \A v \in Threads \ {u} : pc'[v] = pc[v] /\ srv'[v] = srv[v]
<1> USE DEF TypeOK, LockedSteps, SlotSteps, Powers, Goto, worker, docker
<1>1. ASSUME NEW t \in Threads, NEW s \in Servers, CreateAdmit(t, s)
      PROVE  /\ used \subseteq used' /\ srv'[t] = s /\ s \in used' /\ (ReuseIds \/ s \notin used)
             /\ pc[t] = "idle" /\ pc'[t] = "admitted"
             /\ \A u \in Threads \ {t} : pc'[u] = pc[u] /\ srv'[u] = srv[u]
  BY <1>1 DEF CreateAdmit, Accept
<1>2. ASSUME NEW t \in Threads, CreateSeed(t)
      PROVE  /\ used' = used /\ srv' = srv /\ pc[t] = "admitted"
             /\ \A u \in Threads \ {t} : pc'[u] = pc[u]
  BY <1>2 DEF CreateSeed
<1> DEFINE Quits == /\ used' = used
                    /\ \A u \in Threads : pc'[u] \in {"admitted", "seeded"} =>
                         pc[u] \in {"admitted", "seeded"} /\ srv'[u] = srv[u]
<1>3. ASSUME NEW t \in Threads, NEW s \in Servers, Request(t, s), ~CreateAdmit(t, s) PROVE Quits
  <2>1. CASE ReinstallCheck(t, s) \/ RebuildLookup(t, s) \/ RemoveContainer(t, s)
             \/ RemoveRefused(t, s)
    BY <2>1 DEF ReinstallCheck, RebuildLookup, RemoveContainer, RemoveRefused, Refused, TakeDown,
                Accept
  <2>2. ASSUME NEW action \in Powers, PowerLookup(t, s, action) PROVE Quits
    BY <2>2 DEF PowerLookup, Accept
  <2> QED BY <1>3, <2>1, <2>2 DEF Request
<1>4. ASSUME NEW t \in Threads, Handler(t), ~CreateSeed(t) PROVE Quits
  <2>1. CASE CreateContainer(t) \/ CreateContainerFails(t) \/ UndoContainer(t) \/ UndoData(t)
    BY <2>1 DEF CreateContainer, CreateContainerFails, UndoContainer, UndoData
  <2>2. ASSUME NEW j \in Jobs, InstallSpawned(t, j) PROVE Quits
    BY <2>2 DEF InstallSpawned, ForCreate, ForReinstall
  <2>3. CASE InstallNotSpawned(t) \/ InstallRefused(t) \/ PowerApply(t) \/ PowerRefused(t)
    BY <2>3 DEF InstallNotSpawned, InstallRefused, ForCreate, ForReinstall, PowerApply, PowerRefused
  <2>4. CASE RebuildRemove(t) \/ RebuildNotFound(t) \/ RebuildCannotRemove(t)
             \/ RebuildCreate(t) \/ RebuildCreateFails(t)
             \/ RestoreContainer(t) \/ RestoreFails(t)
    BY <2>4 DEF RebuildRemove, RebuildNotFound, RebuildCannotRemove, Refused, RebuildCreate,
                RebuildCreateFails, RestoreContainer,
                RestoreFails
  <2>5. CASE RemoveData(t) \/ RemoveDataFails(t) \/ ForgetMemory(t) \/ ForgetFile(t)
    BY <2>5 DEF RemoveData, RemoveDataFails, ForgetMemory, ForgetFile, Return
  <2>6. ASSUME NEW s \in Servers, ReconcileRemove(t, s) \/ ReconcileForget(t, s)
                                  \/ ReconcileGivesUp(t, s) \/ ReconcileDir(t, s)
        PROVE  Quits
    BY <2>6 DEF ReconcileRemove, TakeDown, ReconcileForget, ReconcileGivesUp, Refused, ReconcileDir
  <2>7. CASE ReconcileReap(t) \/ ReconcileEnds(t)
    BY <2>7 DEF ReconcileReap, ReapInstalls, ReconcileEnds
  <2> QED BY <1>4, <2>1, <2>2, <2>3, <2>4, <2>5, <2>6, <2>7 DEF Handler
<1>5. ASSUME \/ \E t \in Threads : Reconcile(t)
             \/ \E j \in Jobs : Job(j)
             \/ \E s \in Servers : BotExits(s)
             \/ SweepDirs \/ SweepContainers \/ Crash \/ Restart \/ UNCHANGED vars
      PROVE  Quits
  BY <1>5 DEF Reconcile, ReconcileSnapshot, Accept, Job, JobBegins, JobCannotBegin, JobEnds,
              JobReports, BotExits, SweepDirs, SweepContainers, ReapInstalls, Crash, Restart, vars
<1> HIDE DEF TypeOK, LockedSteps, SlotSteps, Powers, Goto, worker, docker
<1>6. ASSUME NEW t \in Threads, CreateSeed(t) PROVE Quits
  BY <1>2, <1>6
<1> QED BY <1>1, <1>3, <1>4, <1>5, <1>6 DEF Next

LEMMA BegunStays ==
  ASSUME TypeOK, ~ReuseIds, [Next]_vars, NEW s, Begun(s)
  PROVE  Begun(s)'
BY CreatesStep DEF Begun

\* Something is or was made for s, or is under way that started from it.
AtWork(t) == pc[t] \notin {"idle", "admitted", "seeded", "reconciling", "clearing"}
Marked(s) ==
  \/ container[s] # "absent"
  \/ saved[s] # "idle"
  \/ s \in pass.orphans \cup pass.files
  \/ \E j \in Jobs : job[j].phase # "none" /\ job[j].srv = s
  \/ \E t \in Threads : AtWork(t) /\ srv[t] = s

\* Reaping an install container makes no new thread and leaves none without its server.
LEMMA ReapShape ==
  ASSUME TypeOK, NEW js, Reap(js)
  PROVE  \A j \in Jobs : /\ job'[j].srv = job[j].srv
                         /\ job'[j].phase \notin {"none", "leftover"} <=>
                              job[j].phase \notin {"none", "leftover"}
                         /\ job[j].phase = "none" => job'[j].phase = "none"
BY DEF TypeOK, Reap, Reaped, Phases

\* What leaves a first mark on a server is its create.
LEMMA MarkStep ==
  ASSUME TypeOK, [Next]_vars, NEW s \in Servers, Marked(s)'
  PROVE  \/ Marked(s)
         \/ \E t \in Threads : srv[t] = s /\ (CreateContainer(t) \/ CreateContainerFails(t))
<1> USE DEF TypeOK, Marked, AtWork, LockedSteps, SlotSteps, Powers, Goto, docker, state, worker
<1>1. ASSUME NEW t \in Threads, NEW r \in Servers, Request(t, r) PROVE Marked(s)
  <2>1. CASE CreateAdmit(t, r) \/ ReinstallCheck(t, r) \/ RebuildLookup(t, r)
    BY <2>1 DEF CreateAdmit, ReinstallCheck, RebuildLookup, Accept
  <2>2. CASE RemoveContainer(t, r) \/ RemoveRefused(t, r)
    BY <2>2 DEF RemoveContainer, RemoveRefused, Refused, TakeDown, Accept
  <2>3. ASSUME NEW action \in Powers, PowerLookup(t, r, action) PROVE Marked(s)
    BY <2>3 DEF PowerLookup, Accept
  <2> QED BY <1>1, <2>1, <2>2, <2>3 DEF Request
<1>2. ASSUME NEW t \in Threads, Handler(t), ~CreateContainer(t), ~CreateContainerFails(t)
      PROVE  Marked(s)
  <2>1. CASE CreateSeed(t) \/ UndoContainer(t) \/ UndoData(t)
    BY <2>1 DEF CreateSeed, UndoContainer, UndoData
  <2>2. ASSUME NEW j \in Jobs, InstallSpawned(t, j) PROVE Marked(s)
    BY <2>2 DEF InstallSpawned, ForCreate, ForReinstall, SetInstall
  <2>3. CASE InstallNotSpawned(t) \/ InstallRefused(t)
    BY <2>3 DEF InstallNotSpawned, InstallRefused, ForCreate, ForReinstall, SetInstall
  <2>4. CASE PowerApply(t) \/ PowerRefused(t)
    BY <2>4 DEF PowerApply, PowerRefused
  <2>5. CASE RebuildRemove(t) \/ RebuildNotFound(t) \/ RebuildCannotRemove(t)
             \/ RebuildCreate(t) \/ RebuildCreateFails(t)
    BY <2>5 DEF RebuildRemove, RebuildNotFound, RebuildCannotRemove, Refused, RebuildCreate,
                RebuildCreateFails
  <2>6. CASE RestoreContainer(t) \/ RestoreFails(t)
    BY <2>6 DEF RestoreContainer, RestoreFails, SetInstall
  <2>7. CASE RemoveData(t) \/ RemoveDataFails(t) \/ ForgetMemory(t) \/ ForgetFile(t)
    BY <2>7 DEF RemoveData, RemoveDataFails, ForgetMemory, ForgetFile, Return
  <2>8. ASSUME NEW r \in Servers, ReconcileRemove(t, r) PROVE Marked(s)
    BY <2>8 DEF ReconcileRemove, TakeDown
  <2>9. ASSUME NEW r \in Servers, ReconcileForget(t, r) \/ ReconcileGivesUp(t, r) \/ ReconcileDir(t, r)
        PROVE  Marked(s)
    BY <2>9 DEF ReconcileForget, ReconcileGivesUp, Refused, ReconcileDir
  <2>10. CASE ReconcileReap(t)
    BY <2>10, ReapShape DEF ReconcileReap, ReapInstalls
  <2>11. CASE ReconcileEnds(t)
    BY <2>11 DEF ReconcileEnds, NoPass
  <2> QED BY <1>2, <2>1, <2>2, <2>3, <2>4, <2>5, <2>6, <2>7, <2>8, <2>9, <2>10, <2>11 DEF Handler
<1>3. ASSUME NEW t \in Threads, Reconcile(t) PROVE Marked(s)
  BY <1>3 DEF Reconcile, ReconcileSnapshot, Accept, UpTo
<1>4. ASSUME NEW j \in Jobs, Job(j) PROVE Marked(s)
  BY <1>4, SMTT(60) DEF Job, JobBegins, JobCannotBegin, JobEnds, JobReports, SetPhase, SetInstall
<1>5. ASSUME NEW r \in Servers, BotExits(r) PROVE Marked(s)
  BY <1>5 DEF BotExits
<1>6. ASSUME SweepDirs \/ SweepContainers \/ UNCHANGED vars PROVE Marked(s)
  BY <1>6, ReapShape DEF SweepDirs, SweepContainers, ReapInstalls, vars
<1>7. ASSUME Crash PROVE Marked(s)
  BY <1>7 DEF Crash, Orphaned, LivePhases, NoPass
<1>8. ASSUME Restart PROVE Marked(s)
  BY <1>8, ReapShape DEF Restart, StartupReap, ReapInstalls, Interrupted
<1> HIDE DEF Marked, TypeOK
<1>9. ASSUME NEW t \in Threads, CreateContainer(t) \/ CreateContainerFails(t)
      PROVE Marked(s) \/ srv[t] = s
  BY <1>9 DEF CreateContainer, CreateContainerFails, Marked, TypeOK
<1> QED BY <1>1, <1>2, <1>3, <1>4, <1>5, <1>6, <1>7, <1>8, <1>9 DEF Next

Fresh ==
  /\ \A s \in Servers : Marked(s) => Begun(s)
  /\ \A t \in Threads : pc[t] \in {"admitted", "seeded"} => srv[t] \in used
  /\ \A t, u \in Threads :
       /\ pc[t] \in {"admitted", "seeded"} /\ pc[u] \in {"admitted", "seeded"}
       /\ srv[t] = srv[u]
       => t = u

LEMMA FreshInit == ASSUME Init PROVE Fresh
BY DEF Init, Fresh, Marked, Begun, AtWork, NoPass

LEMMA FreshStep == ASSUME ~ReuseIds, TypeOK, Fresh, [Next]_vars PROVE Fresh'
<1>1. ASSUME NEW s \in Servers, Marked(s)' PROVE Begun(s)'
  <2>1. CASE Marked(s)
    BY <2>1, BegunStays DEF Fresh
  <2>2. ASSUME NEW t \in Threads, srv[t] = s, CreateContainer(t) \/ CreateContainerFails(t)
        PROVE  Begun(s)'
    BY <2>2 DEF CreateContainer, CreateContainerFails, Fresh, Begun, TypeOK, Goto, docker
  <2> QED BY <1>1, <2>1, <2>2, MarkStep
<1>2. ASSUME NEW t \in Threads, pc'[t] \in {"admitted", "seeded"} PROVE srv'[t] \in used'
  BY <1>2, CreatesStep DEF Fresh
<1>3. ASSUME NEW t \in Threads, NEW u \in Threads, srv'[t] = srv'[u],
             pc'[t] \in {"admitted", "seeded"}, pc'[u] \in {"admitted", "seeded"}
      PROVE  t = u
  BY <1>3, CreatesStep DEF Fresh
<1> QED BY <1>1, <1>2, <1>3 DEF Fresh

-----------------------------------------------------------------------------
(* What nobody asks for is never under way *)

Unasked ==
  /\ "create" \notin Requests => \A t \in Threads : pc[t] \notin SlotSteps
  /\ "rebuild" \notin Requests => \A t \in Threads : pc[t] \notin {"rebuild", "recreate", "restore"}
  /\ "reinstall" \notin Requests => \A t \in Threads : pc[t] # "reinstalling"
  /\ "reconcile" \notin Requests =>
       /\ pass = NoPass
       /\ \A t \in Threads : pc[t] \notin {"reconciling", "dropping", "clearing"}

LEMMA UnaskedInit == ASSUME Init PROVE Unasked
BY DEF Init, Unasked, SlotSteps

LEMMA UnaskedStep == ASSUME TypeOK, Unasked, [Next]_vars PROVE Unasked'
<1> USE NoneAssumption
<1> USE DEF TypeOK, Unasked, SlotSteps, Powers, Goto, NoPass, worker
<1>1. ASSUME NEW t \in Threads, NEW r \in Servers, Request(t, r) PROVE Unasked'
  <2>1. CASE CreateAdmit(t, r) \/ ReinstallCheck(t, r) \/ RebuildLookup(t, r)
    BY <2>1 DEF CreateAdmit, ReinstallCheck, RebuildLookup, Accept
  <2>2. CASE RemoveContainer(t, r) \/ RemoveRefused(t, r)
    BY <2>2 DEF RemoveContainer, RemoveRefused, Refused, TakeDown, Accept
  <2>3. ASSUME NEW action \in Powers, PowerLookup(t, r, action) PROVE Unasked'
    BY <2>3 DEF PowerLookup, Accept
  <2> QED BY <1>1, <2>1, <2>2, <2>3 DEF Request
<1>2. ASSUME NEW t \in Threads, Handler(t) PROVE Unasked'
  <2>1. CASE CreateSeed(t) \/ CreateContainer(t) \/ CreateContainerFails(t) \/ UndoContainer(t)
             \/ UndoData(t)
    BY <2>1 DEF CreateSeed, CreateContainer, CreateContainerFails, UndoContainer, UndoData
  <2>2. ASSUME NEW j \in Jobs, InstallSpawned(t, j) PROVE Unasked'
    BY <2>2 DEF InstallSpawned, ForCreate, ForReinstall
  <2>3. CASE InstallNotSpawned(t) \/ InstallRefused(t)
    BY <2>3 DEF InstallNotSpawned, InstallRefused, ForCreate, ForReinstall
  <2>4. CASE PowerApply(t) \/ PowerRefused(t)
    BY <2>4 DEF PowerApply, PowerRefused
  <2>5. CASE RebuildRemove(t) \/ RebuildNotFound(t) \/ RebuildCannotRemove(t)
             \/ RebuildCreate(t) \/ RebuildCreateFails(t)
    BY <2>5 DEF RebuildRemove, RebuildNotFound, RebuildCannotRemove, Refused, RebuildCreate,
                RebuildCreateFails
  <2>6. CASE RestoreContainer(t) \/ RestoreFails(t)
    BY <2>6 DEF RestoreContainer, RestoreFails
  <2>7. CASE RemoveData(t) \/ RemoveDataFails(t) \/ ForgetMemory(t) \/ ForgetFile(t)
    BY <2>7 DEF RemoveData, RemoveDataFails, ForgetMemory, ForgetFile, Return
  <2>8. ASSUME NEW r \in Servers, ReconcileRemove(t, r) PROVE Unasked'
    BY <2>8 DEF ReconcileRemove, TakeDown
  <2>9. ASSUME NEW r \in Servers, ReconcileForget(t, r) \/ ReconcileGivesUp(t, r) \/ ReconcileDir(t, r)
        PROVE  Unasked'
    BY <2>9 DEF ReconcileForget, ReconcileGivesUp, Refused, ReconcileDir
  <2>10. CASE ReconcileReap(t) \/ ReconcileEnds(t)
    BY <2>10 DEF ReconcileReap, ReapInstalls, ReconcileEnds
  <2> QED BY <1>2, <2>1, <2>2, <2>3, <2>4, <2>5, <2>6, <2>7, <2>8, <2>9, <2>10 DEF Handler
<1>3. ASSUME NEW t \in Threads, Reconcile(t) PROVE Unasked'
  BY <1>3 DEF Reconcile, ReconcileSnapshot, Accept
<1>4. ASSUME \/ \E j \in Jobs : Job(j)
             \/ \E s \in Servers : BotExits(s)
             \/ SweepDirs \/ SweepContainers \/ Crash \/ Restart \/ UNCHANGED vars
      PROVE  Unasked'
  BY <1>4 DEF Job, JobBegins, JobCannotBegin, JobEnds, JobReports, BotExits, SweepDirs,
              SweepContainers, ReapInstalls, Crash, Restart, vars
<1> QED BY <1>1, <1>2, <1>3, <1>4 DEF Next

-----------------------------------------------------------------------------
(* What every step leaves of the containers and the install threads *)

\* Who keeps a live object when the containers of ss go.
LEMMA ForsakeShape ==
  ASSUME NEW ss, Forsake(ss), NEW t \in Threads
  PROVE  handle'[t] <=> handle[t] /\ srv[t] \notin ss
BY DEF Forsake

\* An object looked up by a power call is live as long as it says so.
HandlesLive ==
  \A t \in Threads : pc[t] \in Powers /\ handle[t] => container[srv[t]] # "absent"

LEMMA HandlesLiveInit == ASSUME Init PROVE HandlesLive
BY DEF Init, HandlesLive, Powers

LEMMA HandlesLiveStep == ASSUME TypeOK, HandlesLive, [Next]_vars PROVE HandlesLive'
<1> USE DEF TypeOK, SlotSteps, LockedSteps, Powers, Goto, docker, state, worker, HandlesLive
<1>1. ASSUME NEW t \in Threads, NEW r \in Servers, Request(t, r) PROVE HandlesLive'
  <2>1. CASE CreateAdmit(t, r) \/ ReinstallCheck(t, r) \/ RebuildLookup(t, r)
    BY <2>1 DEF CreateAdmit, ReinstallCheck, RebuildLookup, Accept
  <2>2. CASE RemoveContainer(t, r) \/ RemoveRefused(t, r)
    BY <2>2, ForsakeShape DEF RemoveContainer, RemoveRefused, Refused, TakeDown, Accept
  <2>3. ASSUME NEW action \in Powers, PowerLookup(t, r, action) PROVE HandlesLive'
    BY <2>3 DEF PowerLookup, Accept
  <2> QED BY <1>1, <2>1, <2>2, <2>3 DEF Request
<1>2. ASSUME NEW t \in Threads, Handler(t) PROVE HandlesLive'
  <2>1. CASE CreateSeed(t) \/ CreateContainer(t) \/ CreateContainerFails(t) \/ UndoData(t)
    BY <2>1 DEF CreateSeed, CreateContainer, CreateContainerFails, UndoData
  <2>2. CASE UndoContainer(t)
    BY <2>2, ForsakeShape DEF UndoContainer
  <2>3. ASSUME NEW j \in Jobs, InstallSpawned(t, j) PROVE HandlesLive'
    BY <2>3 DEF InstallSpawned, ForCreate, ForReinstall
  <2>4. CASE InstallNotSpawned(t) \/ InstallRefused(t)
    BY <2>4 DEF InstallNotSpawned, InstallRefused, ForCreate, ForReinstall
  <2>5. CASE PowerApply(t) \/ PowerRefused(t)
    BY <2>5 DEF PowerApply, PowerRefused
  <2>6. CASE RebuildRemove(t)
    BY <2>6, ForsakeShape DEF RebuildRemove
  <2>7. CASE RebuildNotFound(t) \/ RebuildCannotRemove(t) \/ RebuildCreate(t)
             \/ RebuildCreateFails(t)
    BY <2>7 DEF RebuildNotFound, RebuildCannotRemove, Refused, RebuildCreate, RebuildCreateFails,
                Built
  <2>8. CASE RestoreContainer(t) \/ RestoreFails(t)
    BY <2>8 DEF RestoreContainer, RestoreFails, Built
  <2>9. CASE RemoveData(t) \/ RemoveDataFails(t) \/ ForgetMemory(t) \/ ForgetFile(t)
    BY <2>9 DEF RemoveData, RemoveDataFails, ForgetMemory, ForgetFile, Return
  <2>10. ASSUME NEW r \in Servers, ReconcileRemove(t, r) PROVE HandlesLive'
    BY <2>10, ForsakeShape DEF ReconcileRemove, TakeDown
  <2>11. ASSUME NEW r \in Servers, ReconcileForget(t, r) \/ ReconcileGivesUp(t, r) \/ ReconcileDir(t, r)
         PROVE  HandlesLive'
    BY <2>11 DEF ReconcileForget, ReconcileGivesUp, Refused, ReconcileDir
  <2>12. CASE ReconcileReap(t) \/ ReconcileEnds(t)
    BY <2>12 DEF ReconcileReap, ReapInstalls, ReconcileEnds
  <2> QED BY <1>2, <2>1, <2>2, <2>3, <2>4, <2>5, <2>6, <2>7, <2>8, <2>9, <2>10, <2>11, <2>12 DEF Handler
<1>3. ASSUME NEW r \in Servers, BotExits(r) PROVE HandlesLive'
  BY <1>3 DEF BotExits
<1>4. CASE SweepContainers
  BY <1>4, ForsakeShape DEF SweepContainers, ReapInstalls
<1>5. ASSUME \/ \E t \in Threads : Reconcile(t)
             \/ \E j \in Jobs : Job(j)
             \/ SweepDirs \/ Crash \/ Restart \/ UNCHANGED vars
      PROVE  HandlesLive'
  BY <1>5 DEF Reconcile, ReconcileSnapshot, Accept, Job, JobBegins, JobCannotBegin, JobEnds,
              JobReports, SweepDirs, Crash, Restart, vars
<1> QED BY <1>1, <1>2, <1>3, <1>4, <1>5 DEF Next

\* The steps that make a container where there was none.
LEMMA MakerStep ==
  ASSUME TypeOK, HandlesLive, [Next]_vars, NEW s \in Servers,
         container[s] = "absent", container'[s] # "absent"
  PROVE  \E t \in Threads : srv[t] = s /\ pc[t] \in {"seeded", "recreate", "restore"}
<1> USE DEF TypeOK, HandlesLive, docker
<1>1. ASSUME NEW t \in Threads, NEW r \in Servers, Request(t, r) PROVE FALSE
  <2>1. CASE CreateAdmit(t, r) \/ ReinstallCheck(t, r) \/ RebuildLookup(t, r)
             \/ RemoveContainer(t, r) \/ RemoveRefused(t, r)
    BY <2>1 DEF CreateAdmit, ReinstallCheck, RebuildLookup, RemoveContainer, RemoveRefused,
                Refused, TakeDown
  <2>2. ASSUME NEW action \in Powers, PowerLookup(t, r, action) PROVE FALSE
    BY <2>2 DEF PowerLookup
  <2> QED BY <1>1, <2>1, <2>2 DEF Request
<1>2. ASSUME NEW t \in Threads, Handler(t)
      PROVE  srv[t] = s /\ pc[t] \in {"seeded", "recreate", "restore"}
  <2>1. CASE CreateSeed(t) \/ CreateContainer(t) \/ CreateContainerFails(t) \/ UndoContainer(t)
             \/ UndoData(t)
    BY <2>1 DEF CreateSeed, CreateContainer, CreateContainerFails, UndoContainer, UndoData
  <2>2. ASSUME NEW j \in Jobs, InstallSpawned(t, j) PROVE FALSE
    BY <2>2 DEF InstallSpawned
  <2>3. CASE InstallNotSpawned(t) \/ InstallRefused(t) \/ PowerApply(t) \/ PowerRefused(t)
    BY <2>3 DEF InstallNotSpawned, InstallRefused, PowerApply, PowerRefused
  <2>4. CASE RebuildRemove(t) \/ RebuildNotFound(t) \/ RebuildCannotRemove(t)
             \/ RebuildCreate(t) \/ RebuildCreateFails(t)
             \/ RestoreContainer(t) \/ RestoreFails(t)
    BY <2>4 DEF RebuildRemove, RebuildNotFound, RebuildCannotRemove, Refused, RebuildCreate,
                RebuildCreateFails, RestoreContainer,
                RestoreFails
  <2>5. CASE RemoveData(t) \/ RemoveDataFails(t) \/ ForgetMemory(t) \/ ForgetFile(t)
             \/ ReconcileReap(t) \/ ReconcileEnds(t)
    BY <2>5 DEF RemoveData, RemoveDataFails, ForgetMemory, ForgetFile, ReconcileReap, ReapInstalls,
                ReconcileEnds
  <2>6. ASSUME NEW r \in Servers, ReconcileRemove(t, r) \/ ReconcileForget(t, r)
                                  \/ ReconcileGivesUp(t, r) \/ ReconcileDir(t, r)
        PROVE  FALSE
    BY <2>6 DEF ReconcileRemove, TakeDown, ReconcileForget, ReconcileGivesUp, Refused, ReconcileDir
  <2> QED BY <1>2, <2>1, <2>2, <2>3, <2>4, <2>5, <2>6 DEF Handler
<1>3. ASSUME \/ \E t \in Threads : Reconcile(t)
             \/ \E j \in Jobs : Job(j)
             \/ \E r \in Servers : BotExits(r)
             \/ SweepDirs \/ SweepContainers \/ Crash \/ Restart \/ UNCHANGED vars
      PROVE  FALSE
  BY <1>3 DEF Reconcile, ReconcileSnapshot, Job, JobBegins, JobCannotBegin, JobEnds, JobReports,
              BotExits, SweepDirs, SweepContainers, ReapInstalls, Crash, Restart, vars
<1> QED BY <1>1, <1>2, <1>3 DEF Next

\* The step that makes a directory is the seeding of a create.
LEMMA SeedStep ==
  ASSUME TypeOK, [Next]_vars, NEW s \in Servers, ~dir[s], dir'[s]
  PROVE  \E t \in Threads : srv[t] = s /\ pc[t] = "admitted"
<1> USE DEF TypeOK, docker
<1>1. ASSUME NEW t \in Threads, NEW r \in Servers, Request(t, r) PROVE FALSE
  <2>1. CASE CreateAdmit(t, r) \/ ReinstallCheck(t, r) \/ RebuildLookup(t, r)
             \/ RemoveContainer(t, r) \/ RemoveRefused(t, r)
    BY <2>1 DEF CreateAdmit, ReinstallCheck, RebuildLookup, RemoveContainer, RemoveRefused,
                Refused, TakeDown
  <2>2. ASSUME NEW action \in Powers, PowerLookup(t, r, action) PROVE FALSE
    BY <2>2 DEF PowerLookup
  <2> QED BY <1>1, <2>1, <2>2 DEF Request
<1>2. ASSUME NEW t \in Threads, Handler(t) PROVE srv[t] = s /\ pc[t] = "admitted"
  <2>1. CASE CreateSeed(t) \/ CreateContainer(t) \/ CreateContainerFails(t) \/ UndoContainer(t)
             \/ UndoData(t)
    BY <2>1 DEF CreateSeed, CreateContainer, CreateContainerFails, UndoContainer, UndoData
  <2>2. ASSUME NEW j \in Jobs, InstallSpawned(t, j) PROVE FALSE
    BY <2>2 DEF InstallSpawned
  <2>3. CASE InstallNotSpawned(t) \/ InstallRefused(t) \/ PowerApply(t) \/ PowerRefused(t)
    BY <2>3 DEF InstallNotSpawned, InstallRefused, PowerApply, PowerRefused
  <2>4. CASE RebuildRemove(t) \/ RebuildNotFound(t) \/ RebuildCannotRemove(t)
             \/ RebuildCreate(t) \/ RebuildCreateFails(t)
             \/ RestoreContainer(t) \/ RestoreFails(t)
    BY <2>4 DEF RebuildRemove, RebuildNotFound, RebuildCannotRemove, Refused, RebuildCreate,
                RebuildCreateFails, RestoreContainer,
                RestoreFails
  <2>5. CASE RemoveData(t) \/ RemoveDataFails(t) \/ ForgetMemory(t) \/ ForgetFile(t)
             \/ ReconcileReap(t) \/ ReconcileEnds(t)
    BY <2>5 DEF RemoveData, RemoveDataFails, ForgetMemory, ForgetFile, ReconcileReap, ReapInstalls,
                ReconcileEnds
  <2>6. ASSUME NEW r \in Servers, ReconcileRemove(t, r) \/ ReconcileForget(t, r)
                                  \/ ReconcileGivesUp(t, r) \/ ReconcileDir(t, r)
        PROVE  FALSE
    BY <2>6 DEF ReconcileRemove, TakeDown, ReconcileForget, ReconcileGivesUp, Refused, ReconcileDir
  <2> QED BY <1>2, <2>1, <2>2, <2>3, <2>4, <2>5, <2>6 DEF Handler
<1>3. ASSUME \/ \E t \in Threads : Reconcile(t)
             \/ \E j \in Jobs : Job(j)
             \/ \E r \in Servers : BotExits(r)
             \/ SweepDirs \/ SweepContainers \/ Crash \/ Restart \/ UNCHANGED vars
      PROVE  FALSE
  BY <1>3 DEF Reconcile, ReconcileSnapshot, Job, JobBegins, JobCannotBegin, JobEnds, JobReports,
              BotExits, SweepDirs, SweepContainers, ReapInstalls, Crash, Restart, vars
<1> QED BY <1>1, <1>2, <1>3 DEF Next

-----------------------------------------------------------------------------
(* Containers and the data under them *)

DataHeld ==
  /\ ContainerHasData
  /\ pass.dirs \subseteq condemned
  /\ \A t \in Threads :
       /\ pc[t] \in {"recreate", "restore"} => container[srv[t]] = "absent"
       /\ pc[t] \in {"built", "undoContainer"} /\ handle[t] => container[srv[t]] # "absent"
  /\ \A t \in Threads : srv[t] \notin stuck \cup condemned =>
       /\ pc[t] \in {"seeded", "recreate", "restore"} => dir[srv[t]]
       /\ pc[t] \in {"undoData", "purging"} => container[srv[t]] = "absent"
       /\ pc[t] = "undoData" =>
            \A u \in Threads : pc[u] \in {"recreate", "restore"} => srv[u] # srv[t]

LEMMA DataHeldInit == ASSUME Init PROVE DataHeld
<1>1. ASSUME NEW s \in Servers, container[s] # "absent" PROVE dir[s]
  BY <1>1, ZenonT(60) DEF Init
<1>2. pass.dirs = {} /\ \A t \in Threads : pc[t] = "idle"
  BY DEF Init, NoPass
<1> QED BY <1>1, <1>2 DEF DataHeld, ContainerHasData

\* A create that has yet to make its container works alone on its server.
LEMMA MakerAlone ==
  ASSUME TypeOK, Fresh, NEW t \in Threads, pc[t] \in {"admitted", "seeded"}
  PROVE  /\ container[srv[t]] = "absent"
         /\ \A u \in Threads \ {t} :
              pc[u] \notin {"idle", "reconciling", "clearing"} => srv[u] # srv[t]
BY DEF TypeOK, Fresh, Marked, Begun, AtWork

LEMMA DataHeldStep ==
  ASSUME ~ReuseIds, TypeOK, Fresh, Fresh', ServerMutex, HandlesLive, DataHeld, [Next]_vars
  PROVE  DataHeld'
<1> USE DEF TypeOK, ServerMutex, SlotSteps, LockedSteps, Powers, Goto, docker, state, worker,
            process, history, DataHeld, HandlesLive, ContainerHasData
<1>1. ASSUME NEW t \in Threads, NEW r \in Servers, Request(t, r) PROVE DataHeld'
  <2>1. CASE CreateAdmit(t, r)
    BY <2>1 DEF CreateAdmit, Accept
  <2>5. CASE ReinstallCheck(t, r)
    BY <2>5 DEF ReinstallCheck, Accept
  <2>6. CASE RebuildLookup(t, r)
    BY <2>6 DEF RebuildLookup, Accept
  <2>2. CASE RemoveContainer(t, r)
    <3>1. /\ container' = [container EXCEPT ![r] = "absent"] /\ dir' = dir /\ pass' = pass
          /\ pc[t] = "idle" /\ srv' = [srv EXCEPT ![t] = r] /\ Forsake({r})
          /\ stuck' = stuck /\ condemned' = condemned
          /\ \/ pc' = [pc EXCEPT ![t] = "purging"]
             \/ pc' = [pc EXCEPT ![t] = "forgetting"]
      BY <2>2 DEF RemoveContainer, TakeDown, Accept
    <3> QED BY <3>1, ForsakeShape, SMTT(60)
  <2>4. CASE RemoveRefused(t, r)
    BY <2>4 DEF RemoveRefused, Refused
  <2>3. ASSUME NEW action \in Powers, PowerLookup(t, r, action) PROVE DataHeld'
    BY <2>3 DEF PowerLookup, Accept
  <2> QED BY <1>1, <2>1, <2>2, <2>3, <2>4, <2>5, <2>6 DEF Request
<1>2. ASSUME NEW t \in Threads, Handler(t) PROVE DataHeld'
  <2>1. CASE CreateSeed(t)
    BY <2>1 DEF CreateSeed
  <2>2. CASE CreateContainer(t)
    BY <2>2, MakerAlone DEF CreateContainer, NoPass
  <2>3. CASE CreateContainerFails(t)
    BY <2>3, MakerAlone DEF CreateContainerFails
  <2>4. CASE UndoContainer(t)
    BY <2>4, ForsakeShape DEF UndoContainer
  <2>5. CASE UndoData(t)
    BY <2>5, MakerAlone DEF UndoData
  <2>6. ASSUME NEW j \in Jobs, InstallSpawned(t, j) PROVE DataHeld'
    BY <2>6 DEF InstallSpawned, ForCreate, ForReinstall
  <2>7. CASE InstallNotSpawned(t) \/ InstallRefused(t)
    BY <2>7 DEF InstallNotSpawned, InstallRefused, ForCreate, ForReinstall
  <2>8. CASE PowerApply(t) \/ PowerRefused(t)
    BY <2>8 DEF PowerApply, PowerRefused
  <2>9. CASE RebuildRemove(t) \/ RebuildNotFound(t) \/ RebuildCannotRemove(t)
             \/ RebuildCreateFails(t)
    BY <2>9, ForsakeShape DEF RebuildRemove, RebuildNotFound, RebuildCannotRemove, Refused,
                              RebuildCreateFails
  <2>10. CASE RebuildCreate(t)
    BY <2>10 DEF RebuildCreate, Built, NoPass
  <2>11. CASE RestoreContainer(t)
    BY <2>11 DEF RestoreContainer, Built, NoPass
  <2>12. CASE RestoreFails(t)
    BY <2>12 DEF RestoreFails
  <2>13. CASE RemoveData(t)
    <3>1. /\ container' = container /\ dir' = [dir EXCEPT ![srv[t]] = FALSE] /\ pass' = pass
          /\ pc[t] = "purging" /\ pc' = [pc EXCEPT ![t] = "forgetting"]
          /\ srv' = srv /\ handle' = handle
          /\ stuck' = stuck /\ condemned' = condemned
      BY <2>13 DEF RemoveData
    <3>2. ASSUME NEW u \in Threads, pc[u] = "seeded" PROVE srv[t] # srv[u]
      BY <3>1, <3>2, MakerAlone, Zenon
    <3>3. \A u \in Threads : pc[u] \in {"recreate", "restore"} => srv[u] # srv[t]
      BY <3>1
    <3> QED BY <3>1, <3>2, <3>3, SMTT(60)
  <2>14. CASE RemoveDataFails(t) \/ ForgetMemory(t) \/ ForgetFile(t)
    BY <2>14 DEF RemoveDataFails, ForgetMemory, ForgetFile, Return
  <2>15. ASSUME NEW r \in Servers, ReconcileRemove(t, r) PROVE DataHeld'
    BY <2>15, ForsakeShape DEF ReconcileRemove, TakeDown
  <2>16. ASSUME NEW r \in Servers, ReconcileForget(t, r) \/ ReconcileGivesUp(t, r) PROVE DataHeld'
    BY <2>16 DEF ReconcileForget, ReconcileGivesUp, Refused
  <2>17. ASSUME NEW r \in Servers, ReconcileDir(t, r) PROVE DataHeld'
    BY <2>17 DEF ReconcileDir
  <2>18. CASE ReconcileReap(t) \/ ReconcileEnds(t)
    BY <2>18 DEF ReconcileReap, ReapInstalls, ReconcileEnds, NoPass
  <2> QED BY <1>2, <2>1, <2>2, <2>3, <2>4, <2>5, <2>6, <2>7, <2>8, <2>9, <2>10,
           <2>11, <2>12, <2>13, <2>14, <2>15, <2>16, <2>17, <2>18 DEF Handler
<1>3. ASSUME NEW t \in Threads, Reconcile(t) PROVE DataHeld'
  BY <1>3 DEF Reconcile, ReconcileSnapshot, Accept, UpTo
<1>4. ASSUME NEW j \in Jobs, Job(j) PROVE DataHeld'
  BY <1>4 DEF Job, JobBegins, JobCannotBegin, JobEnds, JobReports
<1>5. ASSUME NEW r \in Servers, BotExits(r) PROVE DataHeld'
  BY <1>5 DEF BotExits
<1>6. ASSUME SweepDirs \/ UNCHANGED vars PROVE DataHeld'
  BY <1>6 DEF SweepDirs, vars
<1>7. ASSUME SweepContainers PROVE DataHeld'
  BY <1>7, ForsakeShape DEF SweepContainers, ReapInstalls
<1>8. ASSUME Crash PROVE DataHeld'
  BY <1>8 DEF Crash, NoPass
<1>9. ASSUME Restart PROVE DataHeld'
  BY <1>9 DEF Restart
<1> QED BY <1>1, <1>2, <1>3, <1>4, <1>5, <1>6, <1>7, <1>8, <1>9 DEF Next

\* No container outlives its data directory, whatever creates, rebuilds, power
\* calls, installs, removals, passes, sweeps, failed calls and kills of the agent
\* do, as long as ids are fresh: but for the servers whose rollback warned and
\* those whose directory a pass removed on a snapshot without their container.
THEOREM DataOutlivesContainer ==
  ASSUME ~ReuseIds
  PROVE  Spec => []ContainerHasData
<1>1. Init => Fresh /\ HandlesLive /\ DataHeld
  BY FreshInit, HandlesLiveInit, DataHeldInit
<1>2. TypeOK /\ ServerMutex /\ Fresh /\ HandlesLive /\ DataHeld /\ [Next]_vars
      => Fresh' /\ HandlesLive' /\ DataHeld'
  BY FreshStep, HandlesLiveStep, DataHeldStep
<1>3. DataHeld => ContainerHasData
  BY DEF DataHeld
<1> QED BY <1>1, <1>2, <1>3, TypeCorrect, ServerMutexHolds, PTL DEF Spec

-----------------------------------------------------------------------------
(* Install threads and what they install *)

\* A thread that will write the state of its server.
Active(j) == job[j].phase \notin {"none", "leftover"}

\* The threads of a step are those of the state before, or the one it starts.
LEMMA ActiveStep ==
  ASSUME TypeOK, [Next]_vars, NEW j \in Jobs, Active(j)',
         \A t \in Threads : ~InstallSpawned(t, j)
  PROVE  Active(j) /\ job'[j].srv = job[j].srv
<1> USE DEF TypeOK, Active
<1>1. CASE job' = job
  BY <1>1
<1>2. ASSUME NEW js, Reap(js) PROVE Active(j) /\ job'[j].srv = job[j].srv
  BY <1>2, ReapShape
<1>3. ASSUME NEW t \in Threads, NEW k \in Jobs \ {j}, InstallSpawned(t, k)
      PROVE  Active(j) /\ job'[j].srv = job[j].srv
  BY <1>3 DEF InstallSpawned
<1>4. ASSUME NEW k \in Jobs, Job(k) PROVE Active(j) /\ job'[j].srv = job[j].srv
  BY <1>4, SMTT(60) DEF Job, JobBegins, JobCannotBegin, JobEnds, JobReports, SetPhase
<1>5. CASE Crash
  BY <1>5 DEF Crash, Orphaned
<1>6. CASE Restart
  BY <1>2, <1>6 DEF Restart, StartupReap, ReapInstalls
<1> HIDE DEF TypeOK, Active
<1> QED BY <1>1, <1>2, <1>3, <1>4, <1>5, <1>6, HandlerFrame, RequestFrame, OtherFrame
       DEF Next, ReapInstalls

\* A dead agent has nothing under way.
Still ==
  ~up => (\A t \in Threads : pc[t] = "idle") /\ \A j \in Jobs : ~Active(j)

LEMMA StillStep == ASSUME TypeOK, Still, [Next]_vars PROVE Still'
<1> SUFFICES ASSUME ~up' PROVE (\A t \in Threads : pc'[t] = "idle") /\ \A j \in Jobs : ~Active(j)'
  BY DEF Still
<1>1. CASE up
  <2>1. Crash
    BY <1>1, HandlerFrame, RequestFrame, JobFrame, OtherFrame DEF Next, Restart
  <2> QED BY <2>1 DEF Crash, Orphaned, Active
<1>2. CASE ~up
  <2>1. ~Restart /\ ~Crash
    BY <1>2 DEF Restart, Crash
  <2>2. job' = job /\ pc' = pc
    BY <1>2, <2>1, HandlerFrame, RequestFrame, JobFrame, OtherFrame DEF Next, Still
  <2> QED BY <1>2, <2>2 DEF Still, Active
<1> QED BY <1>1, <1>2

\* A server that has lost its container, or its directory, for good.
Gone(s) == Begun(s) /\ container[s] = "absent"
Razed(s) == Begun(s) /\ ~dir[s]

LEMMA GoneStays ==
  ASSUME ~ReuseIds, "rebuild" \notin Requests, TypeOK, Unasked, HandlesLive, [Next]_vars,
         NEW s \in Servers, Gone(s)
  PROVE  Gone(s)'
BY BegunStays, MakerStep DEF Gone, Begun, Unasked

LEMMA RazedStays ==
  ASSUME ~ReuseIds, TypeOK, [Next]_vars, NEW s \in Servers, Razed(s)
  PROVE  Razed(s)'
BY BegunStays, SeedStep DEF Razed, Begun

\* What the steps other than those of a rebuild do to the recorded states.
LEMMA RecordStep ==
  ASSUME TypeOK, [Next]_vars, NEW s \in Servers, install'[s] # install[s],
         \A t \in Threads : pc[t] # "restore"
  PROVE  \/ install'[s] = "running"
         \/ ~Installing(s)
         \/ \E j \in Jobs : Active(j) /\ ~Active(j)' /\ job[j].srv = s
         \/ \E t \in Threads : pc[t] = "forgetting" /\ srv[t] = s
         \/ s \in pass.files
         \/ s \in pass.orphans /\ container[s] = "absent"
         \/ Crash \/ Restart
<1> USE DEF TypeOK, state
<1>1. ASSUME NEW t \in Threads, Reconcile(t) \/ \E r \in Servers : Request(t, r) PROVE FALSE
  BY <1>1 DEF Reconcile, ReconcileSnapshot, Request, CreateAdmit, ReinstallCheck, PowerLookup,
              RebuildLookup, RemoveContainer, RemoveRefused, Refused, TakeDown
<1>2. ASSUME NEW t \in Threads, Handler(t)
      PROVE  \/ install'[s] = "running"
             \/ ~Installing(s)
             \/ pc[t] = "forgetting" /\ srv[t] = s
             \/ s \in pass.files
             \/ s \in pass.orphans /\ container[s] = "absent"
  <2>1. CASE CreateSeed(t) \/ CreateContainer(t) \/ CreateContainerFails(t) \/ UndoContainer(t)
             \/ UndoData(t)
    BY <2>1 DEF CreateSeed, CreateContainer, CreateContainerFails, UndoContainer, UndoData
  <2>2. ASSUME NEW j \in Jobs, InstallSpawned(t, j) PROVE ~Installing(s)
    BY <2>2 DEF InstallSpawned, SetInstall
  <2>3. CASE InstallNotSpawned(t) \/ InstallRefused(t) \/ PowerApply(t) \/ PowerRefused(t)
    BY <2>3 DEF InstallNotSpawned, InstallRefused, PowerApply, PowerRefused, SetInstall
  <2>4. CASE RebuildRemove(t) \/ RebuildNotFound(t) \/ RebuildCannotRemove(t)
             \/ RebuildCreate(t) \/ RebuildCreateFails(t)
             \/ RestoreContainer(t) \/ RestoreFails(t)
    BY <2>4 DEF RebuildRemove, RebuildNotFound, RebuildCannotRemove, Refused, RebuildCreate,
                RebuildCreateFails, RestoreContainer,
                RestoreFails
  <2>5. CASE RemoveData(t) \/ RemoveDataFails(t) \/ ForgetMemory(t) \/ ForgetFile(t)
             \/ ReconcileReap(t) \/ ReconcileEnds(t)
    BY <2>5 DEF RemoveData, RemoveDataFails, ForgetMemory, ForgetFile, ReconcileReap, ReapInstalls,
                ReconcileEnds
  <2>6. ASSUME NEW r \in Servers, ReconcileRemove(t, r) \/ ReconcileDir(t, r)
        PROVE  FALSE
    BY <2>6 DEF ReconcileRemove, TakeDown, ReconcileDir
  <2>7. ASSUME NEW r \in Servers, ReconcileForget(t, r) \/ ReconcileGivesUp(t, r)
        PROVE  s \in pass.files \/ (s \in pass.orphans /\ container[s] = "absent")
    BY <2>7 DEF ReconcileForget, ReconcileGivesUp, Refused
  <2> QED BY <1>2, <2>1, <2>2, <2>3, <2>4, <2>5, <2>6, <2>7 DEF Handler
<1>3. ASSUME NEW j \in Jobs, Job(j)
      PROVE  Active(j) /\ ~Active(j)' /\ job[j].srv = s
  BY <1>3 DEF Job, JobBegins, JobCannotBegin, JobEnds, JobReports, SetPhase, SetInstall, Active
<1>4. ASSUME \/ \E r \in Servers : BotExits(r)
             \/ SweepDirs \/ SweepContainers \/ UNCHANGED vars
      PROVE  FALSE
  BY <1>4 DEF BotExits, SweepDirs, SweepContainers, ReapInstalls, vars
<1> QED BY <1>1, <1>2, <1>3, <1>4 DEF Next

\* How a worker comes to hold the lock for a reinstall or a removal.
LEMMA EntryStep ==
  ASSUME TypeOK, [Next]_vars, NEW t \in Threads,
         pc'[t] \in {"reinstalling", "purging", "forgetting"}
  PROVE  \/ pc[t] = pc'[t] /\ srv'[t] = srv[t]
         \/ pc[t] = "purging" /\ pc'[t] = "forgetting" /\ srv'[t] = srv[t] /\ ~dir'[srv[t]]
         \/ /\ pc'[t] = "reinstalling"
            /\ container[srv'[t]] # "absent" /\ ~Installing(srv'[t]) /\ job' = job
         \/ /\ pc'[t] # "reinstalling"
            /\ container[srv'[t]] # "absent" /\ container'[srv'[t]] = "absent"
            /\ pc'[t] = "purging" \/ "remove" \in Requests
<1> USE DEF TypeOK, SlotSteps, LockedSteps, Powers, Goto, docker, worker
<1> DEFINE Stays == pc[t] = pc'[t] /\ srv'[t] = srv[t]
           Checks == /\ pc'[t] = "reinstalling"
                     /\ container[srv'[t]] # "absent" /\ ~Installing(srv'[t]) /\ job' = job
           Takes == /\ pc'[t] # "reinstalling"
                    /\ container[srv'[t]] # "absent" /\ container'[srv'[t]] = "absent"
                    /\ pc'[t] = "purging" \/ "remove" \in Requests
<1>1. ASSUME NEW u \in Threads, NEW r \in Servers, Request(u, r) PROVE Stays \/ Checks \/ Takes
  <2>1. CASE CreateAdmit(u, r) \/ RebuildLookup(u, r)
    BY <2>1 DEF CreateAdmit, RebuildLookup, Accept
  <2>2. CASE ReinstallCheck(u, r)
    BY <2>2 DEF ReinstallCheck, Accept
  <2>3. CASE RemoveContainer(u, r) \/ RemoveRefused(u, r)
    BY <2>3 DEF RemoveContainer, RemoveRefused, Refused, TakeDown, Accept
  <2>4. ASSUME NEW action \in Powers, PowerLookup(u, r, action) PROVE Stays
    BY <2>4 DEF PowerLookup, Accept
  <2> QED BY <1>1, <2>1, <2>2, <2>3, <2>4 DEF Request
<1>2. ASSUME NEW u \in Threads, Handler(u), ~RemoveData(u) PROVE Stays \/ Takes
  <2>1. CASE CreateSeed(u) \/ CreateContainer(u) \/ CreateContainerFails(u) \/ UndoContainer(u)
             \/ UndoData(u)
    BY <2>1 DEF CreateSeed, CreateContainer, CreateContainerFails, UndoContainer, UndoData
  <2>2. ASSUME NEW j \in Jobs, InstallSpawned(u, j) PROVE Stays
    BY <2>2 DEF InstallSpawned, ForCreate, ForReinstall
  <2>3. CASE InstallNotSpawned(u) \/ InstallRefused(u) \/ PowerApply(u) \/ PowerRefused(u)
    BY <2>3 DEF InstallNotSpawned, InstallRefused, ForCreate, ForReinstall, PowerApply, PowerRefused
  <2>4. CASE RebuildRemove(u) \/ RebuildNotFound(u) \/ RebuildCannotRemove(u)
             \/ RebuildCreate(u) \/ RebuildCreateFails(u)
             \/ RestoreContainer(u) \/ RestoreFails(u)
    BY <2>4 DEF RebuildRemove, RebuildNotFound, RebuildCannotRemove, Refused, RebuildCreate,
                RebuildCreateFails, RestoreContainer,
                RestoreFails
  <2>5. CASE RemoveDataFails(u) \/ ForgetMemory(u) \/ ForgetFile(u)
    BY <2>5 DEF RemoveDataFails, ForgetMemory, ForgetFile, Return
  <2>6. ASSUME NEW r \in Servers, ReconcileRemove(u, r) PROVE Stays \/ Takes
    BY <2>6 DEF ReconcileRemove, TakeDown
  <2>7. ASSUME NEW r \in Servers, ReconcileForget(u, r) \/ ReconcileGivesUp(u, r) \/ ReconcileDir(u, r)
        PROVE  Stays
    BY <2>7 DEF ReconcileForget, ReconcileGivesUp, Refused, ReconcileDir
  <2>8. CASE ReconcileReap(u) \/ ReconcileEnds(u)
    BY <2>8 DEF ReconcileReap, ReapInstalls, ReconcileEnds
  <2> QED BY <1>2, <2>1, <2>2, <2>3, <2>4, <2>5, <2>6, <2>7, <2>8 DEF Handler
<1>3. ASSUME NEW u \in Threads, RemoveData(u)
      PROVE  \/ Stays
             \/ pc[t] = "purging" /\ pc'[t] = "forgetting" /\ srv'[t] = srv[t] /\ ~dir'[srv[t]]
  BY <1>3 DEF RemoveData
<1>4. ASSUME \/ \E u \in Threads : Reconcile(u)
             \/ \E j \in Jobs : Job(j)
             \/ \E r \in Servers : BotExits(r)
             \/ SweepDirs \/ SweepContainers \/ Crash \/ Restart \/ UNCHANGED vars
      PROVE  Stays
  BY <1>4 DEF Reconcile, ReconcileSnapshot, Accept, Job, JobBegins, JobCannotBegin, JobEnds,
              JobReports,
              BotExits, SweepDirs, SweepContainers, ReapInstalls, Crash, Restart, vars
<1> QED BY <1>1, <1>2, <1>3, <1>4 DEF Next

\* A state file is listed for deletion when its server has no container.
LEMMA FilesStep ==
  ASSUME TypeOK, [Next]_vars, NEW s \in pass'.files, s \notin pass.files
  PROVE  /\ s \in Servers /\ container[s] = "absent" /\ saved[s] # "idle"
         /\ container' = container /\ saved' = saved
<1> USE DEF TypeOK, docker, state
<1>1. ASSUME NEW t \in Threads, Reconcile(t)
      PROVE  /\ s \in Servers /\ container[s] = "absent" /\ saved[s] # "idle"
             /\ container' = container /\ saved' = saved
  BY <1>1 DEF Reconcile, ReconcileSnapshot
<1>2. ASSUME NEW t \in Threads, NEW r \in Servers, Request(t, r) PROVE FALSE
  BY <1>2 DEF Request, CreateAdmit, ReinstallCheck, PowerLookup, RebuildLookup, RemoveContainer,
              RemoveRefused, Refused, TakeDown
<1>3. ASSUME NEW t \in Threads, Handler(t) PROVE FALSE
  <2>1. CASE CreateSeed(t) \/ CreateContainer(t) \/ CreateContainerFails(t) \/ UndoContainer(t)
             \/ UndoData(t)
    BY <2>1 DEF CreateSeed, CreateContainer, CreateContainerFails, UndoContainer, UndoData
  <2>2. ASSUME NEW j \in Jobs, InstallSpawned(t, j) PROVE FALSE
    BY <2>2 DEF InstallSpawned
  <2>3. CASE InstallNotSpawned(t) \/ InstallRefused(t) \/ PowerApply(t) \/ PowerRefused(t)
    BY <2>3 DEF InstallNotSpawned, InstallRefused, PowerApply, PowerRefused
  <2>4. CASE RebuildRemove(t) \/ RebuildNotFound(t) \/ RebuildCannotRemove(t)
             \/ RebuildCreate(t) \/ RebuildCreateFails(t)
             \/ RestoreContainer(t) \/ RestoreFails(t)
    BY <2>4 DEF RebuildRemove, RebuildNotFound, RebuildCannotRemove, Refused, RebuildCreate,
                RebuildCreateFails, RestoreContainer,
                RestoreFails
  <2>5. CASE RemoveData(t) \/ RemoveDataFails(t) \/ ForgetMemory(t) \/ ForgetFile(t)
             \/ ReconcileReap(t)
    BY <2>5 DEF RemoveData, RemoveDataFails, ForgetMemory, ForgetFile, ReconcileReap, ReapInstalls
  <2>6. CASE ReconcileEnds(t)
    BY <2>6 DEF ReconcileEnds, NoPass
  <2>7. ASSUME NEW r \in Servers, ReconcileRemove(t, r) \/ ReconcileForget(t, r)
                                  \/ ReconcileGivesUp(t, r) \/ ReconcileDir(t, r)
        PROVE  FALSE
    BY <2>7 DEF ReconcileRemove, TakeDown, ReconcileForget, ReconcileGivesUp, Refused, ReconcileDir
  <2> QED BY <1>3, <2>1, <2>2, <2>3, <2>4, <2>5, <2>6, <2>7 DEF Handler
<1>4. ASSUME \/ \E j \in Jobs : Job(j)
             \/ \E r \in Servers : BotExits(r)
             \/ SweepDirs \/ SweepContainers \/ Crash \/ Restart \/ UNCHANGED vars
      PROVE  FALSE
  BY <1>4 DEF Job, JobBegins, JobCannotBegin, JobEnds, JobReports, BotExits, SweepDirs,
              SweepContainers, ReapInstalls, Crash, Restart, NoPass, vars
<1> QED BY <1>1, <1>2, <1>3, <1>4 DEF Next

-----------------------------------------------------------------------------
(* Builds and what is said of them *)

BuildHeld ==
  /\ \A s \in pass.files : Gone(s)
  /\ \A j \in Jobs : Active(j) => Installing(job[j].srv) \/ Gone(job[j].srv)
  /\ \A j, k \in Jobs :
       Active(j) /\ Active(k) /\ job[j].srv = job[k].srv => j = k \/ Gone(job[j].srv)
  /\ \A t \in Threads :
       /\ pc[t] = "reinstalling" => \A j \in Jobs : Active(j) => job[j].srv # srv[t]
       /\ pc[t] \in {"purging", "forgetting"} => Gone(srv[t])

LEMMA BuildHeldStep ==
  ASSUME ~ReuseIds, "rebuild" \notin Requests, TypeOK, TypeOK', Fresh, Fresh', Unasked, HandlesLive,
         LockHeld, Still, BuildHeld, [Next]_vars
  PROVE  BuildHeld'
<1>1. \A s \in Servers : Gone(s) => Gone(s)'
  BY GoneStays
<1>2. ASSUME NEW s \in pass'.files PROVE Gone(s)'
  <2>1. CASE s \in pass.files
    BY <1>1, <2>1 DEF BuildHeld, TypeOK
  <2>2. CASE s \notin pass.files
    <3>1. s \in Servers /\ container'[s] = "absent" /\ saved'[s] # "idle"
      BY <2>2, FilesStep
    <3> QED BY <3>1 DEF Fresh, Marked, Gone
  <2> QED BY <2>1, <2>2
<1>3. ASSUME NEW t \in Threads, NEW j \in Jobs, InstallSpawned(t, j)
      PROVE  /\ srv[t] \in Servers /\ job'[j].srv = srv[t] /\ install'[srv[t]] = "running" /\ ~Active(j)
             /\ \A k \in Jobs : Active(k) /\ job[k].srv = srv[t] => Gone(srv[t])
             /\ \A u \in Threads : pc'[u] = "reinstalling" => srv'[u] # srv[t]
             /\ \A k \in Jobs \ {j} : ~InstallSpawned(t, k)
             /\ \A u \in Threads : \A k \in Jobs : InstallSpawned(u, k) => u = t /\ k = j
  <2>1. /\ srv[t] \in Servers /\ job'[j].srv = srv[t] /\ install'[srv[t]] = "running" /\ ~Active(j)
        /\ job[j].phase = "none" /\ job' = [job EXCEPT ![j] = [phase |-> "spawned", srv |-> srv[t]]]
        /\ ~Installing(srv[t])
    BY <1>3 DEF InstallSpawned, TypeOK, SetInstall, Installing, Active
  <2>2. ASSUME NEW u \in Threads, pc'[u] = "reinstalling" PROVE srv'[u] # srv[t]
    <3>1. u # t /\ pc[u] = "reinstalling" /\ srv'[u] = srv[u]
      BY <1>3, <2>2 DEF InstallSpawned, TypeOK, Goto
    <3>2. lock[srv[u]] = u
      BY <3>1 DEF LockHeld, LockedSteps
    <3>3. lock[srv[t]] = None \/ lock[srv[t]] = t
      BY <1>3 DEF InstallSpawned, ForCreate, ForReinstall, Free, LockHeld, LockedSteps
    <3> QED BY <3>1, <3>2, <3>3, NoneAssumption
  <2>3. ASSUME NEW u \in Threads, NEW k \in Jobs, InstallSpawned(u, k) PROVE u = t /\ k = j
    <3>1. k = j
      BY <2>1, <2>3 DEF InstallSpawned, TypeOK
    <3>2. u = t
      BY <1>3, <2>3 DEF InstallSpawned, TypeOK, Goto, ForCreate, ForReinstall
    <3> QED BY <3>1, <3>2
  <2>4. \A k \in Jobs : Active(k) /\ job[k].srv = srv[t] => Gone(srv[t])
    BY <2>1 DEF BuildHeld
  <2> QED BY <2>1, <2>2, <2>3, <2>4
<1>4. ASSUME NEW j \in Jobs, Active(j)', NEW t \in Threads, InstallSpawned(t, j)
      PROVE  /\ Installing(job[j].srv)'
             /\ \A k \in Jobs : Active(k)' /\ job'[k].srv = job'[j].srv => k = j \/ Gone(job[j].srv)'
             /\ \A u \in Threads : pc'[u] = "reinstalling" => job'[j].srv # srv'[u]
  <2>1. ASSUME NEW k \in Jobs, Active(k)', job'[k].srv = job'[j].srv, k # j
        PROVE  Gone(job[j].srv)'
    <3>1. \A u \in Threads : ~InstallSpawned(u, k)
      BY <1>3, <1>4, <2>1
    <3>2. Active(k) /\ job'[k].srv = job[k].srv
      BY <2>1, <3>1, ActiveStep
    <3>3. Gone(srv[t]) /\ srv[t] \in Servers /\ job'[j].srv = srv[t]
      BY <1>3, <1>4, <2>1, <3>2
    <3> QED BY <1>1, <3>3
  <2>2. job'[j].srv = srv[t] /\ Installing(job[j].srv)'
    BY <1>3, <1>4 DEF Installing
  <2>3. \A u \in Threads : pc'[u] = "reinstalling" => job'[j].srv # srv'[u]
    BY <1>3, <1>4, <2>2
  <2> QED BY <2>1, <2>2, <2>3
<1>5. ASSUME NEW j \in Jobs, Active(j)', \A t \in Threads : ~InstallSpawned(t, j)
      PROVE  Active(j) /\ job'[j].srv = job[j].srv /\ job[j].srv \in Servers
  BY <1>5, ActiveStep DEF TypeOK
<1>6. ASSUME NEW j \in Jobs, Active(j)', \A t \in Threads : ~InstallSpawned(t, j)
      PROVE  Installing(job[j].srv)' \/ Gone(job[j].srv)'
  <2> DEFINE s == job[j].srv
  <2> SUFFICES ASSUME ~Gone(s), ~Installing(s)' PROVE FALSE
    BY <1>1, <1>5, <1>6 DEF Installing
  <2>1. Active(j) /\ job'[j].srv = s /\ s \in Servers
    BY <1>5, <1>6
  <2>2. Installing(s)
    BY <2>1 DEF BuildHeld
  <2>3. install'[s] # install[s] /\ install'[s] # "running"
    BY <2>1, <2>2 DEF Installing
  <2>4. \A t \in Threads : pc[t] # "restore"
    BY DEF Unasked
  <2>5. ASSUME NEW k \in Jobs, Active(k), ~Active(k)', job[k].srv = s PROVE FALSE
    BY <1>6, <2>1, <2>5 DEF BuildHeld
  <2>6. ASSUME NEW t \in Threads, pc[t] = "forgetting", srv[t] = s PROVE FALSE
    BY <2>6 DEF BuildHeld
  <2>7. s \notin pass.files
    BY DEF BuildHeld
  <2>8. ~(s \in pass.orphans /\ container[s] = "absent")
    BY <2>1 DEF Fresh, Marked, Gone
  <2>9. ~Crash
    BY <1>6 DEF Crash, Orphaned, Active
  <2>10. ~Restart
    BY <2>1 DEF Restart, Still
  <2> HIDE DEF s
  <2> QED BY <2>1, <2>2, <2>3, <2>4, <2>5, <2>6, <2>7, <2>8, <2>9, <2>10, RecordStep
<1>7. ASSUME NEW j \in Jobs, NEW k \in Jobs, Active(j)', Active(k)', job'[j].srv = job'[k].srv, j # k
      PROVE  Gone(job[j].srv)'
  <2>1. CASE \E t \in Threads : InstallSpawned(t, j) \/ InstallSpawned(t, k)
    BY <1>4, <1>7, <2>1
  <2>2. CASE ~\E t \in Threads : InstallSpawned(t, j) \/ InstallSpawned(t, k)
    BY <1>1, <1>5, <1>7, <2>2 DEF BuildHeld
  <2> QED BY <2>1, <2>2
<1>8. ASSUME NEW t \in Threads, pc'[t] = "reinstalling", NEW j \in Jobs, Active(j)'
      PROVE  job'[j].srv # srv'[t]
  <2>1. CASE \E u \in Threads : InstallSpawned(u, j)
    BY <1>4, <1>8, <2>1
  <2>2. CASE \A u \in Threads : ~InstallSpawned(u, j)
    <3>1. Active(j) /\ job'[j].srv = job[j].srv
      BY <1>5, <1>8, <2>2
    <3>2. CASE pc[t] = "reinstalling" /\ srv'[t] = srv[t]
      BY <3>1, <3>2 DEF BuildHeld
    <3>3. CASE container[srv'[t]] # "absent" /\ ~Installing(srv'[t])
      BY <3>1, <3>3 DEF BuildHeld, Gone
    <3> QED BY <1>8, <3>2, <3>3, EntryStep
  <2> QED BY <2>1, <2>2
<1>9. ASSUME NEW t \in Threads, pc'[t] \in {"purging", "forgetting"} PROVE Gone(srv[t])'
  <2>1. srv[t] \in Servers /\ srv'[t] \in Servers
    BY DEF TypeOK
  <2>2. CASE pc[t] \in {"purging", "forgetting"} /\ srv'[t] = srv[t]
    BY <1>1, <2>1, <2>2 DEF BuildHeld
  <2>3. CASE container[srv'[t]] # "absent" /\ container'[srv'[t]] = "absent"
    <3>1. Begun(srv'[t])
      BY <2>1, <2>3 DEF Fresh, Marked
    <3>2. \A s \in Servers : Begun(s) => Begun(s)'
      BY BegunStays
    <3> QED BY <2>1, <2>3, <3>1, <3>2 DEF Gone
  <2> QED BY <1>9, <2>2, <2>3, EntryStep
<1>10. \A j \in Jobs : Active(j)' => Installing(job[j].srv)' \/ Gone(job[j].srv)'
  BY <1>4, <1>6
<1> QED BY <1>2, <1>7, <1>8, <1>9, <1>10 DEF BuildHeld

HeldInvariant == Fresh /\ Unasked /\ HandlesLive /\ Still

LEMMA HeldInit == ASSUME Init PROVE HeldInvariant
<1>1. Still
  BY DEF Init, Still
<1> QED BY <1>1, FreshInit, UnaskedInit, HandlesLiveInit DEF HeldInvariant

LEMMA HeldStep == ASSUME ~ReuseIds, TypeOK, HeldInvariant, [Next]_vars PROVE HeldInvariant'
BY FreshStep, UnaskedStep, HandlesLiveStep, StillStep DEF HeldInvariant

\* While it is under way, the install of a server that has its container is what
\* the agent reports of it, whatever installs, removals, passes, sweeps and
\* kills overlap, as long as ids are fresh and nobody rebuilds.
THEOREM BuildsReported ==
  ASSUME ~ReuseIds, "rebuild" \notin Requests
  PROVE  Spec => []BuildIsReported
<1>1. Init => HeldInvariant
  BY HeldInit
<1>2. Init => LockHeld
  BY DEF Init, LockHeld, LockedSteps
<1>3. Init => BuildHeld
  BY DEF Init, BuildHeld, Active, NoPass
<1>4. TypeOK /\ HeldInvariant /\ [Next]_vars => HeldInvariant'
  BY HeldStep
<1>5. TypeOK /\ TypeOK' /\ HeldInvariant /\ HeldInvariant' /\ LockHeld /\ BuildHeld /\ [Next]_vars
      => BuildHeld'
  BY BuildHeldStep DEF HeldInvariant
<1>6. TypeOK /\ BuildHeld => BuildIsReported
  BY DEF BuildHeld, BuildIsReported, SlotJobs, SlotPhases, Active, Gone, Installing
<1> QED BY <1>1, <1>2, <1>3, <1>4, <1>5, <1>6, TypeCorrect, LockStep, PTL DEF Spec

\* Two threads at work for one server have nothing to build in.
Parted ==
  \A j, k \in Jobs :
    Active(j) /\ Active(k) /\ job[j].srv = job[k].srv => j = k \/ Razed(job[j].srv)

\* The install containers that run are those of threads with a directory to fill.
LEMMA OneBuildStep ==
  ASSUME TypeOK, NothingStray, NothingStray', Parted, OneBuildPerServer, [Next]_vars
  PROVE  OneBuildPerServer'
<1> SUFFICES ASSUME NEW j \in Builds', NEW k \in Builds', job'[j].srv = job'[k].srv
             PROVE  j = k
  BY DEF OneBuildPerServer
<1> USE DEF TypeOK, Builds, LivePhases, OneBuildPerServer
<1>1. ASSUME NEW i \in Jobs, i \in Builds', ~Crash, \A l \in Jobs : ~JobBegins(l)
      PROVE  i \in Builds /\ job'[i].srv = job[i].srv
  <2>1. CASE job' = job
    BY <1>1, <2>1
  <2>2. ASSUME NEW js, Reap(js) PROVE i \in Builds /\ job'[i].srv = job[i].srv
    BY <1>1, <2>2 DEF Reap, Reaped
  <2>3. ASSUME NEW t \in Threads, NEW l \in Jobs, InstallSpawned(t, l)
        PROVE  i \in Builds /\ job'[i].srv = job[i].srv
    BY <1>1, <2>3 DEF InstallSpawned
  <2>4. ASSUME NEW l \in Jobs, Job(l) PROVE i \in Builds /\ job'[i].srv = job[i].srv
    BY <1>1, <2>4 DEF Job, JobCannotBegin, JobEnds, JobReports, SetPhase
  <2>5. Restart => \E js : Reap(js)
    BY DEF Restart, StartupReap, ReapInstalls
  <2> QED BY <1>1, <2>1, <2>2, <2>3, <2>4, <2>5, HandlerFrame, RequestFrame, OtherFrame
          DEF Next, ReapInstalls
<1>2. CASE Crash
  BY <1>2 DEF Crash, Orphaned
<1>3. ASSUME NEW l \in Jobs, JobBegins(l), ~Crash
      PROVE  j = k
  <2>1. /\ up /\ job[l].phase = "spawned" /\ dir[job[l].srv]
        /\ job' = [job EXCEPT ![l].phase = "building"]
    BY <1>3 DEF JobBegins, SetPhase
  <2>2. ASSUME NEW i \in Jobs, i \in Builds', i # l
        PROVE  i \in Builds /\ job'[i].srv = job[i].srv /\ Active(i)
    BY <2>1, <2>2 DEF NothingStray, Active
  <2>3. ASSUME NEW i \in Jobs, i \in Builds', i # l PROVE job'[i].srv # job'[l].srv
    BY <2>1, <2>2, <2>3 DEF Parted, Active, Razed
  <2> QED BY <2>2, <2>3
<1>4. CASE ~Crash /\ \A l \in Jobs : ~JobBegins(l)
  BY <1>1, <1>4
<1> QED BY <1>2, <1>3, <1>4

\* Without creates the directory is there to stay, and the lock keeps the
\* threads of one server apart.
LEMMA PartedWithoutCreates ==
  ASSUME ~ReuseIds, "create" \notin Requests, TypeOK, Unasked, LockHeld, BuildHeld,
         \A j, k \in Jobs : Active(j) /\ Active(k) /\ job[j].srv = job[k].srv => j = k,
         [Next]_vars
  PROVE  \A j, k \in Jobs : Active(j)' /\ Active(k)' /\ job'[j].srv = job'[k].srv => j = k
<1> SUFFICES ASSUME NEW j \in Jobs, NEW k \in Jobs, Active(j)', Active(k)',
                    job'[j].srv = job'[k].srv, j # k
             PROVE  FALSE
  OBVIOUS
<1>1. ASSUME NEW t \in Threads, NEW i \in Jobs, NEW l \in Jobs, InstallSpawned(t, i), i # l,
             Active(l)', job'[l].srv = job'[i].srv
      PROVE  FALSE
  <2>1. /\ pc[t] = "reinstalling" /\ job[i].phase = "none"
        /\ job' = [job EXCEPT ![i] = [phase |-> "spawned", srv |-> srv[t]]]
    BY <1>1 DEF InstallSpawned, ForCreate, ForReinstall, Unasked, SlotSteps
  <2>2. Active(l) /\ job[l].srv = srv[t]
    BY <1>1, <2>1 DEF TypeOK, Active
  <2> QED BY <2>1, <2>2 DEF BuildHeld
<1>2. CASE \E t \in Threads : InstallSpawned(t, j) \/ InstallSpawned(t, k)
  BY <1>1, <1>2
<1>3. CASE ~\E t \in Threads : InstallSpawned(t, j) \/ InstallSpawned(t, k)
  BY <1>3, ActiveStep
<1> QED BY <1>2, <1>3

\* Without passes and without removals that keep the data, what forgets the
\* state of a server has taken its directory away first.
RazeHeld ==
  /\ \A j \in Jobs : Active(j) => Installing(job[j].srv) \/ Razed(job[j].srv)
  /\ Parted
  /\ \A t \in Threads :
       /\ pc[t] = "purging" => Begun(srv[t])
       /\ pc[t] = "forgetting" => Razed(srv[t])

LEMMA RazeHeldStep ==
  ASSUME ~ReuseIds, Requests \cap {"rebuild", "remove", "reconcile"} = {},
         TypeOK, TypeOK', Fresh, Fresh', Unasked, Still, RazeHeld, [Next]_vars
  PROVE  RazeHeld'
<1>1. \A s \in Servers : Razed(s) => Razed(s)'
  BY RazedStays
<1>2. ASSUME NEW t \in Threads, NEW j \in Jobs, InstallSpawned(t, j)
      PROVE  /\ srv[t] \in Servers /\ job'[j].srv = srv[t] /\ install'[srv[t]] = "running"
             /\ \A k \in Jobs : Active(k) /\ job[k].srv = srv[t] => Razed(srv[t])
             /\ \A u \in Threads : \A k \in Jobs : InstallSpawned(u, k) => k = j
  <2>1. /\ srv[t] \in Servers /\ job'[j].srv = srv[t] /\ install'[srv[t]] = "running"
        /\ job[j].phase = "none" /\ job' = [job EXCEPT ![j] = [phase |-> "spawned", srv |-> srv[t]]]
        /\ ~Installing(srv[t])
    BY <1>2 DEF InstallSpawned, TypeOK, SetInstall, Installing
  <2>2. ASSUME NEW u \in Threads, NEW k \in Jobs, InstallSpawned(u, k) PROVE k = j
    BY <2>1, <2>2 DEF InstallSpawned, TypeOK
  <2>3. \A k \in Jobs : Active(k) /\ job[k].srv = srv[t] => Razed(srv[t])
    BY <2>1 DEF RazeHeld
  <2> QED BY <2>1, <2>2, <2>3
<1>3. ASSUME NEW j \in Jobs, Active(j)', \A t \in Threads : ~InstallSpawned(t, j)
      PROVE  Active(j) /\ job'[j].srv = job[j].srv /\ job[j].srv \in Servers
  BY <1>3, ActiveStep DEF TypeOK
<1>4. ASSUME NEW j \in Jobs, NEW k \in Jobs, NEW t \in Threads, InstallSpawned(t, j),
             Active(k)', job'[k].srv = job'[j].srv, k # j
      PROVE  Razed(job[j].srv)'
  <2>1. Active(k) /\ job'[k].srv = job[k].srv
    BY <1>2, <1>3, <1>4
  <2>2. Razed(srv[t]) /\ srv[t] \in Servers /\ job'[j].srv = srv[t]
    BY <1>2, <1>4, <2>1
  <2>3. \A s \in Servers : Razed(s) => Razed(s)'
    BY <1>1
  <2> QED BY <2>2, <2>3 DEF Razed, Begun
<1>5. ASSUME NEW j \in Jobs, Active(j)', \A t \in Threads : ~InstallSpawned(t, j)
      PROVE  Installing(job[j].srv)' \/ Razed(job[j].srv)'
  <2> DEFINE s == job[j].srv
  <2> SUFFICES ASSUME ~Razed(s), install'[s] # "running" PROVE FALSE
    BY <1>1, <1>3, <1>5 DEF Installing
  <2>1. Active(j) /\ job'[j].srv = s /\ s \in Servers
    BY <1>3, <1>5
  <2>2. Installing(s) /\ install'[s] # install[s]
    BY <2>1 DEF RazeHeld, Installing
  <2>3. /\ \A t \in Threads : pc[t] # "restore"
        /\ pass.files = {} /\ pass.orphans = {}
    BY DEF Unasked, NoPass
  <2>4. ASSUME NEW k \in Jobs, Active(k), ~Active(k)', job[k].srv = s PROVE FALSE
    BY <1>5, <2>1, <2>4 DEF RazeHeld, Parted
  <2>5. ASSUME NEW t \in Threads, pc[t] = "forgetting", srv[t] = s PROVE FALSE
    BY <2>5 DEF RazeHeld
  <2>6. ~Crash
    BY <1>5 DEF Crash, Orphaned, Active
  <2>7. ~Restart
    BY <2>1 DEF Restart, Still
  <2> HIDE DEF s
  <2> QED BY <2>1, <2>2, <2>3, <2>4, <2>5, <2>6, <2>7, RecordStep
<1>6. \A j \in Jobs : Active(j)' => Installing(job[j].srv)' \/ Razed(job[j].srv)'
  <2> SUFFICES ASSUME NEW j \in Jobs, Active(j)', NEW t \in Threads, InstallSpawned(t, j)
               PROVE  install'[job'[j].srv] = "running"
    BY <1>5 DEF Installing
  <2> QED BY <1>2
<1>7. Parted'
  <2> SUFFICES ASSUME NEW j \in Jobs, NEW k \in Jobs, Active(j)', Active(k)',
                      job'[j].srv = job'[k].srv, j # k
               PROVE  Razed(job[j].srv)'
    BY DEF Parted
  <2>1. CASE \E t \in Threads : InstallSpawned(t, j)
    BY <1>4, <2>1
  <2>2. CASE \E t \in Threads : InstallSpawned(t, k)
    <3>1. Razed(job[k].srv)'
      BY <1>4, <2>2
    <3> QED BY <3>1 DEF Razed, Begun
  <2>3. CASE ~\E t \in Threads : InstallSpawned(t, j) \/ InstallSpawned(t, k)
    BY <1>1, <1>3, <2>3 DEF RazeHeld, Parted
  <2> QED BY <2>1, <2>2, <2>3
<1>8. ASSUME NEW t \in Threads, pc'[t] \in {"purging", "forgetting"}
      PROVE  Begun(srv[t])' /\ (pc'[t] = "forgetting" => Razed(srv[t])')
  <2>1. srv'[t] \in Servers /\ Begun(srv[t])'
    BY <1>8 DEF TypeOK, Fresh, Marked, AtWork
  <2>2. CASE pc[t] = pc'[t] /\ srv'[t] = srv[t]
    BY <1>1, <2>1, <2>2 DEF RazeHeld
  <2>3. CASE ~dir'[srv[t]] /\ srv'[t] = srv[t]
    BY <2>1, <2>3 DEF Razed
  <2> QED BY <1>8, <2>1, <2>2, <2>3, EntryStep
<1> QED BY <1>6, <1>7, <1>8 DEF RazeHeld

\* Two install containers never write one server's directory, across kills of
\* the agent: provided the startup reap reaches Docker, ids are fresh, nobody
\* rebuilds, and either nothing is created or the data goes with the server.
THEOREM OneBuildAtATime ==
  ASSUME ~ReuseIds, "reap" \notin Faults, "rebuild" \notin Requests,
         "create" \notin Requests \/ Requests \cap {"remove", "reconcile"} = {}
  PROVE  Spec => []OneBuildPerServer
<1>1. Init => HeldInvariant /\ LockHeld /\ BuildHeld /\ NothingStray /\ OneBuildPerServer
  <2>1. Init => LockHeld /\ BuildHeld /\ NothingStray
    BY DEF Init, LockHeld, LockedSteps, BuildHeld, Active, NoPass, NothingStray
  <2>2. Init => OneBuildPerServer
    BY DEF Init, OneBuildPerServer, Builds, LivePhases
  <2> QED BY <2>1, <2>2, HeldInit
<1>2. TypeOK /\ HeldInvariant /\ [Next]_vars => HeldInvariant'
  BY HeldStep
<1>3. TypeOK /\ TypeOK' /\ HeldInvariant /\ HeldInvariant' /\ LockHeld /\ BuildHeld /\ [Next]_vars
      => BuildHeld'
  BY BuildHeldStep DEF HeldInvariant
<1>4. TypeOK /\ NothingStray /\ [Next]_vars => NothingStray'
  BY StrayStep
<1>5. TypeOK /\ NothingStray /\ NothingStray' /\ Parted /\ OneBuildPerServer /\ [Next]_vars
      => OneBuildPerServer'
  BY OneBuildStep
<1>6. CASE "create" \notin Requests
  <2> DEFINE Distinct == \A j, k \in Jobs :
               Active(j) /\ Active(k) /\ job[j].srv = job[k].srv => j = k
  <2>1. Init => Distinct
    BY DEF Init, Active
  <2>2. TypeOK /\ HeldInvariant /\ LockHeld /\ BuildHeld /\ Distinct /\ [Next]_vars => Distinct'
    BY <1>6, PartedWithoutCreates DEF HeldInvariant
  <2>3. Distinct => Parted
    BY DEF Parted
  <2> HIDE DEF Distinct
  <2> QED BY <1>1, <1>2, <1>3, <1>4, <1>5, <2>1, <2>2, <2>3, TypeCorrect, LockStep, PTL DEF Spec
<1>7. CASE Requests \cap {"remove", "reconcile"} = {}
  <2>1. Init => RazeHeld
    BY DEF Init, RazeHeld, Parted, Active
  <2>2. TypeOK /\ TypeOK' /\ HeldInvariant /\ HeldInvariant' /\ RazeHeld /\ [Next]_vars => RazeHeld'
    BY <1>7, RazeHeldStep DEF HeldInvariant
  <2>3. RazeHeld => Parted
    BY DEF RazeHeld
  <2> QED BY <1>1, <1>2, <1>4, <1>5, <2>1, <2>2, <2>3, TypeCorrect, PTL DEF Spec
<1> QED BY <1>6, <1>7

-----------------------------------------------------------------------------
(* A rebuild that loses the container *)

LossHeld ==
  /\ \A j \in Jobs : job[j].phase = "none"
  /\ \A t \in Threads : pc[t] \notin SlotSteps \cup {"reinstalling"}
  /\ s1 \notin pass.orphans \cup pass.files \cup pass.dirs
  /\ crashes = 0 =>
       /\ up
       /\ dir[s1] /\ (sweep.on => s1 \in sweep.dirs)
       /\ container[s1] = "absent" =>
            \/ install[s1] = "failed"
            \/ \E t \in Threads : srv[t] = s1 /\ pc[t] \in {"recreate", "restore"}
  /\ \A t \in Threads : srv[t] = s1 => pc[t] \notin {"purging", "forgetting"}

LEMMA BacklogIsNode ==
  ASSUME s1 \in Servers, t1 \in Threads, t2 \in Threads
  PROVE  (BacklogInit => Init) /\ ([BacklogNext]_vars => [Next]_vars)
BY DEF BacklogInit, BacklogNext, Next, Request, Reconcile

LEMMA LossHeldStep ==
  ASSUME s1 \in Servers, t1 \in Threads, t2 \in Threads,
         TypeOK, TypeOK', LossHeld, [BacklogNext]_vars
  PROVE  LossHeld'
<1> USE DEF TypeOK, SlotSteps, LockedSteps, Powers, Goto, docker, state, worker, process, history, LossHeld
<1>1. ASSUME NEW r \in Servers \ {s1}, RemoveContainer(t1, r) \/ RemoveRefused(t1, r)
      PROVE  LossHeld'
  BY <1>1 DEF RemoveContainer, RemoveRefused, Refused, TakeDown, Accept
<1>2. ASSUME \/ \E t \in {t1, t2} : RebuildLookup(t, s1)
             \/ \E action \in Powers : PowerLookup(t2, s1, action)
      PROVE  LossHeld'
  <2>1. ASSUME NEW t \in {t1, t2}, RebuildLookup(t, s1) PROVE LossHeld'
    BY <2>1 DEF RebuildLookup, Accept
  <2>2. ASSUME NEW action \in Powers, PowerLookup(t2, s1, action) PROVE LossHeld'
    BY <2>2 DEF PowerLookup, Accept
  <2> QED BY <1>2, <2>1, <2>2
<1>3. CASE ReconcileSnapshot(t1, {s1}, {})
  BY <1>3 DEF ReconcileSnapshot, Accept, UpTo
<1>4. ASSUME NEW t \in Threads, Handler(t) PROVE LossHeld'
  <2>1. CASE CreateSeed(t) \/ CreateContainer(t) \/ CreateContainerFails(t) \/ UndoContainer(t)
             \/ UndoData(t) \/ (\E j \in Jobs : InstallSpawned(t, j)) \/ InstallNotSpawned(t)
             \/ InstallRefused(t)
    BY <2>1 DEF CreateSeed, CreateContainer, CreateContainerFails, UndoContainer, UndoData,
                InstallSpawned, InstallNotSpawned, InstallRefused, ForCreate, ForReinstall
  <2>2. CASE PowerApply(t) \/ PowerRefused(t)
    BY <2>2 DEF PowerApply, PowerRefused
  <2>3. CASE RebuildRemove(t) \/ RebuildNotFound(t) \/ RebuildCannotRemove(t)
    BY <2>3 DEF RebuildRemove, RebuildNotFound, RebuildCannotRemove, Refused
  <2>4. CASE RebuildCreate(t) \/ RebuildCreateFails(t)
    BY <2>4 DEF RebuildCreate, RebuildCreateFails, Built
  <2>5. CASE RestoreContainer(t)
    BY <2>5 DEF RestoreContainer, Built, SetInstall
  <2>6. CASE RestoreFails(t)
    BY <2>6 DEF RestoreFails, SetInstall
  <2>7. CASE RemoveData(t) \/ RemoveDataFails(t)
    BY <2>7 DEF RemoveData, RemoveDataFails, Return
  <2>8. CASE ForgetMemory(t) \/ ForgetFile(t)
    BY <2>8 DEF ForgetMemory, ForgetFile, Return
  <2>9. ASSUME NEW r \in Servers, ReconcileRemove(t, r) PROVE LossHeld'
    BY <2>9 DEF ReconcileRemove, TakeDown
  <2>10. ASSUME NEW r \in Servers, ReconcileForget(t, r) PROVE LossHeld'
    BY <2>10 DEF ReconcileForget
  <2>13. ASSUME NEW r \in Servers, ReconcileGivesUp(t, r) PROVE LossHeld'
    BY <2>13 DEF ReconcileGivesUp, Refused
  <2>14. ASSUME NEW r \in Servers, ReconcileDir(t, r) PROVE LossHeld'
    BY <2>14 DEF ReconcileDir
  <2>11. CASE ReconcileReap(t)
    BY <2>11, ReapShape DEF ReconcileReap, ReapInstalls
  <2>12. CASE ReconcileEnds(t)
    BY <2>12 DEF ReconcileEnds, NoPass
  <2> QED BY <1>4, <2>1, <2>2, <2>3, <2>4, <2>5, <2>6, <2>7, <2>8, <2>9, <2>10, <2>11, <2>12,
           <2>13, <2>14 DEF Handler
<1>5. CASE BotExits(s1)
  BY <1>5 DEF BotExits
<1>6. CASE SweepDirs \/ UNCHANGED vars
  BY <1>6 DEF SweepDirs, vars
<1>7. CASE SweepContainers
  BY <1>7, ReapShape DEF SweepContainers, ReapInstalls, NoSweep
<1>8. CASE Crash
  BY <1>8, BoundAssumption DEF Crash, Orphaned, LivePhases, NoPass
<1>9. CASE Restart
  BY <1>9, ReapShape DEF Restart, StartupReap, ReapInstalls
<1> QED BY <1>1, <1>2, <1>3, <1>4, <1>5, <1>6, <1>7, <1>8, <1>9 DEF BacklogNext

\* A server whose rebuild lost its container says so once nobody works on it,
\* while other servers are removed and swept around it, unless the agent died.
THEOREM LossIsRecorded ==
  ASSUME s1 \in Servers, t1 \in Threads, t2 \in Threads
  PROVE  BacklogSpec => []LossRecorded
<1>1. BacklogInit => Init
  BY BacklogIsNode
<1>2. [BacklogNext]_vars => [Next]_vars
  BY BacklogIsNode
<1>3. BacklogInit => LossHeld
  <2> SUFFICES ASSUME BacklogInit PROVE LossHeld
    OBVIOUS
  <2>1. container[s1] # "absent" /\ dir[s1]
    <3>1. PICK hosted \in SUBSET Servers :
            /\ container = [s \in Servers |-> IF s \in hosted THEN "created" ELSE "absent"]
            /\ dir = [s \in Servers |-> s \in hosted]
            /\ used = hosted
      BY Zenon DEF BacklogInit, Init
    <3> QED BY <3>1 DEF BacklogInit
  <2>2. /\ up /\ ~sweep.on /\ pass = NoPass
        /\ \A t \in Threads : pc[t] = "idle"
        /\ \A j \in Jobs : job[j].phase = "none"
    BY DEF BacklogInit, Init, NoSweep
  <2> QED BY <2>1, <2>2 DEF LossHeld, SlotSteps, NoPass
<1>4. TypeOK /\ TypeOK' /\ LossHeld /\ [BacklogNext]_vars => LossHeld'
  BY LossHeldStep
<1>5. TypeOK /\ LossHeld => LossRecorded
  BY DEF TypeOK, LossHeld, LossRecorded, Quiet
<1> QED BY <1>1, <1>2, <1>3, <1>4, <1>5, TypeInit, TypeStep, PTL DEF BacklogSpec
=============================================================================
