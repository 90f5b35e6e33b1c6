---------------------------- MODULE FleetProofs ----------------------------
(***************************************************************************)
(* What holds of Fleet for every number of servers, nodes and panels, any  *)
(* quota and any cap: the state is well formed, two panel instances never  *)
(* grant more servers than the quota, and a pass never takes a server that *)
(* had its row when the pass began.                                        *)
(***************************************************************************)
EXTENDS Fleet, FiniteSetTheorems, TLAPS

USE DEF RequestKinds, FaultKinds

LEMMA InitType == ASSUME FleetConstants, Init PROVE TypeOK
BY DEF Init, TypeOK, FleetConstants, NoRemoval, NoPass, NoAccount, DeployRecord,
       DeploySteps, InLock, Working, RemovalRecord, RemovalSteps, PassRecord

\* A deploy that moves on keeps its record.
LEMMA DeployMoves ==
  ASSUME TypeOK, NEW s \in Servers, NEW step \in DeploySteps, DeployGoes(s, step),
         step \in {"creating", "undo"} => deploy[s].node \in Nodes
  PROVE  /\ deploy' \in [Servers -> DeployRecord]
         /\ \A t \in Servers : deploy'[t].step \in {"creating", "undo"} => deploy'[t].node \in Nodes
<1>1. deploy' = [deploy EXCEPT ![s] = [deploy[s] EXCEPT !.step = step]]
  BY DEF DeployGoes
<1>2. [deploy[s] EXCEPT !.step = step] \in DeployRecord
  BY DEF TypeOK, DeployRecord
<1>3. deploy' \in [Servers -> DeployRecord]
  BY <1>1, <1>2 DEF TypeOK
<1>4. \A t \in Servers : deploy'[t] = IF t = s THEN [deploy[s] EXCEPT !.step = step] ELSE deploy[t]
  BY <1>1 DEF TypeOK
<1>5. [deploy[s] EXCEPT !.step = step].step = step /\ [deploy[s] EXCEPT !.step = step].node = deploy[s].node
  BY DEF TypeOK, DeployRecord
<1> QED BY <1>3, <1>4, <1>5 DEF TypeOK

\* The steps of a deploy keep the state well formed.
LEMMA DeployType ==
  ASSUME FleetConstants, TypeOK, NEW s \in Servers, DeployStep(s) \/ LateCreate(s)
  PROVE  TypeOK'
<1>1. DeploySteps = {"none", "counted", "inserted", "checked", "creating", "undo", "drop",
                     "done", "gone"}
  BY DEF DeploySteps, InLock, Working
<1>2. CASE DeployInserts(s)
  BY <1>1, <1>2, DeployMoves DEF DeployInserts, TypeOK, bounds
<1>3. CASE DeployRechecks(s)
  BY <1>1, <1>3, DeployMoves DEF DeployRechecks, DropRow, TypeOK, bounds
<1>4. CASE DeployPlaces(s)
  <2>1. PICK n \in reach :
          deploy' = [deploy EXCEPT ![s] = [deploy[s] EXCEPT !.step = "creating", !.node = n]]
    BY <1>4 DEF DeployPlaces
  <2>2. [deploy[s] EXCEPT !.step = "creating", !.node = n] \in DeployRecord
    <3>1. deploy[s] \in DeployRecord /\ n \in Nodes /\ "creating" \in DeploySteps
      BY <1>1 DEF TypeOK
    <3> QED BY <3>1 DEF DeployRecord
  <2>3. [deploy[s] EXCEPT !.step = "creating", !.node = n].node \in Nodes
    BY DEF TypeOK, DeployRecord
  <2>4. /\ deploy' \in [Servers -> DeployRecord]
        /\ \A t \in Servers : deploy'[t].step \in {"creating", "undo"} => deploy'[t].node \in Nodes
    BY <2>1, <2>2, <2>3 DEF TypeOK
  <2> QED BY <1>4, <2>4 DEF DeployPlaces, TypeOK, control, bounds
<1>5. CASE DeployUnplaced(s) \/ DeployDrops(s)
  BY <1>1, <1>5, DeployMoves DEF DeployUnplaced, DeployDrops, DropRow, TypeOK, bounds
<1>6. CASE DeployCreated(s)
  BY <1>1, <1>6, DeployMoves DEF DeployCreated, TypeOK, control, bounds
<1>7. CASE DeployFails(s)
  BY <1>1, <1>7, DeployMoves DEF DeployFails, TypeOK, control, bounds
<1>8. CASE DeployUndoes(s)
  BY <1>1, <1>8, DeployMoves DEF DeployUndoes, PurgeOn, Gone, TypeOK, control, bounds
<1>9. CASE LateCreate(s)
  <2>1. deploy[s].node \in Nodes \cup {None}
    BY DEF TypeOK, DeployRecord
  <2>2. at' \in [Servers -> Nodes \cup {None}] /\ late' \subseteq Servers
    BY <1>9, <2>1 DEF LateCreate, TypeOK
  <2> QED BY <1>9, <2>2 DEF LateCreate, TypeOK, control, bounds
<1> QED BY <1>2, <1>3, <1>4, <1>5, <1>6, <1>7, <1>8, <1>9 DEF DeployStep

\* The steps of deletes, of the account deletion and of the operator do.
LEMMA RemovalType ==
  ASSUME FleetConstants, TypeOK, NEW s \in Servers, RemovalStep(s)
  PROVE  TypeOK'
<1>1. CASE RemovalAnswered(s)
  <2>1. removal' = [removal EXCEPT ![s] = [removal[s] EXCEPT !.step = "row", !.reached = TRUE]]
    BY <1>1 DEF RemovalAnswered
  <2>2. [removal[s] EXCEPT !.step = "row", !.reached = TRUE] \in RemovalRecord
    <3>1. removal[s] \in RemovalRecord /\ "row" \in RemovalSteps
      BY DEF TypeOK, RemovalSteps
    <3> QED BY <3>1 DEF RemovalRecord
  <2>3. removal' \in [Servers -> RemovalRecord]
    BY <2>1, <2>2 DEF TypeOK
  <2>4. at' \in [Servers -> Nodes \cup {None}]
    BY <1>1 DEF RemovalAnswered, PurgeOn, Gone, TypeOK
  <2> QED BY <1>1, <2>3, <2>4 DEF RemovalAnswered, TypeOK, control, bounds
<1>2. CASE RemovalUnanswered(s)
  BY <1>2 DEF RemovalUnanswered, PurgeOn, Gone, RemovalGoes, TypeOK, control, bounds,
              RemovalRecord, RemovalSteps
<1>3. CASE RemovalDropsRow(s)
  <2>1. removal' \in [Servers -> RemovalRecord]
    <3>1. NoRemoval \in RemovalRecord /\ [removal[s] EXCEPT !.step = "queue"] \in RemovalRecord
      BY DEF TypeOK, NoRemoval, RemovalSteps, RemovalRecord
    <3>2. \/ removal' = [removal EXCEPT ![s] = NoRemoval]
          \/ removal' = [removal EXCEPT ![s] = [removal[s] EXCEPT !.step = "queue"]]
      BY <1>3 DEF RemovalDropsRow
    <3> QED BY <3>1, <3>2 DEF TypeOK
  <2>2. row' \subseteq Servers
    BY <1>3 DEF RemovalDropsRow, TypeOK
  <2> QED BY <1>3, <2>1, <2>2 DEF RemovalDropsRow, TypeOK, bounds
<1>4. CASE RemovalQueues(s)
  BY <1>4 DEF RemovalQueues, NoRemoval, TypeOK, bounds, RemovalRecord, RemovalSteps
<1> QED BY <1>1, <1>2, <1>3, <1>4 DEF RemovalStep

LEMMA RequestType ==
  ASSUME FleetConstants, TypeOK, NEW p \in Panels, NEW s \in Servers,
         DeployCounts(p, s) \/ RemovalBegins(p, s)
  PROVE  TypeOK'
<1>1. CASE DeployCounts(p, s)
  BY <1>1 DEF DeployCounts, TypeOK, control, bounds, DeployRecord, DeploySteps, InLock,
              Working
<1>2. CASE RemovalBegins(p, s)
  <2>1. \A n \in Nodes \cup {None}, step \in {"node", "row"} :
          [step |-> step, by |-> p, node |-> n, reached |-> FALSE] \in RemovalRecord
    BY DEF RemovalRecord, RemovalSteps
  <2>2. removal' \in [Servers -> RemovalRecord]
    <3>1. PICK begun \in RemovalRecord : removal' = [removal EXCEPT ![s] = begun]
      BY <1>2, <2>1 DEF RemovalBegins
    <3> QED BY <3>1 DEF TypeOK
  <2>3. UNCHANGED <<control, at, deploy, late, account, pass, reach, bounds>>
    BY <1>2 DEF RemovalBegins
  <2> QED BY <2>2, <2>3 DEF TypeOK, control, bounds
<1> QED BY <1>1, <1>2

LEMMA AdminType ==
  ASSUME TypeOK, NEW s \in Servers, AdminRemoves(s) \/ AdminClears(s)
  PROVE  TypeOK'
BY DEF AdminRemoves, AdminClears, TypeOK, bounds

LEMMA AccountType ==
  ASSUME FleetConstants, TypeOK, AccountLists \/ AccountStep
  PROVE  TypeOK'
<1>1. CASE AccountLists
  BY <1>1 DEF AccountLists, TypeOK, control, bounds
<1>2. CASE AccountOnNode
  BY <1>2 DEF AccountOnNode, TypeOK, control, bounds
<1>3. CASE AccountDropsRows
  BY <1>3 DEF AccountDropsRows, TypeOK, control, bounds
<1>4. CASE AccountQueues
  BY <1>4 DEF AccountQueues, NoAccount, TypeOK, control, bounds
<1> QED BY <1>1, <1>2, <1>3, <1>4 DEF AccountStep

\* A pass does.
LEMMA PassType ==
  ASSUME FleetConstants, TypeOK, NEW p \in Panels, NEW n \in Nodes,
         PassReads(p) \/ PassProtects(p) \/ PassNode(p, n)
  PROVE  TypeOK'
<1>1. CASE PassReads(p)
  <2>1. [NoPass EXCEPT !.step = "protect", !.known = row, !.before = row] \in PassRecord
    BY DEF NoPass, PassRecord, TypeOK
  <2> QED BY <1>1, <2>1 DEF PassReads, TypeOK, control, bounds
<1>2. CASE PassProtects(p)
  <2>1. PICK protect \in SUBSET Servers :
          pass' = [pass EXCEPT ![p] =
                     [pass[p] EXCEPT !.step = "nodes", !.protect = protect, !.todo = Nodes]]
    BY ZenonT(60), <1>2 DEF PassProtects, TypeOK
  <2>2. [pass[p] EXCEPT !.step = "nodes", !.protect = protect, !.todo = Nodes] \in PassRecord
    <3>1. pass[p] \in PassRecord
      BY DEF TypeOK
    <3> QED BY <3>1 DEF PassRecord
  <2>3. pass' \in [Panels -> PassRecord]
    BY <2>1, <2>2 DEF TypeOK
  <2>4. UNCHANGED <<control, at, deploy, late, removal, account, reach, bounds>>
    BY <1>2 DEF PassProtects
  <2> QED BY <2>3, <2>4 DEF TypeOK, control, bounds
<1>3. CASE PassNode(p, n)
  <2>1. pass' \in [Panels -> PassRecord]
    <3>1. NoPass \in PassRecord /\ [pass[p] EXCEPT !.todo = pass[p].todo \ {n}] \in PassRecord
      BY DEF NoPass, PassRecord, TypeOK
    <3>2. \/ pass' = [pass EXCEPT ![p] = NoPass]
          \/ pass' = [pass EXCEPT ![p] = [pass[p] EXCEPT !.todo = pass[p].todo \ {n}]]
      BY <1>3 DEF PassNode, PassVisits
    <3>3. pass \in [Panels -> PassRecord]
      BY DEF TypeOK
    <3> QED BY <3>1, <3>2, <3>3
  <2>2. at' \in [Servers -> Nodes \cup {None}] /\ tomb' \subseteq Servers
    BY <1>3 DEF PassNode, Gone, TypeOK
  <2> QED BY <1>3, <2>1, <2>2 DEF PassNode, TypeOK, bounds
<1> QED BY <1>1, <1>2, <1>3

\* Outages and the death of an instance do.
LEMMA NodeType ==
  ASSUME FleetConstants, TypeOK, NEW n \in Nodes, NodeDown(n) \/ NodeUp(n)
  PROVE  TypeOK'
BY DEF NodeDown, NodeUp, TypeOK, control, bounds, FleetConstants

LEMMA CrashType ==
  ASSUME FleetConstants, TypeOK, NEW p \in Panels, Crash(p)
  PROVE  TypeOK'
<1>1. deploy' \in [Servers -> DeployRecord]
  BY DEF Crash, TypeOK, DeployRecord, DeploySteps
<1>2. \A s \in Servers : deploy'[s].step \in {"creating", "undo"} => deploy'[s].node \in Nodes
  BY DEF Crash, TypeOK, DeployRecord
<1>3. late' \subseteq Servers /\ removal' \in [Servers -> RemovalRecord]
  BY DEF Crash, TypeOK, NoRemoval, RemovalSteps, RemovalRecord
<1>4. pass' \in [Panels -> PassRecord] /\ crashes' \in 0..MaxCrashes
  BY DEF Crash, TypeOK, NoPass, PassRecord, FleetConstants
<1> QED BY <1>1, <1>2, <1>3, <1>4 DEF Crash, TypeOK, control

LEMMA NextType == ASSUME FleetConstants, TypeOK, [Next]_vars PROVE TypeOK'
<1>1. CASE UNCHANGED vars
  BY <1>1 DEF vars, control, bounds, TypeOK
<1>2. CASE Next
  <2>1. ASSUME NEW p \in Panels, NEW s \in Servers, DeployCounts(p, s) \/ RemovalBegins(p, s)
        PROVE  TypeOK'
    BY <2>1, RequestType
  <2>2. ASSUME NEW s \in Servers,
               DeployStep(s) \/ LateCreate(s) \/ RemovalStep(s) \/ AdminRemoves(s) \/ AdminClears(s)
        PROVE  TypeOK'
    BY <2>2, DeployType, RemovalType, AdminType
  <2>3. CASE AccountLists \/ AccountStep
    BY <2>3, AccountType
  <2>4. ASSUME NEW p \in Panels,
               PassReads(p) \/ PassProtects(p) \/ \E n \in Nodes : PassNode(p, n)
        PROVE  TypeOK'
    BY <2>4, PassType DEF FleetConstants
  <2>5. ASSUME NEW n \in Nodes, NodeDown(n) \/ NodeUp(n) PROVE TypeOK'
    BY <2>5, NodeType
  <2>6. ASSUME NEW p \in Panels, Crash(p) PROVE TypeOK'
    BY <2>6, CrashType
  <2> QED BY <1>2, <2>1, <2>2, <2>3, <2>4, <2>5, <2>6 DEF Next
<1> QED BY <1>1, <1>2

\* Every state of every instance of the fleet is well formed, and a create or
\* its undo always has a node (TypeOK; create_server, _background_create).
THEOREM TypeCorrect == Spec => []TypeOK
<1>1. Init => TypeOK
  BY FleetConstants, InitType
<1>2. TypeOK /\ [Next]_vars => TypeOK'
  BY FleetConstants, NextType
<1> QED BY <1>1, <1>2, PTL DEF Spec

-----------------------------------------------------------------------------
(* The quota *)

\* Servers are granted by the second count alone, and it bounds them all.
LEMMA GrantedGrows ==
  ASSUME TypeOK, [Next]_vars
  PROVE  Granted' \subseteq Granted \/ (Granted' \subseteq row /\ Cardinality(row) <= Quota)
<1> USE DEF Granted, InLock, Working
<1>1. CASE UNCHANGED vars
  BY <1>1 DEF vars, control
<1>2. CASE Next
  <2>1. ASSUME NEW p \in Panels, NEW s \in Servers, DeployCounts(p, s) \/ RemovalBegins(p, s)
        PROVE  Granted' \subseteq Granted
    BY <2>1 DEF DeployCounts, RemovalBegins, control, TypeOK, DeployRecord
  <2>2. ASSUME NEW s \in Servers, DeployRechecks(s)
        PROVE  \/ Granted' \subseteq Granted
               \/ Granted' \subseteq row /\ Cardinality(row) <= Quota
    BY <2>2 DEF DeployRechecks, DropRow, DeployGoes, TypeOK, DeployRecord
  <2>3. ASSUME NEW s \in Servers, DeployInserts(s) \/ DeployPlaces(s) \/ DeployUnplaced(s)
        PROVE  Granted' \subseteq Granted
    BY <2>3 DEF DeployInserts, DeployPlaces, DeployUnplaced, DropRow, DeployGoes, control,
                TypeOK, DeployRecord
  <2>4. ASSUME NEW s \in Servers,
               DeployCreated(s) \/ DeployFails(s) \/ DeployUndoes(s) \/ DeployDrops(s)
        PROVE  Granted' \subseteq Granted
    BY <2>4 DEF DeployCreated, DeployFails, DeployUndoes, DeployDrops, DropRow, DeployGoes,
                control, TypeOK, DeployRecord
  <2>5. ASSUME NEW s \in Servers,
               LateCreate(s) \/ RemovalStep(s) \/ AdminRemoves(s) \/ AdminClears(s)
        PROVE  Granted' \subseteq Granted
    BY <2>5 DEF LateCreate, RemovalStep, RemovalAnswered, RemovalUnanswered, RemovalDropsRow,
                RemovalQueues, AdminRemoves, AdminClears, control
  <2>6. CASE AccountLists \/ AccountStep
    BY <2>6 DEF AccountLists, AccountStep, AccountOnNode, AccountDropsRows, AccountQueues,
                control
  <2>7. ASSUME NEW p \in Panels,
               PassReads(p) \/ PassProtects(p) \/ \E n \in Nodes : PassNode(p, n)
        PROVE  Granted' \subseteq Granted
    BY <2>7 DEF PassReads, PassProtects, PassNode, control
  <2>8. ASSUME NEW n \in Nodes, NodeDown(n) \/ NodeUp(n) PROVE Granted' \subseteq Granted
    BY <2>8 DEF NodeDown, NodeUp, control
  <2>9. ASSUME NEW p \in Panels, Crash(p) PROVE Granted' \subseteq Granted
    BY <2>9 DEF Crash, control, TypeOK, DeployRecord
  <2> QED BY <1>2, <2>1, <2>2, <2>3, <2>4, <2>5, <2>6, <2>7, <2>8, <2>9 DEF Next, DeployStep
<1> QED BY <1>1, <1>2

\* Two instances of the panel, each with a lock of its own, never grant more
\* servers than the quota (QuotaHolds; create_server).
THEOREM QuotaNeverExceeded == Spec => []QuotaHolds
<1>1. Init => QuotaHolds
  <2> SUFFICES ASSUME Init PROVE QuotaHolds
    OBVIOUS
  <2>1. Granted \subseteq row /\ row \subseteq Servers /\ Cardinality(row) <= Quota
    BY DEF Init, Granted
  <2>2. IsFiniteSet(row) /\ Cardinality(Granted) <= Cardinality(row)
    BY <2>1, FleetConstants, FS_Subset DEF FleetConstants
  <2>3. Cardinality(Granted) \in Nat /\ Cardinality(row) \in Nat
    BY <2>1, <2>2, FS_Subset, FS_CardinalityType
  <2> QED BY <2>1, <2>2, <2>3, FleetConstants DEF QuotaHolds, FleetConstants
<1>2. TypeOK /\ QuotaHolds /\ [Next]_vars => QuotaHolds'
  <2> SUFFICES ASSUME TypeOK, QuotaHolds, [Next]_vars PROVE QuotaHolds'
    OBVIOUS
  <2>1. PICK S \in {Granted, row} : Granted' \subseteq S /\ Cardinality(S) <= Quota
    BY GrantedGrows DEF QuotaHolds
  <2>2. IsFiniteSet(S)
    BY FleetConstants, FS_Subset DEF FleetConstants, TypeOK, Granted
  <2>3. Cardinality(Granted') <= Cardinality(S)
    BY <2>1, <2>2, FS_Subset
  <2>4. Cardinality(Granted') \in Nat /\ Cardinality(S) \in Nat
    BY <2>1, <2>2, FS_Subset, FS_CardinalityType
  <2> QED BY <2>1, <2>3, <2>4, FleetConstants DEF QuotaHolds, FleetConstants
<1> QED BY <1>1, <1>2, TypeCorrect, PTL DEF Spec

-----------------------------------------------------------------------------
(* What a pass takes *)

\* The allowlist a pass works with is the one it began with.
KnownFromStart == \A p \in Panels : pass[p].known = pass[p].before

LEMMA OnlyPassesMovePasses ==
  ASSUME [Next]_vars
  PROVE  \/ UNCHANGED pass
         \/ \E p \in Panels : PassReads(p) \/ PassProtects(p) \/ Crash(p)
         \/ \E p \in Panels, n \in Nodes : PassNode(p, n)
<1>1. CASE UNCHANGED vars
  BY <1>1 DEF vars
<1>2. ASSUME NEW s \in Servers, DeployStep(s) \/ LateCreate(s) PROVE UNCHANGED pass
  BY <1>2 DEF DeployStep, DeployInserts, DeployRechecks, DeployPlaces, DeployUnplaced,
              DeployCreated, DeployFails, DeployUndoes, DeployDrops, LateCreate
<1>3. ASSUME NEW s \in Servers, RemovalStep(s) \/ AdminRemoves(s) \/ AdminClears(s)
      PROVE  UNCHANGED pass
  BY <1>3 DEF RemovalStep, RemovalAnswered, RemovalUnanswered, RemovalDropsRow,
              RemovalQueues, AdminRemoves, AdminClears
<1>4. ASSUME NEW p \in Panels, NEW s \in Servers, DeployCounts(p, s) \/ RemovalBegins(p, s)
      PROVE  UNCHANGED pass
  BY <1>4 DEF DeployCounts, RemovalBegins
<1>5. CASE AccountLists \/ AccountStep
  BY <1>5 DEF AccountLists, AccountStep, AccountOnNode, AccountDropsRows, AccountQueues
<1>6. ASSUME NEW n \in Nodes, NodeDown(n) \/ NodeUp(n) PROVE UNCHANGED pass
  BY <1>6 DEF NodeDown, NodeUp
<1> QED BY <1>1, <1>2, <1>3, <1>4, <1>5, <1>6 DEF Next

LEMMA KnownKept == ASSUME TypeOK, KnownFromStart, [Next]_vars PROVE KnownFromStart'
<1> USE DEF KnownFromStart
<1>1. CASE UNCHANGED pass
  BY <1>1
<1>2. ASSUME NEW p \in Panels, PassReads(p) \/ PassProtects(p) \/ Crash(p)
      PROVE  KnownFromStart'
  <2>1. CASE PassReads(p)
    <3>1. pass' = [pass EXCEPT ![p] = [NoPass EXCEPT !.step = "protect", !.known = row,
                                                     !.before = row]]
      BY <2>1 DEF PassReads
    <3>2. LET read == [NoPass EXCEPT !.step = "protect", !.known = row, !.before = row]
          IN read.known = read.before
      BY DEF NoPass
    <3> QED BY <3>1, <3>2 DEF TypeOK
  <2>3. CASE Crash(p)
    BY <2>3 DEF Crash, NoPass, TypeOK
  <2>2. CASE PassProtects(p)
    <3>1. PICK protect : pass' = [pass EXCEPT ![p] =
                           [pass[p] EXCEPT !.step = "nodes", !.protect = protect, !.todo = Nodes]]
      BY <2>2 DEF PassProtects
    <3>2. LET moved == [pass[p] EXCEPT !.step = "nodes", !.protect = protect, !.todo = Nodes]
          IN moved.known = pass[p].known /\ moved.before = pass[p].before
      BY DEF TypeOK, PassRecord
    <3> QED BY <3>1, <3>2 DEF TypeOK
  <2> QED BY <1>2, <2>1, <2>2, <2>3
<1>3. ASSUME NEW p \in Panels, NEW n \in Nodes, PassNode(p, n) PROVE KnownFromStart'
  BY <1>3 DEF PassNode, PassVisits, NoPass, TypeOK, PassRecord
<1>4. \/ UNCHANGED pass
      \/ \E p \in Panels : PassReads(p) \/ PassProtects(p) \/ Crash(p)
      \/ \E p \in Panels, n \in Nodes : PassNode(p, n)
  BY OnlyPassesMovePasses
<1> QED BY <1>1, <1>2, <1>3, <1>4

\* A server that had its row when a pass began survives that pass, whatever is
\* deleted, queued or lost meanwhile (Spared; reconcile_orphans).
THEOREM PassesSpareOwned == Spec => Spared
<1> DEFINE Spares == \A p \in Panels, s \in Servers :
                       pass[p].step = "nodes" /\ pass'[p] # pass[p] /\ at[s] # None
                         /\ at'[s] = None => s \notin pass[p].before
<1>1. Init => KnownFromStart
  <2>1. Init => pass = [p \in Panels |-> NoPass]
    BY DEF Init
  <2>2. NoPass.known = NoPass.before
    BY DEF NoPass
  <2> QED BY <2>1, <2>2 DEF KnownFromStart
<1>2. TypeOK /\ KnownFromStart /\ [Next]_vars => KnownFromStart'
  BY KnownKept
<1>3. TypeOK /\ KnownFromStart /\ [Next]_vars => Spares
  <2> SUFFICES ASSUME TypeOK, KnownFromStart, [Next]_vars, NEW p \in Panels,
                      NEW s \in Servers, pass[p].step = "nodes", pass'[p] # pass[p],
                      at[s] # None, at'[s] = None
               PROVE  s \notin pass[p].before
    OBVIOUS
  <2>1. ~ \E q \in Panels : PassReads(q) \/ PassProtects(q) \/ Crash(q)
    BY DEF PassReads, PassProtects, Crash
  <2>2. PICK q \in Panels, n \in Nodes : PassNode(q, n)
    BY <2>1, OnlyPassesMovePasses
  <2>3. q = p
    BY <2>2 DEF PassNode, PassVisits, TypeOK
  <2>4. PICK gone \in SweptBy(p, n) : Gone(gone)
    BY <2>2, <2>3 DEF PassNode
  <2>5. s \in gone
    BY <2>4 DEF Gone
  <2>6. s \notin pass[p].known
    BY <2>4, <2>5 DEF SweptBy
  <2> QED BY <2>6 DEF KnownFromStart
<1>4. TypeOK /\ KnownFromStart /\ [Next]_vars => [Spares]_vars
  BY <1>3
<1> QED BY <1>1, <1>2, <1>4, TypeCorrect, PTL DEF Spec, Spared
=============================================================================
