------------------------------- MODULE Fleet -------------------------------
(***************************************************************************)
(* The control plane over a fleet of nodes: the panel instances that       *)
(* deploy and delete one customer's servers, the account deletion of the   *)
(* backend tier, the operator console, the queue of deferred deletions in  *)
(* HeatWave and the reconcile passes, with PANEL_STORE=oracle.  A server   *)
(* is a panel_servers row and a container with its data on some node; the  *)
(* two are changed by calls that fail, time out and interleave.            *)
(*                                                                         *)
(* The Oracle store records no placement, so every request goes to the     *)
(* node router's memoised default node, which may be any node that         *)
(* answered within the last DEFAULT_TTL_SECONDS: any node, in this model.  *)
(***************************************************************************)
EXTENDS Integers, FiniteSets

CONSTANTS
  Servers,     \* server ids: a fresh UUID for each deploy
  Nodes,       \* the enabled nodes of the registry
  Panels,      \* panel instances, each with its own locks
  None,        \* nothing
  EnvNode,     \* the node at NODE_URL, which account deletion talks to
  Quota,       \* servers the customer may have
  MaxDelete,   \* reconcile_max_delete
  Others,      \* whether other customers' servers have rows as well
  Requests,    \* bound: what the customer and the operator ask for
  Faults,      \* bound: which outside calls may fail
  MaxOutages,  \* bound: how often a node stops answering
  MaxCrashes   \* bound: how often a panel instance dies

RequestKinds == {"deploy", "delete", "account", "remove", "clear", "sweep"}
FaultKinds == {"create", "timeout", "drop", "queue"}

ASSUME FleetConstants ==
  /\ None \notin Nodes /\ None \notin Panels /\ EnvNode \in Nodes
  /\ Quota \in Nat /\ MaxDelete \in Nat /\ Others \in BOOLEAN
  /\ MaxOutages \in Nat /\ MaxCrashes \in Nat
  /\ Requests \subseteq RequestKinds /\ Faults \subseteq FaultKinds
  /\ IsFiniteSet(Servers)

VARIABLES
  row,      \* panel_servers
  at,       \* the node that holds the server's data
  tomb,     \* pending_container_deletions
  deploy,   \* create_server and _background_create of each id
  late,     \* ids whose create the node still works on, unknown to the panel
  removal,  \* the delete request in progress for each id
  account,  \* the deletion of the customer's account
  pass,     \* the reconcile pass of each panel instance
  reach,    \* the nodes that answer
  outages, crashes  \* history

control == <<row, tomb>>
bounds == <<outages, crashes>>
vars == <<control, at, deploy, late, removal, account, pass, reach, bounds>>

InLock == {"counted", "inserted"}
Working == {"checked", "creating", "undo", "drop"}
DeploySteps == {"none"} \cup InLock \cup Working \cup {"done", "gone"}
RemovalSteps == {"none", "node", "row", "queue"}

NoRemoval == [step |-> "none", by |-> None, node |-> None, reached |-> FALSE]
NoAccount == [step |-> "none", ids |-> {}, unconfirmed |-> {}]
NoPass == [step |-> "none", known |-> {}, protect |-> {}, todo |-> {}, before |-> {}]

DeployRecord == [step : DeploySteps, by : Panels \cup {None}, node : Nodes \cup {None}]
RemovalRecord == [step : RemovalSteps, by : Panels \cup {None},
                  node : Nodes \cup {None}, reached : BOOLEAN]
PassRecord == [step : {"none", "protect", "nodes"}, known : SUBSET Servers,
               protect : SUBSET Servers, todo : SUBSET Nodes, before : SUBSET Servers]

\* A client is never None: a create and its undo have a node to talk to.
TypeOK ==
  /\ row \subseteq Servers /\ tomb \subseteq Servers
  /\ at \in [Servers -> Nodes \cup {None}]
  /\ deploy \in [Servers -> DeployRecord]
  /\ \A s \in Servers : deploy[s].step \in {"creating", "undo"} => deploy[s].node \in Nodes
  /\ late \subseteq Servers
  /\ removal \in [Servers -> RemovalRecord]
  /\ account \in [step : {"none", "node", "rows", "queue", "gone"},
                  ids : SUBSET Servers, unconfirmed : SUBSET Servers]
  /\ pass \in [Panels -> PassRecord]
  /\ reach \subseteq Nodes
  /\ outages \in 0..MaxOutages /\ crashes \in 0..MaxCrashes

\* A customer with some servers, each on one of the nodes.
Init ==
  \E place \in [Servers -> Nodes \cup {None}] :
    /\ at = place
    /\ row = {s \in Servers : place[s] # None}
    /\ Cardinality(row) <= Quota
    /\ tomb = {} /\ late = {}
    /\ deploy = [s \in Servers |-> [step |-> IF s \in row THEN "done" ELSE "none",
                                    by |-> None, node |-> None]]
    /\ removal = [s \in Servers |-> NoRemoval]
    /\ account = NoAccount
    /\ pass = [p \in Panels |-> NoPass]
    /\ reach = Nodes
    /\ outages = 0 /\ crashes = 0

-----------------------------------------------------------------------------
(* Helpers *)

DeployGoes(s, step) == deploy' = [deploy EXCEPT ![s].step = step]
RemovalGoes(s, step) == removal' = [removal EXCEPT ![s].step = step]
Gone(ss) == at' = [s \in Servers |-> IF s \in ss THEN None ELSE at[s]]

\* A delete with purge; an account deletion may have left data that no container
\* leads to, and the node answers 404.
PurgeOn(s, n) ==
  IF at[s] = n
  THEN Gone({s}) \/ (account.step \notin {"none", "node"} /\ UNCHANGED at)
  ELSE UNCHANGED at

\* delete_server_for_user; when it raises the row stays behind.
DropRow(s) == row' = row \ {s} \/ ("drop" \in Faults /\ row' = row)

\* The per-user asyncio lock of one instance: another instance has another.
LockFree(p) == \A s \in Servers : deploy[s].by = p => deploy[s].step \notin InLock

-----------------------------------------------------------------------------
(* create_server *)

DeployCounts(p, s) ==
  /\ "deploy" \in Requests
  /\ account.step = "none"
  /\ deploy[s].step = "none" /\ LockFree(p)
  /\ Cardinality(row) < Quota
  /\ deploy' = [deploy EXCEPT ![s] = [step |-> "counted", by |-> p, node |-> None]]
  /\ UNCHANGED <<control, at, late, removal, account, pass, reach, bounds>>

DeployInserts(s) ==
  /\ deploy[s].step = "counted"
  /\ \/ row' = row \cup {s} /\ DeployGoes(s, "inserted")
     \/ "drop" \in Faults /\ row' = row /\ DeployGoes(s, "gone")
  /\ UNCHANGED <<tomb, at, late, removal, account, pass, reach, bounds>>

\* Mutant: the rows are not counted again.
DeployTrustsCount(s) ==
  /\ deploy[s].step = "inserted"
  /\ DeployGoes(s, "checked")
  /\ UNCHANGED <<control, at, late, removal, account, pass, reach, bounds>>
\* The count again, now that the row is in; then the lock is released.  When
\* the count raises, the request ends and its row stays.
DeployRechecks(s) ==
  /\ deploy[s].step = "inserted"
  /\ \/ Cardinality(row) > Quota /\ DropRow(s) /\ DeployGoes(s, "gone")
     \/ Cardinality(row) <= Quota /\ UNCHANGED row /\ DeployGoes(s, "checked")
     \/ "drop" \in Faults /\ UNCHANGED row /\ DeployGoes(s, "gone")
  /\ UNCHANGED <<tomb, at, late, removal, account, pass, reach, bounds>>

\* reachable_client_for(None), and the background task begins.
DeployPlaces(s) ==
  /\ deploy[s].step = "checked"
  /\ \E n \in reach : deploy' = [deploy EXCEPT ![s].step = "creating", ![s].node = n]
  /\ UNCHANGED <<control, at, late, removal, account, pass, reach, bounds>>

DeployUnplaced(s) ==
  /\ deploy[s].step = "checked" /\ reach = {}
  /\ DropRow(s)
  /\ DeployGoes(s, "gone")
  /\ UNCHANGED <<tomb, at, late, removal, account, pass, reach, bounds>>

-----------------------------------------------------------------------------
(* _background_create *)

DeployCreated(s) ==
  /\ deploy[s].step = "creating" /\ deploy[s].node \in reach
  /\ at' = [at EXCEPT ![s] = deploy[s].node]
  /\ DeployGoes(s, "done")
  /\ UNCHANGED <<control, late, removal, account, pass, reach, bounds>>

\* Refused, unreachable, or no answer within CREATE_TIMEOUT: then the node may
\* still be at work on it.
DeployFails(s) ==
  /\ deploy[s].step = "creating"
  /\ \/ ("create" \in Faults \/ deploy[s].node \notin reach) /\ UNCHANGED late
     \/ "timeout" \in Faults /\ deploy[s].node \in reach /\ late' = late \cup {s}
  /\ DeployGoes(s, "undo")
  /\ UNCHANGED <<control, at, removal, account, pass, reach, bounds>>

\* The node finishes the create, or gives up, after the panel stopped waiting.
LateCreate(s) ==
  /\ s \in late
  /\ late' = late \ {s}
  /\ at' = [at EXCEPT ![s] = deploy[s].node] \/ UNCHANGED at
  /\ UNCHANGED <<control, deploy, removal, account, pass, reach, bounds>>

\* The compensating delete, best effort: nothing is there yet if the create is
\* still on its way.
DeployUndoes(s) ==
  /\ deploy[s].step = "undo"
  /\ IF deploy[s].node \in reach THEN PurgeOn(s, deploy[s].node) ELSE UNCHANGED at
  /\ DeployGoes(s, "drop")
  /\ UNCHANGED <<control, late, removal, account, pass, reach, bounds>>

DeployDrops(s) ==
  /\ deploy[s].step = "drop"
  /\ DropRow(s)
  /\ DeployGoes(s, "gone")
  /\ UNCHANGED <<tomb, at, late, removal, account, pass, reach, bounds>>

-----------------------------------------------------------------------------
(* delete_server: the node, the row, then the tombstone *)

\* The row carries no node id: any node may be the memoised default, and the
\* request goes on without one when none is known.
RemovalBegins(p, s) ==
  /\ "delete" \in Requests /\ account.step = "none"
  /\ s \in row /\ removal[s].step = "none"
  /\ \/ \E n \in Nodes :
          removal' = [removal EXCEPT ![s] = [step |-> "node", by |-> p, node |-> n,
                                             reached |-> FALSE]]
     \/ /\ reach = {}
        /\ removal' = [removal EXCEPT ![s] = [step |-> "row", by |-> p, node |-> None,
                                              reached |-> FALSE]]
  /\ UNCHANGED <<control, at, deploy, late, account, pass, reach, bounds>>

\* Any answer counts, a 404 from a node that never had the server as well.
RemovalAnswered(s) ==
  /\ removal[s].step = "node" /\ removal[s].node \in reach
  /\ PurgeOn(s, removal[s].node)
  /\ removal' = [removal EXCEPT ![s].step = "row", ![s].reached = TRUE]
  /\ UNCHANGED <<control, deploy, late, account, pass, reach, bounds>>

\* No connection, or no answer to a delete the node may have carried out.
RemovalUnanswered(s) ==
  /\ removal[s].step = "node"
  /\ \/ removal[s].node \notin reach /\ UNCHANGED at
     \/ /\ "timeout" \in Faults /\ removal[s].node \in reach
        /\ PurgeOn(s, removal[s].node) \/ UNCHANGED at
  /\ RemovalGoes(s, "row")
  /\ UNCHANGED <<control, deploy, late, account, pass, reach, bounds>>

RemovalDropsRow(s) ==
  /\ removal[s].step = "row"
  /\ \/ /\ row' = row \ {s}
        /\ removal' = [removal EXCEPT ![s] =
             IF @.reached THEN NoRemoval ELSE [@ EXCEPT !.step = "queue"]]
     \/ /\ "drop" \in Faults
        /\ row' = row
        /\ removal' = [removal EXCEPT ![s] = NoRemoval]
  /\ UNCHANGED <<tomb, at, deploy, late, account, pass, reach, bounds>>

\* enqueue_container_deletion is best effort.
RemovalQueues(s) ==
  /\ removal[s].step = "queue"
  /\ tomb' = tomb \cup {s} \/ ("queue" \in Faults /\ tomb' = tomb)
  /\ removal' = [removal EXCEPT ![s] = NoRemoval]
  /\ UNCHANGED <<row, at, deploy, late, account, pass, reach, bounds>>

-----------------------------------------------------------------------------
(* _delete_user_panel_servers_and_containers, run by the backend tier *)

AccountLists ==
  /\ "account" \in Requests /\ account.step = "none"
  /\ account' = [step |-> "node", ids |-> row, unconfirmed |-> {}]
  /\ UNCHANGED <<control, at, deploy, late, removal, pass, reach, bounds>>

\* The deletes of the listed servers, all sent to NODE_URL.  The purge flag is
\* in the query, where delete_server of the agent does not look: the container
\* goes and the data stays.
AccountOnNode ==
  /\ account.step = "node"
  /\ \E missed \in SUBSET account.ids :
       /\ missed = IF EnvNode \in reach
                   THEN IF "timeout" \in Faults THEN missed ELSE {}
                   ELSE account.ids
       /\ account' = [account EXCEPT !.step = "rows", !.unconfirmed = missed]
  /\ UNCHANGED <<control, at, deploy, late, removal, pass, reach, bounds>>

AccountDropsRows ==
  /\ account.step = "rows"
  /\ row' = row \ account.ids
  /\ account' = [account EXCEPT !.step = "queue"]
  /\ UNCHANGED <<tomb, at, deploy, late, removal, pass, reach, bounds>>

AccountQueues ==
  /\ account.step = "queue"
  /\ \/ tomb' = tomb \cup account.unconfirmed
     \/ "queue" \in Faults /\ tomb' = tomb
  /\ account' = [NoAccount EXCEPT !.step = "gone"]
  /\ UNCHANGED <<row, at, deploy, late, removal, pass, reach, bounds>>

-----------------------------------------------------------------------------
(* The operator console.  Its third request, to delete a queued container     *)
(* now, is refused for every entry: none of them carries a node id.           *)

\* The node is contacted for a row with a node id, and this row has none.
AdminRemoves(s) ==
  /\ "remove" \in Requests
  /\ s \in row
  /\ row' = row \ {s}
  /\ UNCHANGED <<tomb, at, deploy, late, removal, account, pass, reach, bounds>>

AdminClears(s) ==
  /\ "clear" \in Requests
  /\ s \in tomb
  /\ tomb' = tomb \ {s}
  /\ UNCHANGED <<row, at, deploy, late, removal, account, pass, reach, bounds>>

-----------------------------------------------------------------------------
(* reconcile_orphans of each panel instance, and ServerManager.reconcile *)

PassReads(p) ==
  /\ "sweep" \in Requests
  /\ pass[p].step = "none"
  /\ pass' = [pass EXCEPT ![p] = [NoPass EXCEPT !.step = "protect", !.known = row,
                                                !.before = row]]
  /\ UNCHANGED <<control, at, deploy, late, removal, account, reach, bounds>>

\* Mutant: the allowlist is read again after the queue.
PassProtectsAndRereads(p) ==
  /\ pass[p].step = "protect"
  /\ pass' = [pass EXCEPT ![p].step = "nodes", ![p].known = row, ![p].protect = tomb,
                          ![p].todo = Nodes]
  /\ UNCHANGED <<control, at, deploy, late, removal, account, reach, bounds>>
\* list_container_deletions returns [] when HeatWave is unusable.
PassProtects(p) ==
  /\ pass[p].step = "protect"
  /\ \E protect \in {tomb} \cup (IF "queue" \in Faults THEN {{}} ELSE {}) :
       pass' = [pass EXCEPT ![p].step = "nodes", ![p].protect = protect,
                            ![p].todo = Nodes]
  /\ UNCHANGED <<control, at, deploy, late, removal, account, reach, bounds>>

\* What a node deletes: up to the cap, and nothing on an empty allowlist.
SweptBy(p, n) ==
  LET orphans == {s \in Servers : at[s] = n /\ s \notin pass[p].known \cup pass[p].protect}
      count == Cardinality(orphans)
  IN IF pass[p].known = {} /\ ~Others THEN {{}}
     ELSE {gone \in SUBSET orphans :
             Cardinality(gone) = IF count <= MaxDelete THEN count ELSE MaxDelete}

\* Mutant: the pass ends after the first node.
PassStopsAtFirst(p, n) == pass' = [pass EXCEPT ![p] = IF n = EnvNode THEN NoPass ELSE @]
PassVisits(p, n) ==
  LET left == pass[p].todo \ {n}
  IN pass' = [pass EXCEPT ![p] = IF left = {} THEN NoPass
                                 ELSE [pass[p] EXCEPT !.todo = left]]

\* The tombstones of what is gone are dropped, unless that write or the answer
\* of the node is lost.
PassNode(p, n) ==
  /\ pass[p].step = "nodes" /\ n \in pass[p].todo
  /\ IF n \in reach
     THEN \E gone \in SweptBy(p, n) :
            /\ Gone(gone)
            /\ \/ tomb' = tomb \ gone
               \/ Faults \cap {"timeout", "queue"} # {} /\ tomb' = tomb
     ELSE UNCHANGED <<at, tomb>>
  /\ PassVisits(p, n)
  /\ UNCHANGED <<row, deploy, late, removal, account, reach, bounds>>

-----------------------------------------------------------------------------
(* Failures and the specification *)

\* A node stops answering, alone or with all the others.
NodeDown(n) ==
  /\ outages < MaxOutages /\ n \in reach
  /\ reach' \in {reach \ {n}, {}} /\ outages' = outages + 1
  /\ UNCHANGED <<control, at, deploy, late, removal, account, pass, crashes>>

NodeUp(n) ==
  /\ n \notin reach
  /\ reach' = reach \cup {n}
  /\ UNCHANGED <<control, at, deploy, late, removal, account, pass, bounds>>

\* A panel instance dies with its requests, its background tasks and its pass;
\* the create a node is at work on goes on.
Crash(p) ==
  /\ crashes < MaxCrashes
  /\ crashes' = crashes + 1
  /\ late' = late \cup {s \in Servers : deploy[s].by = p /\ deploy[s].step = "creating"}
  /\ deploy' = [s \in Servers |->
       IF deploy[s].by = p /\ deploy[s].step \in InLock \cup Working
       THEN [deploy[s] EXCEPT !.step = "gone"] ELSE deploy[s]]
  /\ removal' = [s \in Servers |-> IF removal[s].by = p THEN NoRemoval ELSE removal[s]]
  /\ pass' = [pass EXCEPT ![p] = NoPass]
  /\ UNCHANGED <<control, at, account, reach, outages>>

DeployStep(s) ==
  DeployInserts(s) \/ DeployRechecks(s) \/ DeployPlaces(s) \/ DeployUnplaced(s)
  \/ DeployCreated(s) \/ DeployFails(s) \/ DeployUndoes(s) \/ DeployDrops(s)
RemovalStep(s) ==
  RemovalAnswered(s) \/ RemovalUnanswered(s) \/ RemovalDropsRow(s) \/ RemovalQueues(s)
AccountStep == AccountOnNode \/ AccountDropsRows \/ AccountQueues

Next ==
  \/ \E p \in Panels, s \in Servers : DeployCounts(p, s) \/ RemovalBegins(p, s)
  \/ \E s \in Servers :
       \/ DeployStep(s) \/ LateCreate(s) \/ RemovalStep(s)
       \/ AdminRemoves(s) \/ AdminClears(s)
  \/ AccountLists \/ AccountStep
  \/ \E p \in Panels : PassReads(p) \/ PassProtects(p) \/ \E n \in Nodes : PassNode(p, n)
  \/ \E n \in Nodes : NodeDown(n) \/ NodeUp(n)
  \/ \E p \in Panels : Crash(p)

Spec == Init /\ [][Next]_vars

\* The event loop runs every task, outside calls end by their timeouts, the
\* reconcile loop starts a pass each interval, and a node comes back.
Fairness ==
  /\ \A s \in Servers : WF_vars(DeployStep(s)) /\ WF_vars(LateCreate(s))
                      /\ WF_vars(RemovalStep(s))
  /\ WF_vars(AccountStep)
  /\ \A p \in Panels : WF_vars(PassReads(p)) /\ WF_vars(PassProtects(p))
  /\ \A p \in Panels, n \in Nodes : WF_vars(PassNode(p, n))
  /\ \A n \in Nodes : WF_vars(NodeUp(n))
FairSpec == Spec /\ Fairness

-----------------------------------------------------------------------------
(* Properties *)

\* Of the rows a customer holds, no more than the quota belong to servers that
\* were granted: the count before the insert is not safe with two instances,
\* the count after it is (create_server).
Granted == {s \in row : deploy[s].step \in {"checked", "creating", "done"}}
QuotaHolds == Cardinality(Granted) <= Quota

\* A pass never takes the data of a server that had its row when the pass
\* began: neither a delete that ends in the middle of the pass nor a tombstone
\* queued after the pass read the queue costs data (reconcile_orphans).
Spared ==
  [][\A p \in Panels, s \in Servers :
       pass[p].step = "nodes" /\ pass'[p] # pass[p] /\ at[s] # None /\ at'[s] = None
         => s \notin pass[p].before]_vars

\* Data without a row does not stay for good: a pass removes it, or it waits in
\* the queue for a decision (reconcile_orphans, delete_server).
OrphanSettles ==
  \A s \in Servers : (s \notin row /\ at[s] # None) ~> (at[s] = None \/ s \in tomb)

\* What the docstring of reconcile_orphans says: it deletes containers whose id
\* is no longer in the database.
LiveSpared ==
  [][\A s \in Servers : at[s] # None /\ at'[s] = None /\ s \in row =>
       deploy[s].step = "undo" \/ removal[s].step = "node"]_vars
=============================================================================
