# Verification of appmain

appmain hosts Discord bots. A user signs in to a web site (`src/app1`), creates
"servers" in its panel (`src/app1/panel_app`), and each server is a Docker
container on one of several hosts, each run by a node agent
(`src/node-agent`). A separate engine publishes Minecraft status messages for
bots that need no container. Operators work in a console of their own
(`src/admin`), and a small tool edits the databases (`src/db_admin`).

This directory holds TLA+ models of the parts of that system whose correctness
depends on order, failure and concurrency, the TLC configurations that check
them on small instances, and TLAPS proofs of the results that hold for every
size. `PROJECT.json` indexes everything: which lines each definition models,
what each run checks, which hazards of the code each property covers.

| module | what it is |
| --- | --- |
| `NodeAgent` | one node agent with its workers, install threads, sweeps, crashes |
| `InstallPool` | the abstract pool of install permits that `NodeAgent` implements |
| `Fleet` | panel instances, backend and console over several nodes and two databases |
| `PanelPower` | power, change and rebuild of one server: container, row and configuration file |
| `NodeClient` | the panel's client of a node with several addresses |
| `Catalog` | the panel's catalog cache with its single background fetch |
| `Publisher` | the bot engines, the lease in the bots row, and Discord |
| `Signup` | a registration and its one-time codes in several backend workers |
| `Sessions` | sessions, password changes and operator tickets of one account |
| `Trials` | the trial of an account: renewals, the sweep, the operator |
| `KeyRotation` | the replacement of the encryption key next to tiers that write |
| `SlidingWindow` | the two-bucket window of the edge gate (operators only) |
| `EdgeGate` | the gate's table of addresses, over `SlidingWindow` |
| `HardClose` | the gate's closing of the listener, over `SlidingWindow` |
| `NodeAgentProofs`, `FleetProofs` | theorems about the node agent and the fleet |
| `PanelProofs` | theorems about `PanelPower`, `NodeClient` and `MCPanel` |
| `LiveProofs` | theorems about `Publisher`, `Catalog`, `HardClose` and `MCLive` |
| `SessionsProofs`, `SignupProofs` | theorems about the module each is named for |
| `GateProofs` | theorems about `EdgeGate` and its sliding window |
| `AccountsProofs` | theorems about `Trials`, `KeyRotation` and `MCAccounts` |
| `MCNodeAgent`, `MCFleet`, `MCPublisher` | sets of servers, nodes and engines for TLC, and symmetry |
| `MCPanel`, `MCAccounts`, `MCLive` | several of the models side by side (see "Runs") |

## Inventory

| component | state | operations | what is hard | what makes it correct |
| --- | --- | --- | --- | --- |
| node agent (`server_manager`, `docker_runtime`, `disk_cleanup`) | containers, data directories, install state in memory and in files, install slots, a lock per server | create, reinstall, power, rebuild, remove, reconcile, sweep, restart | waitress workers, install threads and sweeps interleave around slow Docker calls; each may fail; the process may be killed while containers live on | slots are returned once; one build per server; a bot does not run over its build; no container without data; losses are recorded; backlogs drain |
| panel deploy and delete (`routes`, `store`, `node_router`, `runtime`) | `panel_servers`, the queue of deferred deletions in HeatWave, an asyncio lock per user and process, background tasks | deploy, background create with its undo, delete, reconcile pass | two instances without a common lock; calls that time out and take effect later; lists read before they are used | quota; a pass takes nothing that is owned; nothing without a row stays for good |
| account deletion, console | the same rows and queue | delete account, delete server, clear the queue | other processes change what the panel relies on | the same |
| bot engine (`engine`) | `_last_update`, publish locks, reply state in memory; `bots` row with lease and message id; Discord | tick, publish, start, stop, generate, reply poll | several engines share a row; posts are not idempotent; Discord fails in several ways | one status message but for those it lost sight of; running bots are refreshed; expired trials stop |
| panel power and rebuild (`routes`, `store`) | the container, `panel_servers.desired_state` and version, the configuration file on the node | power, batch power, change of image or startup, rebuild | a call and two writes in two places, with compensation outside the lock; a batch records without it | one undisturbed request brings the three together |
| node client (`node_client`) | active address, cooldowns, whether it was probed | probe, request, retry, ping before a create | threads share what they learn; answers are lost | a write is carried out once unless its connection was reset; nothing is refused unasked; requests recover |
| catalog cache (`runtime`) | the copy, the flag, the event and lock of the fetch, the backoff | get, fetch, wait | several exits, threads that cannot be started | one fetch at a time; a stale copy is replaced |
| signup (`backend`, `database`) | users row, `otp_codes` with attempts and a used flag | register, verify, discard, expire | several workers read, compare and write in separate statements | a code is used once and guessed a bounded number of times; the newest survives |
| sessions (`frontend`, `backend`, `database`, console) | `sessions` rows, password hash, cookies, tickets | log in, save, log out, change, reset, impersonate | a login in flight next to a reset or a revocation; a trim that reads what others insert | ended is ended if the deletion was answered; a reset locks out whoever it did not overlap; the cap holds |
| trials (`database`, `start_database`) | deadline, warning and stop stamps, bots | warn, stop, delete, renew, extend, change plan | a pass acts on rows it read earlier; daemons die; two doors renew | a stop and its grace before deletion; a renewal protects; a lapsed trial goes |
| key rotation (`rotate_key`, `rekey_encrypted`) | `.env` of two tiers, ciphertext of every row, keys in running processes | rotate, rekey, retire | death between files or rows; a fleet that writes meanwhile | every value stays readable; success means complete |
| edge gate (`edge_gate`, `frontend`) | window and block of each address, global rate, listener | hit, block, sweep, close | the table at its cap; a sweep next to a block; pressure that comes and goes | a tracked address stays within its bound; a block lasts; only sustained pressure closes |
| Oracle pool, shared clock | sessions, clock offset | acquire, release, measure | callers that hold one session and need another | no caller waits for itself |
| the rest | request filters, pages, advertisements, scripts, vendored copies | | no state that outlives a request, or one statement per operation | |

The components talk as follows. The panel and the frontend call the backend and
the engine over HTTP with an internal token; the panel, the backend and the
console call the node agents over HTTP with the node's token; all but the
agents share Oracle (users, bots, panel servers) and HeatWave (deferred
deletions, logs, settings). Nothing is transactional across two of them, and
every tier may run twice. `Fleet` composes what the panel, the backend, the
console and the agents do to one row and its container; it takes from the agent
what `NodeAgent` has in detail (an agent removes a container and its data, its
reconcile is capped and refuses an empty list).

## The node agent: `NodeAgent`, `InstallPool`, `NodeAgentProofs`

The agent is one process: a pool of waitress workers that serve HTTP requests,
one daemon thread per dependency install, and a daemon thread that sweeps the
disk. It keeps a bounded semaphore of install slots, a re-entrant lock per
server, and the install state of each server in memory and in
`<id>.install.json`. Docker and the data root survive it.

How the state corresponds to the code:

| variable | code |
| --- | --- |
| `container` | the container labelled with the server's id, and its Docker status |
| `dir` | whether `data_root/<id>` exists with content |
| `install`, `saved` | the status in `_installs[id]`, and in the state file |
| `slots` | the value of `_install_slots` |
| `lock` | who holds `_server_locks[id]` across steps |
| `pc`, `srv`, `running`, `handle` | a worker's place in its handler, the server of the request, the status and the container object it read before it took the lock |
| `job` | an install thread (from `thread.start()` to its last write) and its install container, which outlives a killed agent as `leftover` |
| `pass`, `sweep` | the lists a reconcile pass and a disk cleanup sweep took before they began to remove things |

A step ends where another party can be seen in between: at a Docker call, at a
change of the disk, at the acquisition of a server lock. `power` is a lookup
and a locked step, because the container object is fetched before the lock and
reloaded under it; `_rebuild` reads the running flag before the lock, and is
then a removal, a creation and, if that fails, a restoration; `remove` is the
removal of the container, of the data, of the record in memory and of the file.
A reconcile pass takes its lists in one step and then goes through them without
a lock of its own. `Crash` may happen between any two steps, and `Restart` does
what `ServerManager.__init__` does.

The constants `Requests` and `Faults` choose which requests arrive and which
outside calls may fail. They exist because several of the properties hold only
for some mixes of requests: the code has interleavings in which they fail, and
a run states for which mix a property was checked (see "What the code does not
guarantee").

`InstallPool` is the abstract promise about installs: a fixed number of permits,
each held by one party, passed on from a request to the install it starts,
returned once, all returned by a restart. `NodeAgent` implements it with
`Held`, the workers inside `create_server` and the threads whose install
container exists or is about to (`ImplementsPool`).

### Runs

All instances have two workers, which is enough for every pair of handlers to
interleave; the sweep, the install threads and Docker are separate actors.
`ReuseIds` is FALSE: the panel gives every server a fresh UUID.

* `slots` (`NodeAgent_slots.cfg`): two servers, one install slot, two install
  threads, one kill; creates, reinstalls, removals and purges; creation, thread
  start and install container may fail. With one slot every refusal and every
  leak happens; two servers compete for it. Checks `TypeOK`, `SlotAccounting`,
  `InstallCeiling`, `BuildIsReported` and the refinement `ImplementsPool`.
* `life`: one server, two slots (so that a second build of the same server is
  not stopped by the lack of a permit), up to two kills, the sweep, power and
  purges; every outside call may fail, the removals of a container ("drop") and
  of a directory ("wipe") included. Checks `ContainerHasData`, `OneBuildPerServer` and, under fairness,
  `InstallSettles`.
* `backlog`: three servers, of which the panel knows one, and a cap of one
  deletion per pass: the smallest instance with a backlog above the cap. One
  worker runs the passes and purges of the others, the other powers and rebuilds
  the server that stays, with every failure of a rebuild or a removal; once nothing
  of the others is left, and as long as the agent lives, the first worker rebuilds
  it as well, so that two rebuilds overlap and one may find no container. Checks
  `LossRecorded`, and `OrphansDrain` under the assumption that passes keep
  arriving and that Docker does not refuse one removal for ever: the cap cuts the
  list at its head (1050), so containers that can never be removed would keep
  the others from ever being tried.
* `v_restart` expects a violation of `NoBotDuringBuild`, see below.

The fairness of these specifications is weak fairness of each worker's handler,
of each install thread, of a sweep that has begun and of the restart of a killed
agent: threads are run by the operating system until they are done, Docker
calls time out after 120 seconds and an install after
`INSTALL_TIMEOUT_SECONDS`, and `docker-compose.yml` has `restart:
unless-stopped`. No request is assumed to arrive and no lock is assumed to be
handed out fairly, with two exceptions: `BacklogSpec` assumes that the panel's
reconcile loop goes on, and (strong fairness of `ReconcileRemove`) that a removal
that is tried again and again succeeds in the end.

### Proofs

`NodeAgentProofs` proves for every set of servers, every number of workers and
threads, every capacity and every mix of requests and faults:

* `TypeCorrect`: `TypeOK` is an invariant. It is inductive; the proof has a
  lemma for the helpers and one step per action.
* `SlotsAccountedFor`: `SlotAccounting`. With `TypeOK` it is inductive. Each
  step moves at most one party in or out of `SlotWorkers` and `SlotJobs`, and the
  proof counts the change with the library's facts about cardinalities.
* `InstallsBounded`: `InstallCeiling`, if the startup reap cannot fail. It needs
  a strengthening: no leftover install container exists while the agent is up,
  and together with the threads that hold a slot they are no more than the
  capacity.
* `ServerMutexHolds`: from the invariant `LockHeld`, that a worker inside a
  critical section is recorded as the owner of its server's lock.
* `NodeImplementsPool`: the refinement, from `SlotAccounting`: a reservation is
  enabled only while fewer permits are held than there are.

Four invariants rest on hypotheses, three of them on a mix of requests. Their hypotheses are about
`Requests`, `Faults` and `ReuseIds`, never about the state, and the run that checks
each of them satisfies them. Ids are fresh as the panel draws one for each server
(`routes.py:1337`); with a reused id an old removal meets a new create. The first
three rest on `Fresh` (what exists for a server was begun with its id, and at most
one create is before its container), two of them on `Unasked` (no worker is at a
step of a request that nobody makes).

* `DataOutlivesContainer`: `ContainerHasData`, for fresh ids and any mix of
  requests. The property names its two exceptions, each a set the model only ever
  adds to: `stuck`, the servers for which the rollback of a create logged "could
  not remove container" (Docker refused, or a rebuild had replaced the container)
  before it removed the directory, and `condemned`, those whose directory a pass
  set out to remove because its snapshot showed no container. `DataHeld` adds what
  the workers know: one that is about to create finds a directory, one that is
  about to delete data has removed the container and nobody is between the two
  halves of a rebuild, one that rebuilds has no container until it makes one.
* `BuildsReported`: `BuildIsReported`, for fresh ids and no rebuild. `BuildHeld`:
  every install thread that is active is reported as running or its server is gone
  for good, two of them for one server are possible only once it is gone, and who
  is about to forget a server's state has removed it (`Gone` is stable).
* `OneBuildAtATime`: `OneBuildPerServer`, if moreover the startup reap cannot fail,
  and nothing is created, or nothing is removed and reconciled. In the first case
  two threads for one server cannot be (`BuildHeld`); in the second they can, but
  the directory went first, so that the second has nothing to build in
  (`RazeHeld`). `NothingStray` carries it across kills of the agent.
* `LossIsRecorded`: `LossRecorded` for the load of `MCNodeAgent`, in which one
  server is rebuilt and others are removed. `LossHeld`: while the agent lives, the
  server without its container is recorded as failed, or a worker is on the way to
  record it.

Model-checked only: the liveness properties. `ServerMutex` is proved and needs no
run.

### What the code does not guarantee

`v_restart` expects a violation (`findings` in `PROJECT.json`): a power
*restart* during an install starts the bot over the build, although the agent's
README says start is refused until it finishes.

Other interleavings met while modelling, which bound the request mixes above
and have no run of their own:

* `create` followed by `start` before `start_install` records the install
  (server_manager.py:479-480), and a crash-looping bot whose status is
  "restarting" when `reinstall` looks (606), also let a bot run during a build.
* `update_version` and `update_startup` read the running flag before the lock
  (652, 668), so a stop in between is undone.
* `_restore_container` writes "failed" over an install in progress (761), which
  lets a second install start over the same directory; and `_run_install`
  writes its result over the recorded loss (600), and over the state of a
  server purged meanwhile.
* `disk_cleanup` lists directories before containers (216), so it removes the
  container of a server created in between.
* A reconcile pass with anything to clean, and the disk cleanup, remove the
  install containers of builds in progress (server_manager.py:1087), which the
  comment there calls leftovers; the owner's build fails.
* A create whose container was rebuilt before its rollback, or whose container
  Docker does not remove, leaves a container without its data, and a warning
  (487-492): `stuck` in the model. The next start of that container makes an
  empty directory of Docker's.
* A pass that was sent an old list, or finds a server at the moment of its
  rebuild, removes its directory (1097): `condemned` in the model.
* A removal that fails after the container is gone keeps the record of the
  install (923-928), and the server says "success" without a container.
* `run_install` removes its container in a `finally` that may raise
  (docker_runtime.py:289): the thread then hands the slot back while the install
  container lives, against the comment at server_manager.py:591. The model's
  install container goes with its slot, so `InstallCeiling` and
  `OneBuildPerServer` do not cover that failure.
* `remove` without a purge forgets the install record while the build of a
  `create` or a reinstall goes on (250), so a second build may start next to it.
* `_rebuild` starts the replacement by a running flag from before the lock (668),
  also when a build of the server has begun meanwhile.

## The control plane: `Fleet`, `FleetProofs`

A server exists twice: as a row of `panel_servers` and as a container with data
on a node. `Fleet` follows both through every call that creates or removes one
of them, for one customer, with the Oracle store.

| variable | code |
| --- | --- |
| `row` | the ids in `panel_servers` |
| `at` | the node that holds the data of an id (one action of the agent: container and data go together) |
| `tomb` | `pending_container_deletions` |
| `deploy` | the place of `create_server` and `_background_create` for an id, the panel instance it runs in, the number of rows it counted |
| `late` | creates that timed out in the panel and that the node still works on |
| `removal` | the place of a delete request |
| `account` | the servers that an account deletion listed and has still to go through |
| `pass` | the reconcile pass of each panel instance: the ids and the queue it read, the nodes still to visit; `before` is a history of the rows when it began |
| `reach` | the nodes that answer |

A step ends at every database statement and every node call. Each panel
instance has its own lock per customer; two instances share nothing but the
databases. The Oracle store keeps no node of a server, so the panel asks its
node router for a default node on each request: memoised per process, chosen
among those that answered lately. The model lets each request take any node.
`EnvNode` is the node at `NODE_URL`, where the account deletion goes.

What is left out: the placement tables of the SQLite store, the name and
runtime checks of a deploy, mail and activity logs. One deletion at a time is in
progress for each id. `Others` says whether other customers' rows exist, which
decides whether a node refuses the list of a pass as empty.

### Runs

* `panel` (part `fleet`): two ids, one node, two instances, a quota of one.
  `QuotaHolds`. Two deploys are the least that race, a quota of one the least
  they exceed; the proof covers every size.
* `fleet_sweep`: one id, two nodes, one instance, every request, every fault, an
  outage of one node or of all, a crash, with weak fairness of all steps in
  progress, of the passes and of the return of nodes. `Spared`,
  `OrphanSettles`. One id is enough because the ids meet only in the quota and
  in the cap of a pass; two nodes because a pass and a default node must be able
  to differ. With one id and other customers on the system neither the cap nor the
  refusal of an empty list ever stops a pass here: that a backlog above the cap
  drains is what `backlog` checks on one node. A queued id counts as settled.
* `fleet_v_stale` expects a violation, see below.

`asgi_panel.py` runs passes for ever with a pause in between, calls have
timeouts, and agents are restarted by Docker; that is the fairness. No request
is assumed to arrive.

### Proofs

For all servers, nodes, instances, quotas and mixes of requests and faults:

* `TypeCorrect`: `TypeOK`, inductive, with a lemma for each group of actions
  that share a frame.
* `QuotaNeverExceeded`: `QuotaHolds` is inductive over `TypeOK`. The only step
  that grants, `DeployRechecks`, counts the rows of the customer after its own was
  inserted and grants only if they fit; the granted servers are a subset of the
  rows, and every other step takes from them.
* `PassesSpareOwned`: `Spared`, from the invariant `KnownFromStart`, that the
  list a pass works with is the rows it began with, and from the fact that no
  action but a node's part of a pass moves a pass that has begun to visit nodes.

`OrphanSettles` is a liveness property and stays with TLC.

### What the code does not guarantee

`v_stale` shows that a pass may purge a server that was deployed after the pass
read its list (`runtime.py:474`): the row exists, the container and its data go.
The first pass is delayed for this reason, the later ones are not.

Met while modelling, and without a run of their own:

* An account deletion that cannot reach `NODE_URL` queues its servers without a
  node (`database.py:2150`). Queued ids are protected in every pass, and the
  console's delete refuses an entry without a node (`admin/bp_nodes.py:648`), so
  nothing drains them but clearing the queue, although the comment at
  `database.py:2144` says the sweep does. Clearing the queue removes the
  protection, although its text says the container is left as it is
  (`admin/bp_nodes.py:682`).
* The account deletion and the console ask for `?purge=true`, which the agent's
  route does not read (`node_agent/app.py:511`): the data stays until a pass.
* A panel instance that dies in `_background_create`, or whose second count
  fails, leaves a row without a container that counts against the quota.
* After an operator's failover to a fresh database the refusal of an empty list
  protects the nodes only until the first deploy (`runtime.py:462-467`).
* `BackendStore` has no `all_server_ids`, so a panel with that store never
  sweeps; the SQLite store returns an empty list and the nodes refuse it.

## The bot engine: `Publisher`, `LiveProofs`

Every engine process has a worker that ticks over the running bots and a control
API whose `generate` publishes at once. Bots share no state, so the model has
one bot, and the engines that may publish it.

| variable | code |
| --- | --- |
| `running`, `message` | columns of the `bots` row; a message id is `none`, `live` (an edit finds it) or `gone` (404) |
| `age` | the time since `last_run`, which is the lease; `Interval` stands for everything older |
| `copies` | status messages of the bot in the channel or webhook it is configured for |
| `local` | the time since `_last_update[bot]` in each process |
| `job` | the worker and a manual publish of each engine: the place, the message id the row had when it was read, whether the destination was changed since, how long it has taken |
| `expired` | `is_trial_expired` of the owner |
| `losses` | a history: engines that died, posts that gave no id, edits answered with 403, saves that took the id of a message out of the row and stay where it is |

Time is counted in ticks. An age stops growing when it no longer matters, so the
state is finite without a bound on time. `Limit` bounds how long a tick spends
between its claim and its last write; the instances have `Limit < Interval`, which
the code has for the default interval of 60 s but not for the minimum of 15 s
with a rate-limited Discord (see below). The worker's throttle is measured at
its start in the code and when it is read in the model, at most `Limit` later.

### Runs

* `live` (part `one`): one engine, all requests (start, stop, generate, save with
  another destination or the same, messages erased in Discord), failing publishes,
  posts without an id, edits answered with 403, a dying engine; polls do not fail
  here. `OneMessage`,
  `OneRefreshes`, `TrialSettles`. Two threads of one process and one destination
  are all the parties there are; an interval of two ticks leaves a tick in which
  the lease is held and one in which it is about to end.
* `live` (part `two`): two engines with stops, saves, erased messages, failing
  polls and publishes, and a dying engine. `OneMessage`, `TrialSettles`.
* `publisher_v_veto` expects a violation, see below.

Fairness: the worker loop of a live process goes on and Discord's calls have
timeouts (weak fairness of each thread's next step and of the clock); the
publish lock, given back again and again, is given to the worker that waits for
it (strong fairness of `TickLocks`: without it the manual publishes of one owner
could keep the worker waiting, which Python's lock does not exclude but a finite
rate of requests does).

### Proofs

* `TypeCorrect`: `TypeOK`, inductive, for all constants `PublisherConstants` admits.
* `OneEngineOneMessage`: `OneMessage` for one engine, all requests and all faults
  (it assumes that any two engines are equal). A loss is a time at which the bot loses
  sight of a message that is there: a death between post and record, a post without
  an id, an edit answered with 403, a save that takes the id out of the row.
  `OneMessage` is not inductive: a second message comes of a post by a publish that
  read an empty row. The
  invariant adds three parts. `Exclusive`: one thread at a time is inside the
  publish lock. `ReadsHold`: a publish that has still to post has read the message
  that the row names, if it names one, or the destination was changed since and the
  row names nothing there. `Accounted`:
  either every message was paid for by a loss, or all but one were and that one
  can be found, from the row or from the publish that is about to write it.
* `LeaseOneMessage`: `OneMessage` for any number of engines, assuming
  `Limit < Interval` and neither starts nor manual publishes, which break it
  (below). The lock of one process says nothing of another, so `Exclusive` has to
  come from the row: `Leased` says that a thread that won the claim is alone, and
  that the lease is no older than the time that thread has spent. As it spends no
  more than `Limit`, no other claim can succeed before it is done. The argument
  for `Accounted` and `ReadsHold` is the same lemma (`MessagesKept`) in both.

`OneRefreshes` and `TrialSettles` are liveness properties and stay with TLC.

### What the code does not guarantee

`publisher_v_veto`: a reply poll that fails at every tick without being parked
(a timeout, a 5xx or 429 answer) stores its error with `update_bot_runtime`,
which renews `last_run`, so the bot's status is never published, although the
comment at `engine.py:1018` says a broken poll must not veto it. A poll that is
parked (401, 403, 404) delays a publish by one interval for each retry.

Met while modelling, and without a run of their own:

* A manual publish on one engine while another is between its claim and its
  post: `force_bot_claim` cannot call the claim back, and both post a first
  message (with `Requests = {"generate"}` and two engines TLC finds it in seven
  states). `engine.py:1126` says "this is the only publish".
* `start` clears the lease while another engine publishes, with the same effect.
* With 429 retries a publish can take longer than a minimum interval of 15 s,
  after which the lease ends under it.
* Saving an embed, or a channel, token or webhook that is the one there is, takes
  `message_id` out of the row (`database.py:3517-3544`; `admin_bots.html` avoids it
  for an embed that was only reformatted), so the next publish posts a second message
  next to the first, which nothing deletes. So does a webhook edit that is answered
  with 403 (`engine.py:597`). A destination that is left and returned to is counted
  anew.
* `generate` does not check the trial (`backend.py`) and sets `running`; the next
  tick stops the bot again (`TrialSettles`). A stop that arrives during a manual
  publish is undone by it.
* `update_bot_runtime` skips a `last_error` of `None`, so an old error stays
  after a successful publish.
* A post with the token that returns no id is repeated every interval; only a
  webhook bot is stopped.
* The replies already given are remembered in the process: a restart, or a
  second engine, replies again within the 30 s window.

## Several models in one run

`MCPanel`, `MCAccounts` and `MCLive` put models that share no state side by
side. A variable `part` is chosen in the initial state and says which of them
the behaviour is about; the others stay as they began. The states of such a run
are the sum of those of its parts, not their product, and a property of one
model holds in the run exactly if it holds of that model alone: where another
part was chosen, its variables never change. Symmetry permutes what is alike in
each part (two requests, two threads, two workers). In `MCLive` the fairness
conditions of the parts are shared: only one of the actions in a disjunction can
ever be taken in a behaviour, so fairness of the disjunction is fairness of that
one. `PanelTypeOK`, `AccountsTypeOK` and `LiveTypeOK` conjoin the type
invariants of the parts, which also say what the representation relies on (one
thread probes, a raised flag has a thread that lowers it, the table of the gate
is within its cap, no list of retired keys is too long).

## Power, image and rebuild: `PanelPower`

`running` and `made` are the container and what it was made with; `desired` and
`shown` the columns of `panel_servers`; `written` the file
`.container_config.json`; `serve` the request each call handles. A power request
is a call to the node under the lock of the server, and then, outside it, two
writes with one compensation; a member of a batch records the state and ignores
what fails. A change of image or startup is a call and two writes; a rebuild is
two calls and a write, and changes neither file nor power state. `settled` remembers what a request did that met
no other and no fault.

* `panel` (part `power`): two requests of any kind on one server, one fault.
  `PowerSettles`: whatever earlier requests left behind, one undisturbed request
  brings container, row and file together (a rebuild: container and row). Two requests are the least that
  interleave; the state space closes, so any number of them may follow each
  other.
* `v_undo` expects a violation of `StoppedIsStopped`: when the row cannot be written
  after a stop of a server that its row already calls stopped, the container is
  started again and the row keeps saying stopped.

A file that cannot be written is only logged (`node_client.py:789`), and the
request goes on. Not modelled: a file that cannot be read is overwritten with
the new fields alone (`node_client.py:779`).

Met while modelling: a restart whose record fails is "reversed" by a stop
(`routes.py:1722`); a batch and a single request record in an order other than
that in which the node served them. A rebuild never stops the server: it looks for
`state` in the answer of the node (`routes.py:1919`), which has it under `server`
as `status` (`app.py:385`, `server_manager.py:785-798` of the node agent), so a
server that runs is made again and started again, twice (`server_manager.py:652`,
668, 696), although `server.html:95` tells the owner that "If the server is running
it is stopped first; you start it again when you are ready."

## The addresses of a node: `NodeClient`

`answers` is what is at each address: the agent, a refused connection, silence,
or the error page of something else. `dead`, `active` and `probed` are the
client's fields, which its threads share; `call` is the request of each thread
with the addresses it has still to try. Whether an address has left its cooldown
is nondeterministic, and what is at an address may change.

* `panel` (part `client`): two threads, two addresses, reads, writes and creates,
  one change of an address from every initial state, one lost answer.
  `WriteOnce`: without a reset connection a write is carried out at most once, and
  otherwise once more for each reset that came after the agent had acted (`cut`).
  `FailsAsked`: no request fails without an attempt, and no read before every
  address was tried.
* `live` (part `client`): a client that has been in use, after the last change of
  an address. `Recovers`: if the agent is at an address for good and reads go on,
  requests stop failing. Fairness: threads go on, cooldowns end.

Met while modelling: `_is_connect_failure` counts ECONNRESET and ECONNABORTED among
the "Errors that prove the request never reached the agent" (`node_client.py:121`),
which they do not: the agent may have carried the request out, and a write is then
sent again to its other address. Without reads a silent address stays the active
one, and each write waits for its timeout again. A foreign service that answers 200 with
JSON is taken for the agent by `_request` (only the probe compares an
identity); it is not modelled.

## The catalog cache: `Catalog`

`catalog` is the copy with its age, `refreshing`, `done` and `lockedBy` the flag,
the event and the lock of the background fetch, `backoff` the time after a
failure, `asking` the callers.

* `live` (part `catalog`): two callers, two fetch threads, fetches and thread
  starts that fail. `NoBail`: no fetch finds the lock taken, because the flag is
  lowered only after the lock is free. `CatalogRefreshes`: a stale copy is
  replaced while pages are asked for. Fairness: threads go on; a thread start and
  a fetch that are tried again and again succeed some time (strong fairness):
  without this nothing can be promised.

## Signup: `Signup`

One email address: its users row, its rows of `otp_codes`, and two backend
workers that serve `register`, `complete-registration`, `discard-registration`
and `login`. Each statement of `generate_otp` and `verify_otp` is a step, and
Oracle is modelled by what it promises: a query sees what is committed; an
UPDATE waits for a row that another transaction has changed and looks again.

* `accounts` (part `signup`): two workers, two codes, two attempts, one request
  that dies. `CodeOnce`, `GuessBound`, `NewestStays`. Two workers are the least
  that overlap; two codes the least that supersede each other.

`GuessBound` allows one guess more for each other worker: the count is compared
before it is written, so guesses that overlap are all compared. Met while
modelling: `discard-registration` reads the row as unverified and deletes the
account in another transaction (`backend.py:1333`), so a purge that was under
way when the visitor verified the address deletes a verified account.

## Sessions: `Sessions`

One account: the `sessions` rows with the order of their last access, the password
and whether its hash is of the old kind, browsers with cookies, requests that
the frontend serves, operators that reset the password or mint a ticket.
`create_session` is three steps (insert, trim, commit) because other logins do
not see its row until it commits, while its DELETE holds the rows it removes.

* `accounts` (part `sessions`): one browser with two requests at a time, a cap of
  one session, two sids, one reset, one POST or DELETE without an answer. `CapBound`,
  `EndedStaysDead`, `ResetHolds`. The cap of one makes every second login trim;
  logins, requests, a reset and a ticket can overlap in pairs.

Each of the three names the overlap it excepts, and the code has it: logins that
create their rows at the same time exceed the cap until the next login, and are all
exempt from `CapBound`; a frontend that does not
wait for the POST may end a session before it is there, and one whose DELETE gets
no answer, which nobody looks at (`frontend.py:310`, 1743), drops the cookie while
the session stays live until its hour is over; a login that was verified before a
reset is granted after it, and its session lives on, with the old password. `born`
is the password that a login was compared with, so `ResetHolds` tells the last one
set from the one that the row holds. Met while modelling: `verify_user` writes an
old hash again from the typed password and so can put the old password back over a
reset (`database.py:2448`), after which that password opens sessions again; the
owner's change, verified against the old password, overwrites an operator's reset
in the same way (2483) and then counts as the newest; minting a ticket with a cap
of one evicts the user's own session; and `create_session` can delete its own
row when another request touches its session between the stamp and the DELETE,
although the comment at 1796 says that the newest survive.

## Trials: `Trials`

One trial account: `left` until `trial_expires_at`, whether it was warned, the
time since `bot_stopped_at`, its bot; the pass of the maintenance daemon, which
reads the row, sends its mails and writes; `renew_user` in two processes, which
reads the row and writes the new deadline; and the operator's changes of plan.
Time is in units relative to now, and ages stop growing where nothing depends on
them, so there is no bound on time. A daemon may die between any two steps.

* `accounts` (part `trials`): one daemon, two doors, a cycle and a grace of two
  units, every event, one death. `NoStacking`, `GraceGiven`, `QuietRenewalSpares`.
* `live` (part `trials`): the same with one door and renewals and downgrades.
  `LapsedDeleted`: the workloads of a trial that is over are deleted in the end.
  Fairness: the clock, the pass (`start_database.py` runs it for ever and starts a
  dead task again), and a renewal that has begun.
* `v_renew` expects a violation of `RenewalSpares`: a pass that read the row before
  the owner renewed sets the stop stamp after the renewal cleared it
  (`database.py:3924`); the deadline stays where the renewal put it, but a later pass
  that finds the stamp as old as the grace period deletes without looking at the
  deadline (3929-3942), while the trial still has days left.

A unit is a day for the settings and a minute for the pass; `Overrun` bounds how
long a pass may take in units (no longer than the grace period), and is the
slack of `GraceGiven`; `QuietRenewalSpares` has none. `halted` and `notice` remember
when the sweep last stopped the workloads and when the mail about that went out.
`GraceGiven` promises the stop, a grace period before the deletion, and not the
mail: one that fails is printed and not tried again, an account without an address
gets none, and the stop is stamped all the same (3917-3926), so workloads can be
deleted of which no mail ever told. A row of another account at which every pass
ends in an error would keep later rows from being treated for good; the model has
one account, so `LapsedDeleted` says nothing of that. Met while
modelling: `renew_user` restarts only bots whose `last_error` is "Stopped:
inactive account" (`database.py:3788`), a text that nothing writes any more
("Trial expired" is), so a renewal starts none; the operator's extension of a
trial and a change of plan leave the stop stamp, and an upgrade during a pass lets
that pass stop or delete the workloads of a paid account.

## Keys: `KeyRotation`

`env` is the key and the list of retired keys in the `.env` of the app and of the
console, `loaded` what their processes hold, `stored` the key each table's values
are encrypted under, `script` the run of `rotate_key.py` or
`rekey_encrypted.py`. Tiers write with the key they loaded at any moment; the
script may die after any write and be started again.

* `accounts` (part `keys`): two tables, three keys, a list of at most two retired
  ones, two deaths, a table that TARGETS may not list. `AppReads`, `DoneIsDone`.
  Two deaths are the least in which a second rotation finds the halves of a
  first and dies itself; with a list of two the third rotation meets the limit.

The values of a table are one value here: a row that is rewritten while a tier
writes it loses that write's content (the rekey reads a row and writes it without
a version), which no property speaks of; they are about keys. `Careful` says that
the operator restarts the stack before `--retire-old`, which
its text asks for; the script checks only that no value needs the key. Met while
modelling: processes that were not restarted cannot read values that were
rewritten (the window `rotate_key.py:2-3` claims not to exist); after a death between the two `.env` writes
the next run demotes the app's key; `--retire-old` does not compare the tiers.

## The edge gate: `SlidingWindow`, `EdgeGate`, `HardClose`

`SlidingWindow` is the arithmetic of both rate limits: a bucket, its predecessor,
and the estimate that weighs the predecessor by its overlap with the window.

* `accounts` (part `gate`): two addresses, two threads, room for one tracked address,
  nine ticks, bursts of three. `PassedBound`: a tracked address gets fewer than
  two ceilings through in any window. `BlockHolds`: nothing passes before a block
  is over, although the row that says so may be swept. A window of three ticks is
  the least in which the weights differ from 0 and 1; nine ticks are three
  windows, so a bucket becomes the older one and is dropped.
* `live` (part `close`): a window of two ticks and a flood of up to two requests in
  each. `CloseSustained`: when the listener is closed, every moment at which
  something arrived during the time a flood must last was above the watermark.
  Times are relative to now, so there is no bound on time.

Addresses beyond the cap of the table are not counted at all (`edge_gate.py:471`),
which `PassedBound` says by speaking of tracked ones. The eviction to 80% (510)
cannot be reached, because `hit` refuses new addresses at the cap. The surge
flag, the challenge and its cookie, and the derivation of the address are not
modelled, nor is an exception in the gate, which lets the request through. Closing
the listener always succeeds here; failed rebinds are retried and are stutters.
A request's count in the global rate and its note of pressure are one step, though
they take two locks in the code, so the model does not have two requests that
note their pressure in the order other than that of their counts.

## Proofs about the panel, the accounts and the gate

Each theorem holds for every value of the constants that the module's named
assumption admits, so for any number of requests, threads, workers, browsers,
tables or deaths. Each proof has a lemma per action or group of actions, and a
typing of the variables where the type invariant of the module is not listed.

* `PowerSettled`: `PowerSettles`. The invariant is `Undisturbed`: a request that
  met no other and no fault is the only one that is busy, and what it did so far
  (`Done`) has happened. A request that meets another marks both, which is why
  `quiet` can be read as "alone since it began".
* `FetchesApart`: `NoBail`. `OneFetch` says that the flag stands for at most one
  thread that is under way, and that only a thread that fetches holds the lock. The
  thread that is about to take the lock is the one of the flag, so the lock is
  free. That the lock is released before the flag is lowered is what it rests on.
* `RotationLosesNothing`: `AppReads`, if `Careful`. The invariant needs that every
  key a tier has loaded, or will load, opens under the app's ring (`TiersOpen`),
  what the script knows of the files at each of its steps (`ScriptKnows`), and that
  a clean scan before the retired keys go leaves each table it has passed under the
  primary key while the tiers write with no other (`Retiring`).
* `TrialsTyped`, `RenewalsDoNotStack`: `TrialsTypeOK` is inductive, and gives
  `NoStacking`.
* `RenewalHolds`: `QuietRenewalSpares`. `Unraced`: as long as the deadline was
  not last moved during a pass or by an operator, the stamp of a stop is no older than the
  deadline, nor is one that a pass is about to write; a pass that goes on to delete
  has seen the whole grace period. It assumes `Overrun <= Grace` (a pass takes no
  longer than the grace period).
* `StopComesFirst`: `GraceGiven` for one daemon. `Announced`: the stamp is older than
  the sweep's own last stop by no more than a pass, a stop is under way only while
  none is stamped, and while one is stamped its mail went out before it or not at all
  (`Told`). With two daemons it is false (TLC shows it), as the second mails again
  what the first has mailed; the launcher runs one per host.
* `SessionsTyped`, `LogoutHolds`: `EndedStaysDead`. A sid that is in a browser or a
  request has finished its creation, or its POST was not waited for (`Given`), so no
  later commit can bring an ended session back; the sids whose POST or DELETE got no
  answer are excepted.
* `CodeUsedOnce`: `CodeOnce`. A row whose generation has not committed is known to
  its own worker only (`Own`), and a row that can still be used was not (`Unused`).
* `GuessesBounded`: `GuessBound`. The guesses a code was compared with and those
  about to be (`Pending`: the workers that read it below the cap) are together at
  most the cap less one and the number of workers (`Bounded`). A worker joins only
  while the code is live and its count below the cap, where the comparisons are
  all counted (`GuessesCounted`), and leaves by comparing.
* `NewestCodeStays`: `NewestStays`. A generation trims only what is older than the
  newest row it sees, and it sees its own.
* `ResetLocksOut`: `ResetHolds`. What a session was opened with is the password that
  was set last or the one that the row holds, or a reset overlapped its login, from
  the moment it is minted (`Locks`). A request that no reset has overlapped has
  verified one of these two (`Compared`); an old hash is that of the first password,
  so nothing else is ever put back, and only if a request with an old hash was noted
  at the reset (`Restores`).
* `ReportIsTrue`: `DoneIsDone`, without `Careful`. `Reached` says what is in the
  files at each step, `Verified` that the tables the second scan has passed, and
  nobody wrote since, are under the new key.
* `WrittenOnce`: `WriteOnce`. A call that is under way was carried out as often as its
  connection was reset afterwards (`cut`), and one that is over once more at most
  (`OnceEach`); the order of the walk does not matter.
* `CapKept`: `CapBound`. A creation that overlapped no other is the only one under
  way, and what it will leave once it has counted is within the cap (`CapInv`). The
  sessions are ordered by their last use (`Ordered`), so what the trim deletes, all
  but the newest, leaves the cap: the lemma counts the sessions with fewer than a
  cap of newer ones by mapping each to their number.
* `ClientKeepsTypes`, `FailuresWereAsked`: `NodeClientTypeOK` and `FailsAsked`.
  `WalkSound`: what is left of a walk, what was tried and what was in its cooldown
  as the walk began are together all addresses, and no address comes twice. It
  needs that `Candidates` lists, in some order, what is not in its cooldown, or
  everything (`CandidatesList`); the list is defined by the place of each address
  (`Place`, `InOrder`), so no recursion has to be unfolded.
* `ExcessBounded`: `PassedBound`. What a window let through is split at the start of
  the newer bucket (`Sound`): the part before it is at most the older bucket's
  count and below the ceiling, the part after it was below the ceiling when its
  last request passed, weighed with the older bucket. `WindowKept` is that for
  every row, and that of an address without a row nothing passed in the last
  window, so a sweep forgets nothing that counts. `LetThrough` is a set of pairs of
  a tick and a number, so that the counts are cardinalities and no sum over a
  history has to be taken.
* `BlocksLast`, `TableCapped`: `BlockHolds` and `EdgeGateTypeOK`, from the same
  invariant. `BlockKept`: a block that is not over is in its row, and a sweep spares
  that row; `JustSeen`: a thread that counted an address over its limit and has not
  blocked it yet finds its row, as no time passes in between.
* `ClosesAfterFlood`, `OneListener`: `CloseSustained` and `HardCloseTypeOK`.
  `BucketsCount`: the buckets count no more than arrived in their time. `Outlasts`:
  since the timer was set, whenever something arrived the last two windows held a
  flood. A moment that passes shifts all histories by one (`Arrivals`).
* `FlagHasThread`: `CatalogTypeOK`, from `OneFetch` and `EventHeld` (the event that
  is handed out is that of a thread at work).
* `OnePowerCall`: `PanelPowerTypeOK`. Only `PowerLocks`, with the lock free, lets a
  call begin (`CallsBegin`).
* `SignupKeepsTypes`: `SignupTypeOK`. `Fits`: a code that is live has attempts left,
  and none has more than the cap. `RetiredListsFit`: `KeyRotationTypeOK`. What a
  rotation still has to write was measured before it began (`ListsShort`).
* `PanelParts`, `AccountsParts`, `LiveParts`: a behaviour of a run's specification
  is one of each model that it puts side by side, so each theorem above holds of
  the run that checks its property. `PanelTyped`, `AccountsTyped` and `LiveTyped`
  conjoin the type invariants through them. `LiveParts` leaves out the node client,
  which begins there in any state that use may have left, and the trial, whose
  theorems are stated for `accounts`.

Model-checked only: the liveness properties, which are out of the prover's reach
(fairness and ENABLED): `InstallSettles`, `OrphansDrain`, `OrphanSettles`,
`OneRefreshes`, `TrialSettles`, `CatalogRefreshes`, `LapsedDeleted` and `Recovers`.
Every safety property of a passing run is stated by a theorem.

## Runs at a glance

| run | properties | expects |
| --- | --- | --- |
| `slots` (`NodeAgent_slots.cfg`) | `TypeOK`, `SlotAccounting`, `InstallCeiling`, `BuildIsReported`, `ImplementsPool` | pass |
| `life` (`NodeAgent_life.cfg`) | `ContainerHasData`, `OneBuildPerServer`, `InstallSettles` | pass |
| `backlog` (`NodeAgent_backlog.cfg`) | `LossRecorded`, `OrphansDrain` | pass |
| `v_restart` (`NodeAgent_v_restart.cfg`) | `NoBotDuringBuild` | violation |
| `fleet_sweep` (`Fleet_sweep.cfg`) | `Spared`, `OrphanSettles` | pass |
| `fleet_v_stale` (`Fleet_v_stale.cfg`) | `LiveSpared` | violation |
| `publisher_v_veto` (`Publisher_v_veto.cfg`) | `Refreshes` | violation |
| `panel` (`Panel_safety.cfg`) | `PanelTypeOK`, `QuotaHolds`, `WriteOnce`, `FailsAsked`, `PowerSettles` | pass |
| `accounts` (`Accounts_safety.cfg`) | `AccountsTypeOK`, `CodeOnce`, `GuessBound`, `NewestStays`, `CapBound`, `EndedStaysDead`, `ResetHolds`, `NoStacking`, `AppReads`, `DoneIsDone`, `PassedBound`, `GraceGiven`, `QuietRenewalSpares`, `BlockHolds` | pass |
| `live` (`Live_fair.cfg`) | `LiveTypeOK`, `OneMessage`, `NoBail`, `LapsedDeleted`, `Recovers`, `CloseSustained`, `OneRefreshes`, `TrialSettles`, `CatalogRefreshes` | pass |
| `v_renew` (`Live_v_renew.cfg`) | `RenewalSpares` | violation |
| `v_undo` (`Panel_v_undo.cfg`) | `StoppedIsStopped` | violation |

## What is left

* Proofs for larger mixes of requests at a node (`OneBuildAtATime` excludes pairs
  that break it, `BuildsReported` all rebuilds),
  and of the type invariants of the trial and the client as `MCLive` begins them.
* The stores other than Oracle's (`PANEL_STORE`), the memoised settings and the
  throttle windows of the panel, device fingerprints, password recovery.
* The pool of Oracle sessions: the wait is inside the driver.

Each module is written so that it can be proved about: constants with named
assumptions, one action per operation, no recursive operators.

## Not modelled

Most lines of this repository build pages, forms, mails and SQL for operations
that change one row with one statement: `frontend.py`, most of `backend.py`, the
console and the database editor, and the greater part of `database.py`. They
keep no state between requests but those rows, so a model of them would be a list
of assignments; and `src/admin/database.py` is a copy of `src/app1/database.py`.
Also left out: files, console, logs, statistics and schedules of servers on a
node; request filtering (CSRF, origins, throttles, edge lists); advertisements;
the Minecraft protocol; scripts that are run by hand; browser code.

## How to run

    tlc -workers 2 -config NodeAgent_slots.cfg MCNodeAgent
    tlapm NodeAgentProofs.tla

`PROJECT.json` names the module of each configuration. The longest runs take
three to four minutes with two workers.
