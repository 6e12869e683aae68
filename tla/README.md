# A TLA+ model of app2docker

app2docker builds images from uploads and from git, exports and migrates them, and deploys them to
agents, SSH hosts and Portainer. Its backend (`src/backend`, FastAPI, SQLAlchemy over SQLite) is one
process with many threads and one event loop. This directory holds TLA+ modules of it, the TLC
configurations that check them on small instances, and proofs about most of them for TLAPS.

Files named below are under `src/backend` unless they say otherwise.

## 1. Inventory

| Component | State | Operations | What makes it correct |
|---|---|---|---|
| Global task queue (`task_queue_manager.py`, `handlers.py:4787`) | one lock, limits of teams; the rows are the queue | count, `can_start`, start, dispatch | limits hold, one build of a pipeline at a time, no slot lost, no row waits beside a free slot |
| Build tasks (`handlers.py:1578`-`5441`, `docker_builder.py`) | rows of `Task`, staged uploads, archives of workspaces, local images | create, start, build, push, write the outcome, stop, retry, delete, clean up | a row is executed once at a time; completed means built, and its push tried; what is pushed is what was built |
| Deployment tasks (`handlers.py:6332`-`6982`, `deploy_task_manager.py`) | rows, a future for each target on an agent | create, execute, retry in place, stop, delete | completed means deployed; each deployment ends |
| Export tasks (`handlers.py:7276`) | rows of `ExportTask`, files | as builds | as builds |
| Pipelines (`pipeline_manager.py`) | configuration, `current_task_id`, memory of recent triggers | bind, unbind, debounce, create, copy, delete | a push is not forgotten; a binding names the build that waits or runs |
| Scheduler (`scheduler.py`) | next run times | trigger, check migrations and hosts | a due time that was looked for in time triggers |
| Webhooks (`webhook_trigger.py`, `WebhookDelivery`) | reservations by dedupe key | reserve, complete, release, take over when stale | a delivery makes one set of rows, also when it comes twice |
| Migrations (`migration_manager.py`) | rows, schedule, stop flags | create, execute, stop, finish, schedule, edit | its start has checked the approval; a running one has a worker |
| Approvals (`team_approval_manager.py`) | requests | submit, approve, reject, synchronise | an approved request is executed; a decision is final |
| Restart recovery (`handlers.py:6985`-`7267`, `app.py`) | - | put interrupted rows in order | a running row has a worker or is still to be judged |
| Agent connections (`websocket_handler.py`, `deploy_executors/agent_executor.py`, `agent_host_manager.py`) | a connection for each host, futures by key, rows of hosts | connect, disconnect, approve, send, results, offline check | a served agent can be reached, and is shown online unless a check missed it; one that is gone is shown so; a result reaches its attempt |
| Pending hosts (`pending_host_manager.py`) | connections that wait for an approval | add, replace, approve, reject, remove | an agent that waits is listed |
| Agent client (`agent/`) | connection, loops, containers of its host | reconnect, heartbeat, deploy, answer | one set of loops; success means the release is in effect |
| Deployment executors (`deploy_executors/`, `ssh_deploy_executor.py`, `portainer_client.py`) | none of their own; the host | create and update a Stack, pull, refresh, verify, retry; commands | success means the release is in effect in all parts; a retry takes nothing back |
| Database (`database.py`) | the schema, a mark for the backfill; one SQLite connection for all threads | the upgrade of every start | an interrupted upgrade loses nothing and is completed by the next start |
| Teams (`routes/teams.py`, `routes/admin_teams.py`, `team_deletion.py`) | teams, members, invitations | create, invite, accept, change a role, remove, delete | members belong to a team that exists; a team has an owner; a deleted team leaves nothing |
| Permissions (`resource_permissions.py`, `routes/resource_permissions.py`) | levels on resources and groups | grant, revoke, copy, share | nothing names a resource that is gone |
| Hosts, sources, registries, templates, packages | tables | created, shared, deleted | they belong to a team that exists |
| Credentials, caches, cache cleaner | tables, memory, files | sequential | see section 6 |
| Frontend (`src/frontend`), CLI (`src/cli`) | - | clients of the HTTP interface | - |

How they interact. Tasks of all kinds meet in the tables and in the dispatcher
`_process_global_queued_tasks`. It is called by every request that creates or retries a row or stops a
running one, by every worker that writes an outcome, by the scheduler and by the recovery. Builds of a
pipeline also set and clear `Pipeline.current_task_id`. A deployment hands each target to an executor, and
for an agent waits for a future that the WebSocket handler completes. Handlers that are `async def` call
the managers synchronously in the event loop, so these routes are *one* thread; the routes of teams and
permissions are plain functions and run side by side in a pool; the scheduler, the cleaners and the
workers are threads of their own. Deleting a team reaches into the tables of all the others, and so does
the schema upgrade, alone, before the server serves.

What is hard, and hardly reached by the repository's tests (they cover the agent protocol, branch
matching, tags and single calls of the Portainer client): two dispatchers at the last slot, a retry beside
the worker of the stopped attempt, results that come late, images that are found by name, a crash between
two commits of an approval, an agent that reconnects before it is missed, a webhook that comes twice, an
update of a Stack of which one request fails, an upgrade cut off in the middle, and two requests on one
team. `PROJECT.json` lists them under `hazards`, each with its line and the properties that watch it.

## 2. Modules

| Module | What it is |
|---|---|
| `TeamSlots` | abstract: tasks wait, are admitted to a slot of their team and leave |
| `TaskQueue` | the queue with its threads, lock and transactions; refines `TeamSlots` |
| `TaskQueueProofs` | theorems about `TaskQueue` |
| `ImageBuilds` | what build and export workers do with sources, images, archives; crash and recovery |
| `ImageBuildsProofs` | theorems about `ImageBuilds` |
| `Deployments` | workers, futures, agents' answers, stop, retry, recovery of deployments |
| `DeploymentsProofs` | theorems about `Deployments` |
| `Migration` | migrations and the approvals that gate them |
| `MigrationProofs` | theorems about `Migration` |
| `PipelineTriggers` | webhooks, runs by hand and the scheduler, for one pipeline |
| `PipelineTriggersProofs` | theorems about `PipelineTriggers` |
| `AgentHosts` | connections of one agent, the pending list, the row of the host |
| `AgentHostsProofs` | theorems about `AgentHosts` |
| `TargetHost` | a Docker host and what a request does to it (external; as the executors rely on it) |
| `PortainerTarget`, `ShellTarget` | executions by Portainer; by SSH or by the agent. Both extend `TargetHost` |
| `TargetExecution` | composes the two: executions of one target, one after another or side by side |
| `TargetExecutionProofs` | theorems about `TargetExecution` |
| `SchemaUpgrade` | the upgrade of every start, with crashes, failures and what is changed between starts |
| `TeamData` | rows of teams, members, invitations and what teams own; a request as two steps |
| `TeamRoster`, `TeamResources` | requests on members; on resources, permissions, groups and tasks. Both extend `TeamData` |
| `TeamRequests` | composes the two: all requests, side by side |
| `TeamProofs` | theorems about `SchemaUpgrade` and `TeamRequests` |
| `MC...` | constants for TLC |

A larger system is cut where the code has a narrow interface. `TaskQueue` has the queue in full; the
modules about what workers do (`ImageBuilds`, `Deployments`, `Migration`) use it as `TeamSlots` promises
it, a pending row being started in one step when a slot is free. `Deployments` has the rows, threads and
futures; `AgentHosts` the connections below them, and `TargetExecution` what a deployment does on the host.

### 2.1 `TaskQueue`

`status` is the status column of `Task` and `ExportTask` (`"absent"`: no such row); `before` the order of
`created_at`; `staged` whether the staging path is in `task_config`; `bound` is
`Pipeline.current_task_id`; `lock` is `GlobalTaskQueueManager._lock`, which is not reentrant. The control
state of a thread is `pc`, with `job` (the row its request or worker is for), `cur` (the row of the
function it is in), `cands` (what the dispatcher has read) and `again` (the second outcome a deployment has
still to write). `revived` is history: rows that a worker wrote back to `running`.

A step is one transaction, or one read on which a decision rests. The dispatcher is `Scan`, `Pick` (take the
lock, `can_start`), `Commence` (the first commit of `start_pending_task`), for builds of a pipeline `Bind`,
for source builds `Remark` (the second write of `running`) and `Spawn`. An upload whose file is not
staged is failed inside `Spawn`, under the lock. A terminal status is followed by the look at the binding,
its clearing and the dispatcher. A worker is `Mark`, `Quit` (a stop, or a return without a word),
`Finish` and `FinishAgain` (a deployment writes its outcome twice; `SecondWrite` is what the second write
finds). Requests read and decide in one step and commit in another. A retry of a build
is a *new* row in the code, hence `Create`; a retry of a deployment or an export reuses the row.

`TeamSlots` is refined with `waiting <- Pending` and `active <- Admitted`, `Admitted == Running \ revived`:
a build that its own worker writes back to `running` runs without a slot.

### 2.2 `ImageBuilds`

The contents of an image is the row it was made for: `local` and `remote` map a name to it, `own` is what a
worker has built or pulled itself and `sent` what it pushed or saved. `at` is where a worker is, `left` the
images it still has to make, `found` those of the selected services for which the sources have a stage (the
others are passed over, `Staged`), `made` those the worker has made, `unpushed` the rows whose one push broke
off and was passed over, `snapshots` the archives of uploaded workspaces. `phase` is the server: down, starting
(the recovery judges the rows in `judging`), serving. `Work` is the worker's functions step by step, `Judge` is
`recover_non_deploy_tasks_after_restart` for a row, including its guess from the images of the host
(`ImageThere`). `shared` is history: workers that had a name in common with another.

### 2.3 `Deployments`

A future is kept under the row and the target (`future`), not under the attempt: a retry uses the key again
while the thread of the attempt before may still wait. `worker` is a thread with its attempt, `deployed` the
targets that were deployed for a row, `recovery` and `interrupted` the recovery after a crash, which judges
by containers, not by deployments (`guessed`). Messages to the agent are lost, late, or answered after the
executor gave up.

### 2.4 `Migration`

`approval` is the request a migration is bound to, `result` the migration a request names; each write is a
transaction, so `server` says where the event loop is between two of them. A start is three steps: the dispatcher
(`starter`) reads the row and its approval (`StartRead`), commits (`StartCommit`), and the worker reads the row
again (`Load`). An edit of the target is two (`RequestEdit`, `CommitEdit`). The lock of the queue keeps other
dispatchers out, not the routes, so stops, deletions, bindings and edits fall in between. `granted` are requests
a reviewer approved; `presumed` those which a read took for reviewed; `cutoff` and `orphans` what a crash
cut off; `verdict` what the check of the last start found, or that the target was edited after it.

### 2.5 `PipelineTriggers`

`delivery` are the rows of `WebhookDelivery` by push (`stale` those that are older than 300 seconds), `recent`
the memory of debouncing, `server` and `cron` the two threads that trigger, `built` the commits in the sources
of some build. Seconds and minutes pass in actions of their own; `checks` are the minutes in which the scheduler
looked for due times. Nothing in the code bounds how many it misses, as the same thread probes hosts and cleans
caches, so nothing in the model does. The rows that the queue would hold are reduced to what triggers see of it.

### 2.6 `AgentHosts`

Handlers, routes and senders are coroutines: a step is the code between two awaits. `active` is the entry
in `active_connections`, `pend` the record of the pending list, `link` whether a connection is up, was cut,
or is over, and `handler` where its handler is. `row.heard` says whether the last heartbeat is of the last 60
seconds: time passes (`Elapse`) whether the agent is gone, or deploys in its event loop and is silent. The
offline check reads (`CheckOfflineHosts`) and commits (`MarkOffline`) in a thread of its own; `missed` says
that it has written since the row was last heard. Both registries hold one entry for a host, not one for a
connection, and a late handler finds whatever is there (`displaced`, `dropped`, `adopted` are the
histories that name these cases).

### 2.7 `TargetHost`, `PortainerTarget`, `ShellTarget`, `TargetExecution`

An execution stands for the release it is to bring; a part (service, container) runs a release or nothing. A
tag may move: then the text of the deployment stays and the image under the tag decides. Every request is
answered well, or with an error after none, some or all of its effect, or has its effect late. `Stale` and
`IsCurrent` are the two comparisons a refresh rests on: images by id, and versions of services or ids of
containers. The first takes the image id of a ref only from an image whose tag reads the same: `how.listed`
are the services whose image is written as Docker lists it, and where the tag moves the others are `LeftAlone`,
whatever they run. The agent takes any error about something "in use" for a conflict of names, after its
command has had some of its effect, and removes a container, its own perhaps (`ClearConflict`).
`basis` says what a success rests on: a request that brought the release, or a guess (a Stack
that exists after an error, or created from a moving tag without a pull).

### 2.8 `SchemaUpgrade`

`db` is what is committed and `open` the connection's view within a transaction of several steps. `After` is
the order of `init_db`. Each step looks at what is there, adds what lacks and catches its errors
(`StepFails`), so the steps after it run anyway; `Restart` is a crash at any place, or a stop while serving;
`Serve` is what users change meanwhile. Python's driver opens a transaction before an INSERT, UPDATE or DELETE;
a CREATE, DROP or ALTER is committed at once unless one is open already (`Ddl`).

Three transactions have places of their own. The rebuild of `agent_hosts` goes through `copy`, `drop` and
`rename`. At `move` the configurations of deployments that were read (`todo`) are turned into rows one by one
(`MoveConfigTask`), in any order, as the query has none; one that raises is left, and `CommitMoves` commits
the others. At `merge` the teams of the default name but the kept one are in `todo`, `MergeInto` merges one of
them, and `BackfillTeams` gives the history its team and commits everything with the mark. The owners of the
default team are a transaction after that. The name of an application is a number, and once it was taken by
another configuration it carries the id of the task. `Releases` are the databases an upgrade may find. The
names of this module differ from those of `TeamRequests` (`UpgradeInit`, `UpgradeTypeOK`, `AddTeam`), so that
`TeamProofs` can extend both.

### 2.9 `TeamData`, `TeamRoster`, `TeamResources`, `TeamRequests`

A request is two steps, its reading (`Begin...`, with all its checks) and its transaction; what it
remembers is `req[w]`. An UPDATE of a row that is gone rolls the session back (`GiveUp`), a DELETE of one
does nothing. Copying a pipeline and sharing a source are several transactions. `raced` are teams of which
two requests changed roles at once, `late` teams for which something was written while, or after, they
were deleted, `dropped` resources that were deleted alone. E-mail addresses of invitations are left out.

## 3. Runs

| Run | Instance | Distinct states | Checks |
|---|---|---|---|
| `slots_deploy` | 3 deployments of a team, limit 1, 2 workers, all requests; deadlock is checked | 306,964 | `TypeOK`, `SlotLimit` |
| `slots_mixed` | a source build of a team, an upload of the same pipeline without one, an export; server and scheduler with cleaner; 2 workers | 1,873,273 | `AdmissionLimit`, `AdmissionSerial`, `SlotHasWorker`, `OneWorkerPerTask`, `ImplementsTeamSlots` |
| `served` | 3 source builds, limit 1, fairness | 202,792 | `QueueNotStranded`, `PendingServed` |
| `builds` | 2 rows out of 4 configurations, 2 images, 1 slot, a crash; fairness | 775,218 | `CompletedIsBuilt`, `SnapshotHeld`, `RunningIsServed`, `SendsOwnImage`, `RunningEnds` |
| `migration` | a migration, 2 requests, an administrator and a member, 2 workers, a crash; deadlock is checked | 3,320,494 | `OneOpenRequest`, `NothingLeftApproved`, `RunningHasWorker`, `ReviewedRuns`, `DecisionIsFinal` |
| `triggers` | 2 pushes of a branch with 2 image tags, 3 rows, 2 minutes with a due time, a failed transaction; deadlock is checked | 3,608,379 | `PushNotForgotten`, `DeliveredOnce`, `DueTimeMet` |
| `agents` | 2 connections of an agent with a token or a secret key, 2 restarts; fairness | 50,590 | `MemberReachable`, `WaitingIsListed`, `GoneIsNoticed` |
| `deployments` | a row, a target on an agent and one elsewhere, 2 workers, 2 retries, a crash; fairness | 571,971 | `CompletedIsDeployed`, `EntryIsAwaited`, `RunningIsServed`, `DeploymentEnds` |
| `targets` | 2 executions, 2 services, 11 configurations, 2 attempts, a late request, a crash | 2,226,415 | `SuccessInEffect`, `SuccessIsWhole`, `KeepsNewRelease` |
| `upgrade` | 4 older databases, 3 starts, a failing step, 2 changes while serving | 1,494,316 | `HostsKept`, `ExecutionsKeepContent`, `TeamsExist`, `HistoryHasTeam`, `MembersKept` |
| `teams` | 2 administrators, the default team and another, an invitation, 5 resources of 4 kinds, a task, 2 threads, 4 requests | 1,659,120 | `MembersOfLiveTeams`, `OwnerUnlessRaced`, `NothingLeftBehind` |
| `slot_lost` | uploads and an export, limit 1 | violation | `NoSlotLost` is violated |

Where a run checks deadlock it says so; in the others a finite set of identities, requests or starts is
used up. Symmetry is used for threads, rows, users and requests that the model does not tell apart, and
never in a run with a liveness property.

Why these bounds. *Queue*: three rows are enough for one that runs, one that takes its slot and one that waits;
two workers allow an old worker of a row beside a new one; limit 1 of the 1..10 the code allows is where the
second row is the first to be refused. `WorkerRoom` and `Unreferenced` bound the rows that may be started by the
workers that are free, and the reuse of identities by references to the old row. *Builds*: two workers suffice
for two that share a name (a stopped worker goes on beside the one that took its slot); the four configurations
are the ways through the workers. An image for several platforms, which `buildx` builds and sends in one, is
only in the proofs. *Deployments*: the old attempt, the retry and a late answer need one row and two workers.
*Migration*: two requests are needed for one that takes the migration of another, two workers for a run that
begins beside one that was stopped. *Triggers*: two commits on one branch are what debouncing can confuse; of
the two minutes in which the scheduler could see the due time, any may be without a check. TLC agreed with the
three invariants on two commits, two rows, one tag and three minutes as well, in which one due time may be lost
and the next is met (5,336,967 states). *Agents*: two connections are an old one and its replacement, with a
handler each; the two invariants were checked with three as well (322,211 states with symmetry). *Targets*: a
mixture needs two parts and two executions; of `Attempts`, five in the code, two show a retry after each kind of
failure. *Upgrade*: the third start finds what the second, with a failure, left of a first that was cut off; a
duplicate of the default team that is merged shows a member of both, an owner of the one that goes. *Teams*: a
violation of any of the three needs two requests that overlap and at most two that prepare them.

What the runs show beyond "no error" is that each property can fail: `PROJECT.json` names for every one of
them a small change of a mapped definition (a dropped check, an off-by-one, a lost reset) with which TLC
finds a violation in the same instance.

### Fairness

Weak fairness only, of steps that the operating system, the event loop or a timeout brings about:

- `TaskQueue.FairSpec`: threads in the dispatcher, workers and the second half of a request go on. Nothing
  is asked of who gets the lock. A build ends because Docker commands and polling loops do. Requests are
  not fair. `served` has neither retries (a retried row keeps its creation time and overtakes) nor stops.
- `ImageBuilds.FairSpec`: threads go on, and so does the start-up (`StartUp`: the service manager restarts the
  server, which judges its rows and serves).
- `Deployments.FairSpec`: threads go on, as each wait has a timeout; so does the recovery. Not the agent,
  whose messages may all be lost.
- `AgentHosts.FairSpec`: a coroutine that can go on does, time passes (`Elapse`), the scheduler checks again and
  again, though not every minute (`CheckOfflineHosts`), and a check ends (`MarkOffline`). Not the dialling, and not
  the heartbeats.

The other modules have safety properties only.

## 4. Proofs

TLAPS proves the following for every value of the constants.

`TaskQueueProofs`, from `ConstantsAssumption` (finite set of rows; kinds, teams and limits of the right
type; two sorts of threads; exports have no pipeline):

- `TypeCorrect`. `TypeOK` is not inductive, as actions index rows by `cur` and `job`. `Control` says at
  which places of `pc` these are rows, that a thread between `Pick` and `Spawn` holds the lock, and that a
  thread that will bind or record has a row with a pipeline.
- `AdmissionLimitHolds`, `AdmissionSerialHolds`. The strengthening is `Reserved`: while a thread is at
  `admitted`, its row still fits. Only the holder of the lock is there, and every other action is
  `Harmless`: it admits nobody. Cardinalities are compared by the theorems on finite sets.
- `DeploySlotLimit`: when every row is a deployment nothing is ever revived, so the limit of admission is
  the visible one.
- `SlotHasWorkerHolds`: given `Control`, this is inductive as it stands.
- `Refinement`: `Spec => ImplementsTeamSlots`. A write of `pending` is an `Enqueue`, `Commence` an `Admit`
  whose guards are what `Reserved` says, every other write a `Leave` or a stutter.
- `OnlyRetriesShare`, and from it `OneWorker`: `OneWorkerPerTask` where no caller has the duty of retrying, as
  in the run. The strengthening is `Single`: a row that is not retried is in the hands of one starter or worker at
  most, and of none while it is `pending`. Stops, deletions and the worker that writes `running` again do not
  disturb it, as none of them makes a row `pending`; a new row is in nobody's hands (`Unreferenced`). With a
  retry the property fails (section 5), so nothing more can be proved of deployments and exports.
- `StrandedOnlyBySilence`, and from it `NeverStranded`. `QueueNotStranded` does not hold for all duties (section
  5). The first theorem says which steps are to blame, and that no others are: if no step is a `SilentRelease`,
  that is a stop decided on a pending row, or a deletion, that commits when the row runs, the property holds
  with all duties and all interleavings. The second is for callers that neither stop nor delete, as in the run
  `served`. The strengthening is `Woken`: a row that could be started is considered by some thread, one that
  will still read the queue or one that has the row among its candidates. Each step but `Scan` is `Steady` or
  `Wakes`: a candidate is dropped only when it cannot be started, and whoever frees a slot goes to the
  dispatcher. TLC agreed with `Single` and `Woken` on four instances with all duties.

`ImageBuildsProofs`, from `KindAssumption`, `TargetsAssumption` and `BoundAssumption`:

- `TypeCorrect`, and `Invariance`: `Spec => []IInv`, where `IInv` joins `TypeOK` with `ServerInv` (the
  phase, the rows to be judged and the workers: nobody works while the server is down or judging),
  `RunningIsServed`, `ArchiveInv` (when an archive may be gone), `WorkInv` (what a worker's place says of
  `left`, `made` and `sent`), `NameInv` (a name that only one worker uses has that worker's contents),
`SendsOwnImage` and `BuiltInv` (what is not `left` was made of what was `found`, and what a push that was tried
  has left behind). Each action is a lemma for each part it can disturb.
- `Served`, `Held`, `SendsOwn`: the three invariants of the run `builds`. `SnapshotHeld` needs `ArchiveInv`, since
  the archive is removed after the outcome is written; `SendsOwnImage` needs `NameInv`.
- `Completed`: its action property `CompletedIsBuilt`, of the step that writes the outcome. It needs `BuiltInv`,
  as the steps that built and pushed are over by then.

`DeploymentsProofs`, from `DeploymentAssumption` (finite sets; `None` is no thread, target or row), for any
number of rows, targets, threads, retries and crashes:

- `TypeCorrect`, and `Invariance`: `Spec => []IInv`, where `IInv` joins `TypeOK` and `RunningIsServed` with
  `WorkInv` (what a thread has is said by where it is: a thread without a failure has deployed every target
  it has dealt with, and a result of success is that of its own row and target), `EntryInv` (the thread of
  an entry waits for the key of the entry and has no result yet), `ResultInv` (a result of success on its
  way is that of a deployment) and `DoneInv` (`CompletedIsDeployed`, target by target).
- `Completed`, `Awaited`, `Served`: the three safety invariants of the run `deployments`.
  `CompletedIsDeployed` needs the chain `ResultInv`, `WorkInv`, `DoneInv`, and `EntryInv` to know that a
  result delivered under a key is one for the target its thread waits for, although a retry uses the keys
  of the attempt before. `EntryIsAwaited` needs that a thread with an entry has no result yet.

`MigrationProofs`, from `MigrationAssumption` (`None` is no migration, request, worker or user), for any
number of migrations, requests, workers, users and crashes:

- `TypeCorrect`, and `Invariance`: `Spec => []IInv`, where `IInv` joins `TypeOK` with `PlaceInv` (what the
  event loop has in hand is said by the place it is at), `ServerInv` and `RunningHasWorker`. An approval
  is several commits, so the invariants of the run are not inductive: between two commits one of them fails unless
  one knows what the next will write. `ServerInv` says it for a request that is being filed (`FilingInv`),
  an approval that is being carried out (`ApprovalInv`) and a row that is about to be written (`RowInv`);
  `GrantInv` says that a request which counts as approved was reviewed, or that a read took it for reviewed.
- `OneOpen`, `ApprovalExecuted`, `Served`: the three invariants of the run `migration`.
- `Reviewed`: the action property `ReviewedRuns`, of the step in which the worker reads its target. It needs
  `ApprovalInv` and `GrantInv`, as a start comes steps after the approval, and `CheckedInv`, a second
  invariant beside the first: of a row that was
  checked and not yet read by its worker, a creator who needs an approval now had one then, or the target was
  edited since. That an edit does come in between is possible (section 5), and the property says so.
- `DecisionStands`: the action property `DecisionIsFinal`.

`AgentHostsProofs`, from the assumptions of `AgentHosts`, for any number of connections and restarts:

- `TypeCorrect`, and `Invariance`: `IInv` joins `TypeOK` with `HandlerInv` (by the place of a handler: whether
  it serves a member, and which registry may hold its connection), `HandedOver`,
  `AcceptedReachable` (an agent is reachable from its accept on, not only once it is served) and
  `AddedIsListed` (one that waits is listed from the moment its handler has put it there). The last two are
  `MemberReachable` and `WaitingIsListed` moved forward to the step that must not be interleaved.
- `Reachable`, `Listed`: the two invariants of the run `agents`. That a served agent is online holds only until
  the check has missed it: `Elapse` and the check ask nobody whether a handler serves it. `Transferred`:
  `HandedOver`, no connection is in both registries, which is in no configuration.

`PipelineTriggersProofs`, from `ConstantsAssumption` (`None` is no ref, push or row; a tag makes one image; the
period and the bound on the minutes are not zero), for any commits, refs, strategy, rows, period and number of
failures:

- `TypeCorrect`, and `Invariance`: `IInv` joins `TypeOK` with `ServerInv` and `CronInv` (what a route or the
  scheduler has in hand, by its place), `PushInv` and `DeliveryInv`.
- `NotForgotten`: `PushNotForgotten` needs that a webhook which finds its key taken may be dropped: `PushInv`
  says that the commit of a reservation is kept by a build or a row, debounced, or still in the hands of
  the route that made the reservation.
- `Delivered`: `DeliveredOnce` needs `DeliveryInv`: rows that were made and rows that are still to be made are
  together as many as there are tags, also after a stale delivery was taken over.
- `DueTimesMet`: `DueTimeMet` for every period of at least two minutes, with an imported next run time or
  without, whatever checks are left out: the property is of the due times for which a single check was made in time
  (`Looked`). That check triggers for no other due time (`LookedFinds`), and what it triggers for is in the hands
  of the scheduler until there is a row (`DueAt`). For a period of one minute this is false: the check of the
  minute before sees the earlier due time only. `DueAt` is a second invariant beside `IInv`.

`TeamProofs` holds both halves of what happens to the rows of teams: at the start of the server and while it serves.
About `SchemaUpgrade`, from `ReleasesAssumption` (a database that an upgrade finds is a possible one: the ids
of its teams are unique, its rows, members and hints name teams that are there, an execution has the content of the
task or the row it names, and a set mark is true), for any releases, accounts, templates, starts, failures
and changes:

- `UpgradeTypeCorrect`, and `UpgradeInvariance`: `UpgradeSpec => []UpgradeInv`. The four invariants of the run
  are about `db` alone, and none is inductive: a commit writes what earlier steps put into `open`. `UpgradeInv`
  joins `UpgradeTypeOK` with `DbInv` (`db` is `Sound` and `Hinted`), `OpenInv` (outside a transaction `open` is
  `db`; in the rebuild the spare table has the hosts), `MoveInv` (`open` stays sound while configurations move,
  and what is in `todo` is still a configuration) and `MergeInv` (`open` stays sound while teams are merged, has
  its default team, and has kept the members). `Sound` is stronger than the properties: an execution has the
  content of its source (`Sourced`), which is what lets a configuration be moved, and ids of teams are unique
  (`Keyed`), which is what lets one be merged. TLC agreed with `UpgradeInv` on the instance of the run.
- `NoHostLost`, `ContentStays`, `NoTeamMissing`, `HistoryGiven`: the four invariants. `ContentStays` needs that
  an execution which still names a task that goes is given the row in the same step (`RepointKeeps`), for a row
  that was found by name and for a new one. `NoTeamMissing` needs that the merge names all the tables
  (`MergeTeamKeeps`). `HistoryGiven` needs that where the column is missing nothing is committed, the mark
  included.
- `NoMemberLost`: the action property `MembersKept`, since `MergeInv` compares `open` with `db` through any number
  of merges in any order.

`NoTeamMissing` rests on the hints of the releases: an upload without a team takes the one that its
configuration names, and nobody looks whether it exists (`database.py:1904`). While the server serves, the
model deletes no teams and removes no members, which are requests of `TeamRequests`; `MembersKept` is about what the
upgrade does.

About `TeamRequests`, from `TeamAssumption` (rows are of the given sorts and `None` is none of them; there is a
system administrator, as the backfill makes no default team without one, `database.py:2190`), for any
number of users, teams, resources and threads and any requests:

- `TypeCorrect`, and `Invariance`: `IInv` joins `Typed` with `RosterInv` and `ResourceInv`. Each request is its
  reading and, after steps of others, its writing; the two invariants say for each request under way
  what it has read and is still true when it writes, or that the team is in `late` or `raced`.
- `Members`: nobody is a member of a team that is gone, although an invitation may be accepted, a member be
  added and the team be deleted by requests that overlap: each writes only after it has looked again, or its
  statement finds no row.
- `OwnerKept`: a team of which no two requests changed roles at once has an owner. `RosterInv` says that the
  owner whom a request counts on when it demotes or removes another is still there.
- `NothingLeft`: a deleted team leaves nothing behind, unless the team is in `late`.

`TargetExecutionProofs`, from `TargetAssumption` (a configuration is a possible one; `Old` and `None` are no
executions), for any configurations, services, executions, attempts, late requests and crashes:

- `TypeCorrect`, and `Invariance`: `IInv` joins `TypeOK` with `OrderInv` and `PlaceInv` (where an execution can
  be), `LateInv` (a late request is a put, or it was the last of its execution), `ImageInv` (the last
  execution has pulled what it updates to), `EffectInv` and `WholeInv`.
- `InEffect`: `SuccessInEffect` needs `Reached`, which says by the place of the last execution which of the parts it
  can see (`Seen`, all but those `LeftAlone`) run its release: all but those still to be worked on, or deleted so
  that the second put brings them. An attempt in which something failed claims nothing. Of a part that is left
  alone nothing is claimed: the refresh does not know its image and reports success (section 5).
- `Keeps`: the action property `KeepsNewRelease`. What could take the release away without being told to is the
  removal of a container by name or by id. `Spares` and the last part of `EffectInv` say that with Portainer and
  SSH this container is not the new one. An agent that clears a conflict may take its own (`ClearsOwn`); the
  property says that it then runs its command again or fails.
- `Whole`: `SuccessIsWhole` needs `WholeInv`, which looks at states from which all executions could still
  succeed. With a moving tag each part that is seen runs the newest image or somebody has still to work on it.
  With a fixed one, two executions that update a Swarm service by service may be half-way each: who comes second
  to a service fails there, as its version is not the one it read, so a part that one of them is through with is
  that one's, unless the other has still to fail (`FixedWhole`). That is stronger than what TLC was asked, and
  TLC agreed with it before the proof.

Every safety property of the passing runs is stated by a theorem, the abstract specification of the queue
included. Only model-checked is liveness (`PendingServed`, `RunningEnds`, `DeploymentEnds`, `GoneIsNoticed`),
which with ENABLED is out of the prover's reach. Of `OneWorkerPerTask`, `QueueNotStranded` and `SlotLimit` the
theorems say for which rows and duties they hold. Induction over data is out of reach as well: no module
declares a RECURSIVE operator, and where the code loops over rows and that matters (the configurations, the
teams to be merged), the model has one step for each row, so that the loop is an induction over steps.

## 5. What the code does not keep

The run `slot_lost` shows that the worker of an upload build may return without writing a status
(`handlers.py:2225` and others): the row runs for ever and holds its slot.

These properties are stated in the modules, and TLC refutes each when it is put into a configuration;
they are part of no run.

| Property | Trace |
|---|---|
| `TaskQueue.NoSelfDeadlock` | A worker ends between `create_task` and the staging of an upload and starts it too early; `_start_build_upload_thread` (`handlers.py:1747`) fails the row and dispatches under the lock it holds. `handlers.py:1666` says the file is staged "供全局队列在有空闲槽位时再启动构建". |
| `TaskQueue.SlotLimit` with source builds | A row that is stopped after its start is written back to `running` by its thread (`handlers.py:1876`), beside the row that took its slot. |
| `TaskQueue.StopIsFinal` | `update_task_status` overwrites `stopped` with the outcome of the worker. |
| `TaskQueue.BindingIsLive`, `UnbindsOwnTask` | The binding is compared in one transaction and cleared in another (`pipeline_manager.py:1114`), and recorded after the dispatcher. |
| `TaskQueue.QueueNotStranded` with stops | A stop that was decided on a pending row commits after the row was started: it frees a slot and does not dispatch. (Three builds or exports and three workers are needed to see it.) `StrandedOnlyBySilence` proves that this, and a deletion that commits on a running row, are the only ways. |
| `TaskQueue.OneWorkerPerTask` with a retry of a stopped deployment | The worker of the stopped attempt goes on beside the new one. |
| `Migration.ReviewDecides` | `_sync_execution_status` (`team_approval_manager.py:226`) takes over the outcome of the migration for a pending request too: reading the list decides it. `route_definitions.py:521` says the write needs a review. |
| `PipelineTriggers.OncePerDueTime` | `_update_next_run_time` ends in `pipeline_manager._save_pipelines`, which does not exist; the error is caught (`scheduler.py:153`) and every check finds no next run time: it triggers in the minute before a due time and again in its minute. |
| `TargetExecution.UpdateTakesEffect` | An update of a Stack whose tag has moved, with one image written without its tag, a `docker.io` prefix or a variable: `get_local_image_ids_by_ref` compares it literally with `RepoTags` (`portainer_client.py:1184`), the container is unknown (1235-1263), keeps the old image, and the answer is success. The comment at 711 pulls to avoid "更新成功但运行态未变化" (an update that succeeds while what runs has not changed); the docstring at 1204 speaks of stale containers "when their tag now points elsewhere". |
| `Deployments.QueuedIsStarted` | The outcome of a deployment is written twice (`deploy_task_manager.py:255`, `handlers.py:6876`); a retry between the two is overwritten before it is started. |

The `TypeOK` of every module holds in the instances of the runs as well; where it is in no configuration, it is
proved or the run's properties say more.

What else was met while modelling; the models have this behaviour, and where a property holds only
without it a history variable names the exception.

- *Queue*. A retried row keeps its old creation time, so retries can hold up younger rows. After a restart
  the dispatcher runs only when the recovery changed a build: pending rows wait for the next event.
- *Builds*. The recovery completes a build when an image of its tag exists, also an older one; an export is
  never found complete, as its path is empty while it runs. Workers that share a name push what is there by
  then. A retry of a build of an uploaded workspace finds no archive; stopping a pending one leaves its archive.
  A retried build of a pipeline without a team takes the team of who retries. A push of the whole that breaks
  off with an exception is only logged, unless it is taken for a refused login (`handlers.py:4448`-`4536`): the
  build is completed and nothing was pushed (`unpushed`). A selected service without a stage in the Dockerfile
  is passed over (3668-3682, as `test/test_multi_service_stage_selection.py` asks).
- *Migrations*. Between the check of a start, its commit and the worker's reading of its target
  (`migration_manager.py:1103`-`1124`, 1262) an edit of the target (878-951) may be committed, so a run may
  write to a registry that needs a review without one; `ReviewedRuns` excepts these edits (`verdict`). A stop
  that is committed between the check and the commit is overwritten by `running`.
- *Triggers*. A debounced or failed webhook leaves its reservation for 300 seconds. The thread of the scheduler
  probes hosts and cleans caches between its checks, without a bound (`scheduler.py:53`-`85`), so any number of
  checks may be missed; as the next run time is never saved (151), the due times in between are lost.
  `DueTimeMet` needs a period of at least two minutes, and with an imported next run time, from which the
  scheduler does not look ahead, a due time may wait for the check of the minute after it.
- *Agents*. An agent that deploys sends no heartbeats, for up to 300 seconds (`agent/main.py:412`), and is
  marked offline although it is served (`missed`); `deploy_task_manager.py:841` then refuses it the next
  deployment. The check also reads and commits in two steps, beside a heartbeat. An approved host that has sent
  no heartbeat is never noticed to be offline. A failure while the welcome is sent leaves a dead entry.
- *Deployments and executors*. After an error that may be retried, an existing Stack is taken for the new one
  (`portainer_executor.py:108`); so does the fallback after a 405, and the recovery after a restart. A Stack
  that was removed and created again from a moving tag may run the old image, as nothing is pulled.
  `remove_and_redeploy` with a Stack id deletes the Stack and then fails. Stale containers that were deleted
  before the second put failed stay away. A failed step of an SSH list passes when its text has `rm`, `stop` or
  `kill` in it, be it in `--platform`. SSH commands have no timeout. The agent takes any error
  about something in use for a conflict of names (`agent/deploy_executor.py:688`-`799`), a port for instance, and
  removes the container that the error or, if none is named, the compose text names first (741-758): it may be
  the one that its own command has just brought. Its clean-up of a compose deployment uses another project name.
- *Upgrade*. After an upgrade from a release whose token was NOT NULL the three columns of Portainer's login
  are missing until the next start, as the rebuild comes after they were added. A column step that failed
  before the backfill leaves rows of that table without a team for good. A crash between the commits of an
  account and of its role leaves the account without one. A crash after the spare table was created outside
  the transaction of the copy makes the rebuild fail until it is removed. The default team can be renamed, and a
  team renamed to its name is merged into it at the next start.
- *Teams*. Two owners that are demoted by two requests at once leave a team without an owner; a link can be
  accepted by two users at once; what is created between the reading and the transaction of a deletion stays
  behind; removing a member leaves the member's permissions, deleting a resource leaves its permissions and
  tasks, deleting a team leaves its migrations and approval requests.

## 6. Not modelled

- *Authentication, credentials, crypto* (`auth.py`, `cli_credential_manager.py`, `agent_secret_manager.py`,
  `app_key_manager.py`, `crypto_utils.py`): sequential lookups and cryptography; to the models a request
  comes from a user.
- *Caches* (`stats_cache.py`, `dashboard_cache.py`, `docker_info_cache.py`) and the *cleaner of build caches
  and logs*: recomputed values and files.
- *Sessions that share a connection* (`database.py:27`): transactions are taken as atomic and isolated. That
  all threads use one SQLite connection weakens this in a way that depends on the driver.
- *Limits that change* (`routes/teams.py:668`): `Limit` is a constant of `TaskQueue`.
- *Starters that raise* after their commit (`handlers.py:5860`).
- *Migrations as a kind of row in `TaskQueue`*: they take part in `Migration` only, with slots of their own.
- *Pure functions* (parsing of templates, of configurations and of URLs, matching of branches) and views,
  validation, the frontend and the CLI.

What could come next: the limit as a variable of `TaskQueue`, and a module of sessions over one connection, to
say how far atomicity carries.
