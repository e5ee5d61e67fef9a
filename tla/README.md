# Devion: a TLA+ model of the control plane

Devion is a self-hosted platform: an API server keeps the desired state of
applications in PostgreSQL, controllers inside the API turn it into durable
commands, and an agent on every node polls for the commands and drives the local
Docker engine; a builder turns repositories into images, and a dashboard shows and
changes it all. This directory models the parts of Devion in which several of these
processes act on the same rows, files or cached answers, and states what they must
achieve together.

## 1. The system

| Part | State | Operations | Interacts through |
|---|---|---|---|
| Command queue (`nodes.routes.ts`, `modules/commands`) | `agent_commands` | insert, leasing poll, result, timeout | polled by agents, written by every controller |
| Node agent (`apps/agent`) | one tick, its batch of commands | heartbeat, poll, execute, report | HTTP with timeouts; Docker socket |
| Container runtime | Docker containers | start, stop, inspect | called by the agent |
| Node liveness controller | `nodes.status` | unhealthy, offline, eviction | writes workloads and commands |
| Deployment reconciler (`modules/deployments/controller.ts`) | `deployments`, `workloads`, `node_port_reservations` | lease, pass, placement, recovery, status refresh | controller tick, user requests, builds |
| Revisions (`modules/deployments/service.ts`) | `deployments` of one application | deploy, rollback, redeploy, supersede, start/stop/restart | routes, build controller |
| Scheduler and ports (`packages/core`) | none (pure) | `scheduleWorkload`, `chooseDynamicHostPort` | called by the reconciler |
| Build reconciliation (`modules/builds`, `builds.routes.ts`) | `builds` | submit, cancel, retry, reconcile | API polls the builder |
| Builder (`apps/builder`) | `builder_runs`, shared workspaces | create, claim, heartbeat, push, cancel, recover, complete, fail | HTTP API; workers on a PostgreSQL queue |
| Firecracker host agent (`apps/builder/src/agent.ts`) | state files, route files, machines | deploy, delete, watch, clean up | called by deploy steps |
| Volumes | `volumes`, mounts | attach, claim, unavailable, two-phase delete | reconciler, liveness controller, agent |
| Enrolment | registration tokens, identity file | register | agent and API |
| Domain routing (`features/routing`, `lib/network/traefik.ts`) | `project_domains`, one route file per project | create, change, verify, delete, periodic pass | requests, route controller, Traefik |
| Organizations and projects | roles, teams, projects, environments, variables, applications | the routes that check and then write | each other's rows |
| Accounts | users, sessions, the installation | set up, sign in, ban, promote | authentication library |
| Game servers | status, workloads, grants | start, stop, delete, grant | reconciler, result route |
| Rate limiter | counters in PostgreSQL, Redis or memory | count, decide, expire | every request |
| Object storage client | cache of known buckets, checks under way | provision, upload, probe | tenants' uploads, health route |
| Dashboard certificate | three files, Traefik's copy | install, serve, show | page, handler, Traefik |
| Dashboard pages | cached answers, forms, mutations | fetch, edit, send | HTTP API |
| Metrics, registry client, updates | their own rows and files | | |

What is hard to get right, and to test, is the same everywhere: a handler consists of
several database statements without a transaction around them, so controllers, routes
and a restart of the API interleave with it; what it read before an `await` is stale
when it writes; agents crash, lose answers and come back late; deadlines, leases and
backoffs race with each other. `PROJECT.json` lists each such hazard at its line
together with the property that watches it.

What makes the parts correct:

* command queue: a command is decided exactly once, and always; it is not executed
  twice; a late or repeated result changes nothing;
* agent and ports: a workload that was stopped stays stopped, and the host port of a
  live container is nobody else's;
* reconciler: never more replicas than asked for, a bounded number of automatic
  replacements, replicas eventually there, a status that follows the facts, and no
  volume-backed workload moved;
* revisions: numbered without gaps, a build deployed once, the last rollout in force,
  no workloads left of a revision that is not desired;
* scheduler and volumes: a workload runs where its volumes are, what a pass counts as
  placed fits the node, and the data of a retained volume is not removed;
* builds: only a successful run with an image that nobody cancelled is deployed, and a
  cancellation takes effect;
* routes: what should be gone is withdrawn in the end, and what is shown as active is
  served;
* organizations, projects and accounts: everybody sees what he may see in lists and in
  details, the rules that every request checks still hold after it, a token enrols one
  node, and an installation makes one administrator;
* pages: what is at rest on a page is what was stored when it was last read, its own
  writes included, and what is sent belongs where it is sent;
* builder: a run is decided by its latest attempt and once, an accepted cancellation
  wins and takes effect, and no run stays with a worker that died.

## 2. Modules

| Module | Models |
|---|---|
| `CommandLedger` | abstract: what the command table promises |
| `NodeAgent` | one node: its rows, the API handlers and controllers that touch them, the agent process, Docker |
| `NodeAgentProofs` | TLAPS proofs about `NodeAgent` |
| `Reconciler` | one deployment: lease, passes, recovery, reports, status |
| `Rollout` | one application: revisions and the calls that create, supersede, start and stop them |
| `Placement` | nodes, volumes and host ports: the passes that choose, bind and insert, and the requests about volumes |
| `BuildPipeline` | builds: requests, the controller's overlapping passes, the builder's runs |
| `BuilderQueue` | the builder: the run table, its API, the slots of the workers |
| `BuilderQueueProofs` | TLAPS proofs about `BuilderQueue` |
| `ReconcilerProofs`, `RolloutProofs`, `PlacementProofs` | TLAPS proofs about the module each is named after |
| `SettleProofs`, `PlatformProofs` | TLAPS proofs about the parts that `MCSettle` and `MCPlatform` compose |
| `SetInduction` | lemmas: induction over numbers and over the subsets of a finite set |
| `Workflow` | which workflows the builder accepts, and the rounds in which it executes one |
| `FirecrackerAgent` | the host agent behind deploy steps: addresses, state files, routes, machines |
| `Domains` | the domains of one project and its route file |
| `Tenancy`, `Projects` | an organization: roles, teams, project access; what a project contains (`Projects` extends `Tenancy`) |
| `Enrollment` | registration tokens, nodes, identity files |
| `Accounts` | installation, administrators, sign-in, bans |
| `GameServers` | one game server, its deployments and workloads; the grants of its players |
| `RateLimit` | counters in three kinds of store, and chains of limiters |
| `ObjectStore` | buckets: cache, shared checks, uploads |
| `DashboardTls` | the dashboard's certificate: page, handler, files, Traefik |
| `ApplicationPage`, `GameServerPage`, `DomainsPage` | pages of the dashboard against their handlers |
| `MCNodeAgent`, `MCPlacement`, `MCReconciler` | bounds, values and a view for TLC |
| `MCFleet`, `MCRevisions`, `MCSettle`, `MCVerdicts`, `MCPlatform` | compositions for TLC of modules that share no state |

Modules are cut where the code shares rows. `NodeAgent` sees placements only as the
transaction that commits a workload, its reservation and its start command.
`Reconciler` sees the node only through the reports about workloads. `Rollout` sees a
reconcile pass as the reading of the desired state and its effect on the revision's
workloads. `Placement` has what a pass of
`Reconciler` leaves open, `BuildPipeline` what `Rollout` leaves open about builds, and
the builder's part of a build is one atomic verdict there, which `BuilderQueue`
explains. Where a row is written by two modules (volumes by `Placement`, the status of
a node by `NodeAgent`), the other sees it as a choice of its environment. Definitions whose name starts like another definition's and whose comment
says "Faulty variant of" are not part of any specification: they are small bugs that
show that a property would notice (`mutants` in `PROJECT.json`).

### NodeAgent

Variables are the rows (`node`, `desired`, `reservation`, `command`), the API's calls
in progress (`handlers`, `requests`, `eviction`), `container` (Docker), `agent` and
`results` (requests on the wire).

* A command is named by its workload and its issuer, because each issuer issues at
  most one command per workload: a stop leaves the workload desired stopped for good.
* A handler is split where another process can run between its statements: the
  result route and the timeout controller first decide the command (a
  compare-and-set) and write the reservation later; `requestStateChange` reads first
  and commits later; the liveness controller marks, selects and evicts in three steps.
* The agent executes its batch one command at a time, in any order (the poll has no
  `ORDER BY`). A report may be answered, or time out before or after it reaches the
  API. When a report of success throws, the `catch` block of `execute` reports a
  failure; when that throws too, the tick ends.
* Docker: a start on a running container succeeds; a stop answers 304 or 404, errors
  to the adapter, when the container does not run; a stop that times out may end
  later. Under the restart policy `always` a restart of the daemon starts even a
  stopped container, so the properties about containers exclude those workloads.
* Time is the age of timestamps. `Tick` does not let the timeout controller be later
  than `TimeoutLag`.

Left out: `workload.delete` (nothing requests it), Minecraft, log and volume commands,
the `draining` status (the agent always reports `ready`), several ports per workload,
the rows of `volumes` (in `Placement`), and the `actualState` column (in `Reconciler`).

### Reconciler

A session is a controller tick, a user request or the handler of a report; its `pc`
runs through the database statements of `reconcileDeployment`,
`restartDeploymentWorkloads` and `refreshDeploymentStatus`, and its `snap` is the
deployment row it has read. Every early return of a pass is an action of its own.
Rows that are desired running are kept in slots; of rows that are not, and never will
be again, the decisions only see whether one is broken or not yet stopped, which is
what `retired` keeps. Volumes, nodes and ports are the outcome of a placement.

### Rollout

A call is a request, a build reconciliation or a controller tick. `createDeployment`
is cut into reading an existing revision of the build, reading the last version, and
the insert, which the two unique indexes may refuse; `supersedePreviousDeployments`
into its read and, per revision, the update and the stops. `serial` and `touched` are
history variables that say which requests there have been; no action reads them.

### BuilderQueue

`run` is the table, `slot` the loops of the workers (one per slot and worker process),
`workspace` the runs that have files on the shared volume. A slot's `pc` follows the
loop of `worker.ts` and the phases of `WorkflowExecutor.execute`: clone, checkout,
recording the metadata, the steps, a build that has marked the run as pushing, the
verdict. Every statement is one action, because the timers (`PollCancellation`,
`Heartbeat`), the API and the other slots run in between; the abort signal is the flag
`aborted`. Of the metadata the model keeps which attempt wrote the commit and the
image. Which steps a workflow has is left open: a graph may end, fail, tolerate a
failed build, and try to build again, which `markPushing` refuses.

The order, conditions and retries of steps are in `Workflow`, deploy steps in
`FirecrackerAgent`; logs are left out. A second request with the same
idempotency key changes nothing and is no action.

### Placement, BuildPipeline, Domains

`Placement` cuts a pass at its statements: volumes, candidates, choice, claim of the
volumes, second read, ports, insert. The claim is an update of unbound volumes only,
and whoever finds other nodes afterwards schedules anew or gives up. A request about a
volume is split between its check and its write. The mounts of a revision are read
(`ReadMounts`) before the revision is stored (`CreateRevision`): a deploy request reads
them some statements earlier, a build when it is created, which may be many minutes
earlier, and a rollback takes those of its source; what has been read and is yet to be
stored is in `gathered`, and the foreign key of the mounts is why a revision is not
stored once the row of one of its volumes is gone. The agent reports a container that
has exited, or is being restarted by Docker, as stopped although it is desired running
(`ReportState`), and such a row does not count in `loadCandidates`; a row leaves
`placed` only after a stop was asked for and has succeeded. Three histories say after
what the properties promise less: `passesMet` (two passes were under way together),
`recounted` (a row that had been left out as stopped counts again) and `tooLate` (the
volumes that were attached or captured after their deletion had been accepted).

`BuildPipeline` has two passes of the controller that may be at the same build, because
a tick starts every five seconds and a call to the builder may take fifteen. Every call
may be lost before or after the builder acted, and handlers and passes die between
their statements.

`Domains` gives each handler a snapshot of the rows, which it turns into routes domain
by domain and then writes as a whole: the order of the writers decides. `VerifyDomain`
waits for the DNS between its read and its update. Legacy rows, which have no target,
keep the whole file as it is.

### Organization, accounts, nodes

`Tenancy` and `Projects` put a request that has passed its checks into `pending`, from
which it writes later, at most `MaxPending` at a time; `overlapped` says whether two
have ever been there together. Permissions of one family are one permission, and the
default environments, which no foreign key protects, are plain references. `Enrollment`
has agents that register, give up, die and read their file again, against handlers that
go on. `Accounts` has the set-up with its advisory lock, its compensation and a crash,
and the ban that is one statement away from the end of the sessions.

### Game servers, workflows, machines

`GameServers` keeps the workloads of one server with their commands, so that results
arrive in any order, and, apart from it, the grants with their check and insert. The
server's application is one like any other: the routes of deployments (start, stop,
restart, and the new revision of a redeployment, rollback or deploy request) act on the
same deployments and workloads and never write the server's status. They are actions of
the model (`DeploymentStart` to `SupersedeRevisions`), and `gameBypassed` says that one
of them has been used since the status was last written: from then on "running" may be
told of a server that does not run, and the property says so. The page's own start sets
the deployment running that the server was created with, also after a redeployment has
superseded it; two workloads then run on one world's volume.
`Workflow` chooses the needs and conditions of every step, validates them with
`validateGraph`'s depth-first search and executes what was accepted in rounds.
`FirecrackerAgent` has the queue of allocations, and two cleaners per machine (its
watcher and DELETE) that read and remove files statement by statement.

### Stores and pages

`RateLimit` differs by store in where a request may be overtaken: the upsert uses the
time its statement began, Redis takes two commands, the memory store hands out its live
entry; an answer that is lost after the count is modelled for Redis only. `ObjectStore` shares one check between callers and forgets what it knew when an
upload fails. `DashboardTls` renames three files one after the other while Traefik reads
them. The pages have queries under way, with the answer they got, and mutations under
way; an invalidated query is fetched anew, other refetches join the one under way. A
text or a form is known by the row it was read from or opened for, which is what the
properties ask.

On the application page `running` is derived from the cached workloads, of which the
model keeps whether one is desired running and whether one is reported running. A stop
or deploy request changes what is desired; what is reported changes later by itself
(`WorkloadsMove`), and the runtime query does not poll, so after a stop the page may
rest on "running" until somebody looks again. `moved` is the history that says so. On the
game server page `saveGrant` and `removeGrant` wait for themselves only, so both may be
under way.

### Compositions

The cfg of a run holds the constants of one module tree, and many parts are small. The
composing modules extend (or instantiate) several of them and add a variable `moving`
(`part` in `MCSettle`), chosen initially: the part it names moves, the others keep their
initial values. A behaviour of a composition is therefore a behaviour of one of its
parts, every behaviour of every part is there, and a formula about one part is checked
exactly on that part. Where a part has several initial states, one of them is enough
while it does not move. Nothing is learned about parts together, which is right only
because they share no state: where parts do share it, they are one module, as
`Projects` and `Tenancy` are.

## 3. Runs

| Run | Result | Shows |
|---|---|---|
| `fleet` | holds | one workload, one requester, the liveness controller, a crashing agent and a crashing API: `AtMostOneDelivery`, `NoResurrection`, `PortHeld`, `LedgerRefinement`; two revisions, two nodes and two volumes: `BesideVolumes`, `RoomWithoutOverlap`, `RetainedKept` |
| `overcommit` | violated | `NoOvercommit`: the room of a workload that is reported stopped is given away, and then it runs again |
| `node_return` | violated | `NoDuplicateOnReturn`: the stop for a lost node expires before the node returns |
| `lease_recovery` | violated | `LeaseRecovers`: the deadline always ends a command before its delivery lease does |
| `recovery` | holds | `ReplicaBound`, `RecoveryBudget`, `ManualIsFinal` under ticks, requests, reports and API restarts |
| `progress` | holds | `ReplicasArrive`, `NoStaleRunning`, `PinnedStays` |
| `lease_overrun` | violated | `ReplicaBound` when a pass outlives its lease |
| `revisions` | holds | `VersionsInOrder`, `BuildDeployedOnce`, `SerialRollout` under two concurrent requests and a tick; `PortNotShared` for two workloads that want the only port, of which Docker restarts one by itself |
| `settle` | holds | `OrphansStop` (workloads of a revision that is no longer desired), `DeployedFromImage` and `CancelDecides` (builds), `RoutesSettle` (domains) |
| `verdicts` | holds | two slots, one run, three attempts: `FencedVerdict`, `TerminalStays`, `CancelWins`, `CancelEnds`, `CrashedReturns`; and `EveryCommandDecided` for one workload (commands with a deadline; those for logs have none) |
| `rollback` | violated | `SoleRunningRevision`: rollback to a revision that a build created |


`platform` holds as well; its properties are conjunctions, each of them about several
parts:

| Property | Of | Says |
|---|---|---|
| `PlatformTypeOK` | all parts | the types, foreign keys included, with no exception for any history |
| `AccessSound` | `Tenancy`, `Enrollment`, `Accounts` | lists and detail routes decide alike; a token enrols one node, whose identity the API accepts; one installation makes one administrator |
| `AdministrationRules` | `Tenancy`, `Projects` | an owner is left, no role dangles, default environments exist, archived projects gain nothing |
| `GameSound` | `GameServers` | no container stays behind a deleted server without a stop on its way, "running" is true until the routes of deployments are used, one grant each |
| `RunsSound` | `Workflow`, `FirecrackerAgent` | accepted workflows never deadlock and run nothing before its needs; addresses are not shared |
| `StoresSound` | `RateLimit`, `ObjectStore` | no window passes more than the maximum nor refuses before; known buckets exist |
| `DashboardSound` | pages, `DashboardTls` | a page at rest shows the stored configuration, and the workloads as they were when last read or written through it; texts, forms and grants stay with their file, row and server; the installed pair is served |

The violated runs state what a comment or document of the repository says; `findings`
in `PROJECT.json` quotes it and tells the counterexample.

### Bounds

* `NodeAgent`: one workload with all three commands that can start and stop it
  (start, a requester's stop, the eviction stop) already produces every batch and
  every race about it; the second workload of `revisions`, which Docker restarts by
  itself, is started and stopped alone, and only competes for the port once there is
  a first (`RivalWaits`). `fleet` and `revisions` follow workloads that have a host port:
  one without behaves like one whose reservation nobody reads, and is no rival for a
  port; `verdicts` has both. Time constants are the smallest that keep their order: deadline
  plus lag shorter than the lease, and a node can be away for longer than the
  deadline. `TwoCallsAtATime` bounds the API calls in progress: two is the number that
  can disagree about one row. The theorems of section 5 have no such bounds.
* `Reconciler`: one replica and two slots, so that one replica too many is visible;
  one tick, one request and one report handler at a time; one recovery attempt and a
  threshold of one, so that the budget is reached quickly. The view `WithoutStatus` of
  `recovery` identifies states that differ in the status column only, which decides
  nothing but itself; `progress`, whose properties mention it, has no view.
* `Rollout`: two requests (interchangeable, hence the symmetry), one tick, two
  revisions, one build, two attempts; `rollback` needs three creations. A tick changes
  neither versions nor builds, so `revisions` follows it only as long as `serial`, and
  with it `SerialRollout`, may hold; ticks beside other requests are followed in
  `settle`.
* `BuilderQueue`: runs share nothing but the order in which they are claimed, so one
  run is enough; a second slot makes stale attempts, a third attempt (`MaxAttempts`)
  makes a slot stale towards an attempt that replaced another stale one. A worker
  crashes and a lease is lost only while another attempt is left.
* `Placement`: two nodes of one unit (interchangeable), two revisions of one unit, two ports of which one
  is asked for by number, two volumes: enough for two passes to want the same unit, port
  or volume, and to bind two volumes of a revision to different nodes. `ScarcePasses`
  placements begin. Two requests, or revisions whose mounts have been read, are under
  way at a time (`TwoRequestsAtATime`). Where a volume was caught while it is deleted, one
  revision and one pass follow, and one pass where a stopped row counts again
  (`FewPasses`); the second volume is attached early, stays, and lives on nodes that do
  not fail (`OneVolumeChanges`). `overcommit` needs one node of one unit and no volume.
* `BuildPipeline`: two builds, so that a retry has something to repeat, one request and
  two passes at a time. `Domains`: two rows that compete for one hostname, one of them
  of the time before targets, one request and one tick.
* `MCPlatform`: two of everything that competes (users, agents of a token, players,
  installers, pages, hostnames, keys), three steps in a workflow, because a cycle or a
  chain of three is the first that a search can get wrong. `Undisturbed` stops where one
  of the histories has become true that the properties except: an overlap, a crash in
  the middle or a failure, after which nothing is claimed any more. `FewAccounts`,
  `FewRequests`, `OnePanel`, `FewHits`, `OneTab` and `FilledInOrder` limit how much of
  one part goes on at a time; each is explained where it is defined. A game server has
  two deployments, the one it was made with and one that replaces it; its rows and
  handlers are taken in turn, and one that a command asks something of has one
  deployment and one workload (`FewGameCalls`). Beside the workloads of the application
  page only its ports are changed (`WorkloadsTouched`). The access lists
  that a transaction refuses because a team has gone meanwhile (`Tenancy`) only occur
  after such an overlap.

`CHECK_DEADLOCK` is on except in `settle` and `platform`: a build that has ended, a
workflow, a limit at the last reading of the clock and a used-up set of clicks have no
next step, and a part that cannot move stops the whole.

### Fairness

* `EveryCommandDecided`: weak fairness of time and of the timeout controller, which
  runs on an interval in an API process that is restarted when it dies. Nothing is
  assumed of the agent.
* `LeaseRecovers`: in addition the agent keeps ticking and its poll is repeatedly
  served (its interval; it is restarted when it dies). The property fails even so.
* `ReplicasArrive`, `NoStaleRunning`: calls that have begun go on, the controller
  keeps ticking, time passes, the API is restarted finitely often (a restart in every
  pass defeats any controller), and a placement that is tried again and again finds
  its volumes available and a node with room (strong fairness; without a node there
  is nothing to promise).
* `CancelEnds`, `CrashedReturns`: the loops and timers of the slots run, steps end
  (each has a timeout), a signal kills git, and a lease that nobody renews expires.
  Nothing bounds the time git takes, so nothing is assumed of it; that not all slots
  hang in it is a hypothesis of the two properties (`SlotsReturn`).
* `OrphansStop`: calls go on, the controller keeps ticking, finitely many restarts.
* `CancelDecides`: requests and passes that have begun go on, passes keep being started
  and reach every build, and the calls to the builder are answered again and again
  (strong fairness, since any one may be lost); a run whose cancellation the builder
  accepted ends, which is `CancelEnds`.
* `RoutesSettle`: handlers go on, the route controller's interval fires, and the API is
  restarted finitely often.

## 4. What the findings mean

* A stop for an offline node has the same two-minute deadline as any other command,
  so a longer outage leaves the old container running next to its replacement.
* The delivery lease of five minutes is never reached by a workload command; what
  recovers from an agent crash is the failed start and the next reconcile, not a
  second delivery. That is also why `AtMostOneDelivery` holds, and it would stop
  holding if the deadline were raised beyond the lease: it rests on `TimeAssumption`.
* The reconcile lease bounds the replicas only as long as a pass fits into it.
* A rollback to a revision that came from a build stops the application.
* Reservations are not recomputed from unfinished workloads: one that is reported
  stopped drops out while it is desired running, and whoever is scheduled next gets its
  room. With `restartPolicy` `unless-stopped`, a container that Docker is restarting when
  the agent looks is enough.

## 5. Proofs

`NodeAgentProofs` proves for every set of workloads, ports and requesters and every
choice of the time constants that satisfies the named assumptions of `NodeAgent`:

| Theorem | Statement |
|---|---|
| `TypeCorrectness` | `Spec => []TypeOK` |
| `DeliveredOnce` | `Spec => []AtMostOneDelivery` |
| `StoppedForGood` | `Spec => []NoResurrection` |
| `PortStaysHeld` | `Spec => []PortHeld` |
| `PortExclusive` | `Spec => []PortNotShared`; the run `revisions` checks the same formula through an instance of `NodeAgent` |
| `ImplementsLedger` | `Spec => LedgerRefinement` |

None of the properties is inductive. `Inductive` adds to `TypeOK`:

* `Young`: an outstanding command is at most one tick past the latest moment the
  timeout controller may act, and its lease is no older than the command itself;
* `Counted`, `Unissued`: attempts match the status, and a command whose issuer has
  not acted yet does not exist anywhere;
* `HeldOnce`: the agent holds only delivered commands, and no start whose container
  exists already (so the branch of `StartMayLeave` for a running container is never
  taken);
* `StopsTrue`: every successful verdict for a stop, with the agent, on the wire or in
  the table, is about a container that has exited;
* `HandlersAgree`: a handler that still has to write the reservation carries the
  verdict in the table;
* `PortsKept`, `PortsUnique`: a reservation that is no longer active belongs to a
  failed start or to a stopped container, and active reservations of one port belong
  to one workload.

`DeliveredOnce` follows from `Young`: a second delivery needs a lease older than
`DeliveryLease`, hence a command older than the timeout controller lets it become.
`StoppedForGood` follows from `HeldOnce` and `StopsTrue`: the container ran when it was
stopped, so the only start there is had been executed already. The refinement maps
the status column to `CommandLedger`'s variable; `Inductive` is needed to show that a
lease always finds a pending command (a second one would not be a step of the
ledger) and that an insert always finds the name unused.

`BuilderQueueProofs` proves for any finite set of runs, any slots and any bound on the
attempts:

| Theorem | Statement |
|---|---|
| `TypeCorrectness` | `Spec => []TypeOK` |
| `CancellationWins` | `Spec => []CancelWins` |
| `VerdictsFenced` | `Spec => FencedVerdict` |
| `VerdictsStay` | `Spec => TerminalStays` |

`complete` and `fail` check neither the attempt nor the status, only the worker's id.
That this suffices rests on three facts that `Inductive` adds to `TypeOK` and
`CancelWins`: a slot that the row names and that is at work on the run is at work on
its latest attempt (`Current`: a slot claims only after it has left its previous
attempt); such a slot is at work on a decided run only if its `complete` raised, and
can then only fail (`Finished`); and a run is cancelled only on request (`Requested`),
so that a late failure leaves it cancelled. `Room` says that a run that may be claimed
again has an attempt left, which the type of the counter needs. `StatusChanges` lists
the ways in which a status may change; the two action properties follow from it.

`ReconcilerProofs` proves for any number of replicas, slots, ticks, requests and
reports, and any thresholds, backoffs and lease times:

| Theorem | Statement |
|---|---|
| `TypeCorrectness` | `Spec => []TypeOK` |
| `ReplicasBounded` | `PassFits` implies `Spec => []ReplicaBound` |
| `RecoveryBounded` | `PassFits` implies `Spec => []RecoveryBudget` |
| `ManualStays` | `PassFits` implies `Spec => ManualIsFinal` |
| `PinnedKept` | `Spec => PinnedStays` |

`PassFits`, a constant of the model, says that every pass ends within its lease. The
three theorems need it: without it `lease_overrun` refutes `ReplicaBound`, and two
passes at a time also spend an attempt twice. The other two do without. The invariant
`Leased` is that one call works under the lease and its lease is not over
(`UnderLease`); that a pass which places has room for all it found missing
(`RoomLeft`), although reports may only make it find too much missing, never too
little; that the attempts recorded in the row pay for the replacements there were, and
one attempt more for those of the pass that is placing (`Budgeted`); and that recovery
is given up only while a replica is missing, and by the one call that could still place
it (`Manual`). For `PinnedKept`, which has no lease to rest on, `LostPinned` (rows of lost
nodes stay desired only if a volume pins them) and `Unasked` (without user requests
nobody is about to stop a workload with volumes) suffice.

`RolloutProofs` proves for any number of users, ticks, builds, attempts and revisions:

| Theorem | Statement |
|---|---|
| `TypeCorrectness` | `Spec => []TypeOK` |
| `Numbered` | `Spec => []VersionsInOrder` |
| `DeployedOnce` | `Spec => []BuildDeployedOnce` |
| `LastRolloutRuns` | `Spec => []SerialRollout` |

`Base` joins the types, what a call holds at each of its points (`Sound`: its revision
exists, the version it is about to insert is not beyond the next one), the numbering,
and that revisions have different builds. A version may be stale when it is
inserted, but it is never too high, so the unique index leaves the next number only.
`InTurn` is about histories in which one request at a time created a revision: at most
one call is active, and until it has stopped the others, the revisions desired running
are the fresh one and those on its list (`RollsOut`); the ticks that run beside it never
change what is desired.

`PlacementProofs` proves for every set of nodes, revisions, volumes and ports, every
capacity and every demand:

| Theorem | Statement |
|---|---|
| `AffinityHolds` | `PlcSpec => []BesideVolumes` |
| `RetentionHolds` | `PlcSpec => []RetainedKept` |
| `RoomHolds` | `PlcSpec => []RoomWithoutOverlap` |

`AffinityHolds` rests on `Claims`: after the claim, an update of unbound volumes only,
every volume of the revision has a node, which no later step changes, and a pass that
has read the claim back goes on only where that node is the one it chose.
`RetentionHolds` is about every volume that was not attached or captured after its
deletion had passed its checks: while such a volume is retained, no deletion of it has
passed its checks (`Kept`), however long before its mounts were read; that a retained
volume has a row is the foreign key (`RetainedListed`). `RoomHolds` follows from `Counted`: unless a row that was left out has come back, the load a lone
pass has read is no less than what counts now, since everybody else only removes
workloads or has them reported stopped, so what it chose still fits. The load is a
sum over a set (`MapThenSumSet`), about which the module proves that the order of the
elements does not matter, that a part counts no more than the whole, and that rewriting
rows adds nothing.

`SettleProofs` proves about the parts of `MCSettle`, for any number of builds, requests,
passes, domains and hostnames:

| Theorem | Statement |
|---|---|
| `BpTypeCorrectness` | `BpSpec => []BpTypeOK` |
| `ImageBeforeDeployment` | `BpSpec => []DeployedFromImage` |
| `SettleTypesHold` | `SettleSpec => []SettleTypeOK` |

The passes write without looking at the row, so the argument is about the run: one
request submits a build, before which the builder does not know it (`SubmittedOnce`),
and what a pass saw of a run that has succeeded remains so (`SawRight`), because a run
that ended never changes and is never submitted again. `DeployedFromImage` is a state
formula of one part of `settle`, where it is checked together with the types.
The types of all parts follow from the invariant of the builds, from `Base` of
`RolloutProofs`, whose lemmas `MCSettle` brings in with its instance of the module, and
from `DomInv`: what a handler of domains holds, a snapshot that may be stale and the
routes made of it, are rows and routes that were there. It needs that there is a domain
to speak of and that hostnames suffice for the legacy rows (`DomainsAssumption`).

`PlatformProofs` proves, for all values of the constants of the parts that `MCPlatform`
composes:

| Theorem | Statement |
|---|---|
| `StoresHold` | `PlatformSpec => []StoresSound` |
| `GamesHold` | `PlatformSpec => []GameSound` |
| `AccessHolds` | `PlatformSpec => []AccessSound` |
| `RulesHold` | `PlatformSpec => AdministrationRules` |
| `RunsHold` | `PlatformSpec => []RunsSound` |
| `DashboardHolds` | `PlatformSpec => []DashboardSound` |
| `PlatformTypesHold` | `PlatformSpec => []PlatformTypeOK` |

Every part has an invariant of its own, and a step of the platform is a step of each
part or a stutter. The constraint of the run `platform` is no hypothesis of these
theorems; the histories that the properties except (`grantRaced`, `overlapped`, `setupCut`
and so on) are, as in the run.

* Limits (`RlInv`): the requests that were counted in a window have different numbers,
  one to the counter, so that those that passed and those about to pass are exactly as
  many as the counter and the limit allow. Redis may lose the expiry of a window to a
  crash (`cut`), which the property excepts.
* Buckets (`OsInv`): the check of a bucket is the one `pendingChecks` names; a stale
  entry of the cache for a bucket that an upload has missed is kept only by an upload
  that will miss it too.
* Game servers (`GsInv`): outside races a handler that is past its checks is alone, and
  no start is on its way meanwhile (`OneAtATime`), whether it came through the server's
  routes or through those of deployments; a container without a row has a stop on its
  way; "running" is written after a wanted workload has started, and lasts until it is
  stopped or a deployment is acted on. Grants (`GaInv`): what a request found when it
  checked holds until it writes.
* Enrolment (`EnrInv`): attempts have numbers of their own; a node that came by a token
  used it up; nodes of remote hosts are never written again, since an existing node is
  only replaced by a local registration, and only if it is local itself.
* Accounts (`AccInv`): while one installation holds the lock there is no other and there
  was none before it, and an administrator is the installer, was promoted, or is the
  account of the installation under way.
* Administration (`TenInv`, `PrjInv`): a request that runs alone finds, when it writes,
  what it found when it made its checks (`StillGranted`, `StillValid`): another owner, a
  role nobody has, an environment that is nobody's default, a project without
  applications. Without the exception for overlapping requests none of this holds.
* Workflows (`WfInv`): first, that the search of `validateGraph` is right, for every
  graph of finitely many steps (`CycleFoundMeans`): it finds a cycle exactly when some
  steps wait for each other. By induction on what is left of a search (`SearchFinds`),
  a step it meets on its own path closes a circle, and the steps it has left need
  nothing outside them and contain no circle. Then, of an accepted workflow: a step
  waits, works or has its outcome; when no step works and none was rejected, the steps
  that wait cannot all wait for each other, so one is ready (`SomeReady`).
* Machines (`FcInv`): an address about to be written is in no file, and two deployments
  are never about to write (the queue of allocations); a deployment keeps its address
  until it has ended, and only then is it watched, cleaned up or routed to.
* Certificates (`TlsInv`): the two files are one pair except while an installation is
  between them (`PairByPair`). What Traefik has read so far, and what the page of the
  last installation has asked for, may be old only while the installation that replaced
  it has yet to change the configuration, or to answer (`ReadInTime`, `ShownInTime`).
* Domains page (`DpInv`): an open form edits the row it was opened for
  (`FormForItsRow`), and between the success of a save and its refetch no answer is the
  last one (`ListKeepsUp`), so that a row that the page was told of is shown as stored.
* Application page (`PagInv`): the page is taken apart into parts (fields, ports, items,
  workloads), each with the mutations that store it and the query that brings it. A part
  that no mutation is about to change is shown as it is stored, or the answer that is
  about to replace it is (`PartsShown`); an answer that was asked for before the last
  write is discarded when the mutation invalidates its query. For the workloads this holds
  until they move by themselves (`moved`), and again once they have been read. That at
  rest the page is what is stored (`AtRest`) follows part by part (`ConfiguredByParts`,
  `WorkloadsAlone`). An item's mutation
  stores that item and no other, which the types had to say.
* Game server page (`GpInv`): cards, files and grants have an invariant each. The cards,
  or the answer on its way, tell the statuses or make the page poll (`CardsKeepUp`); one
  file operation is at work, and what the editor holds is the text of its path unless
  that is still being read (`TextsAtHome`); grants are changed at the server that is
  shown, and fetched afterwards (`GrantsKeepUp`).
* Types of the projects (`LinksInv`): an environment is of one project (`OneOwner`), what
  a request is about to create exists nowhere yet (`EnvsAreNew`, `AppsAreNew`), and an
  application and the variables it has, or is about to get, as secrets are of one
  project (`SecretsLinked`), so that a variable that goes with its environment takes
  its attachments with it. Unlike `PrjInv` this holds while requests overlap.
  The other types follow from the invariants above.

The proofs found definitions that were right only for the run's constants or within its
constraint:

* every project had been given the same id for its production environment, and nothing
  kept a token from having the name by which local registrations are told apart. Both
  are now assumptions on the constants (`ProjectsAssumption`, `EnrollmentAssumption`);
* after overlapping requests, an id of an environment, an application or a variable that
  had been deleted could be given out again while a request still carried it, and a
  secret of another project was attached. The code makes ids with
  `crypto.randomUUID()`, so `Projects` now gives out ids that no request carries either;
* deleting the server that is shown leaves it, as selecting another one does, and the
  grants that were being changed are then those of a server that is not shown.
  `GameServerPage` did not count that as `strayed`.

Constants whose elements a step needs are assumed not to be empty
(`ApplicationPageAssumption`, `GameServerPageAssumption`, `GameServersAssumption`).

Induction over data is out of the reach of the installed provers when it is stated with
an operator as the parameter. `SetInduction` states it with a set instead: a set of
numbers that has 0, and with every number the next, has all of them (`CountingUp`); a
set of sets that has every subset whose proper subsets it has, has all subsets
(`Shrinking`), or grows element by element (`AddingUp`). With these, `PlacementProofs`
shows that the recursive function behind the sum exists and what it computes,
`ReconcilerProofs` that the backoff, a power of two, is a positive number, and
`PlatformProofs` that the search of `validateGraph` ends and what it has found then.

Every inductive invariant was checked by TLC on a small instance before it was proved.

Every invariant and every action property of a passing run is thus proved, for every
value of the constants. Two proofs are of less than that: `ReplicasBounded`,
`RecoveryBounded` and `ManualStays` assume `PassFits`, and of `SettleTypeOK` the part
about `Rollout` is for the constants of `MCSettle`, while `TypeCorrectness` of
`RolloutProofs` is general.

Only model-checked: liveness (`EveryCommandDecided`, `ReplicasArrive`,
`NoStaleRunning`, `OrphansStop`, `CancelEnds`, `CrashedReturns`, `CancelDecides`,
`RoutesSettle`), which the prover cannot reach, and the counterexamples of the runs that
are expected to be violated.

## 6. Not modelled, and the plan

Not modelled:

* metrics and telemetry storage: append-only samples; nothing decides by them except the
  reports in `Reconciler`;
* system updates: a shell script in a container that the script recreates. What is left
  of it at that moment is decided by Docker, so a model would be one of Docker;
* the registry client: the system calls its ping only;
* the parts of the authentication library (sign-up, invitations, sessions) beyond what
  `Accounts` and `Tenancy` take from their use;
* the pages of the dashboard that list rows and submit one form, and what pages only
  display: texts, logs, charts;
* deletion of applications with their deployments, apart from that of game servers;
* creation of game servers, console and file commands on the agent's side; renaming and
  draining of nodes.

Of the modelled parts, data is abstracted to what the properties tell apart: names,
slugs, sizes, times of day, URLs, payloads and audit records do not appear.

The plan is carried out. What would be next, should the code change in this direction:
the parts of the dashboard and of the agent named above, and a property for the two
hazards of `PROJECT.json` that have none, once the code or a document says what is to
become of a successful build whose deployment was not created.

## 7. Further hazards

`PROJECT.json` lists the hazards that matter most. These were met as well; the
right-hand column names the property that watches them, or says where they can be seen.

| Where | What | Property, or where |
|---|---|---|
| `api/src/routes/nodes.routes.ts:402` | The poll selects without an order, so a batch can hold a stop before the start it is meant to undo, and a redelivered start can follow a successful stop. | `NoResurrection` |
| `api/src/routes/applications.routes.ts:557` | Only start refuses a superseded revision; restart, or stop followed by start, revives it beside the current one. | `SerialRollout`. Covered as far as it must not disturb plain rollouts; what the user then gets is the user's request. |
| `agent/src/runtime/container-runtime.ts:78` | Under the restart policy always a restart of the Docker daemon starts a container that was stopped on purpose. | `NoResurrection`, `PortHeld`. The properties exclude such workloads: nothing in this code could prevent it. |
| `api/src/modules/deployments/lifecycle.ts:17` | A container that exits is reported stopped while it is desired running: it is neither unhealthy nor missing, so the deployment stays starting for ever. | Visible in Reconciler as a reachable stable state; no document of the repository promises otherwise, so no property is stated. |
| `builder/src/executor.ts:24` | git clone has no timeout while the heartbeat keeps the lease alive: an attempt may hang for ever, and only a cancellation ends it. | `CancelEnds` |
| `builder/src/executor.ts:24` | The workspace is named after the run and lies on a volume that all workers share (docker-compose.yml): after a crash the next attempt finds it filled, git refuses to clone into it, and the recovered run fails. | Reachable in BuilderQueue (Crash, then Clone); no property, since the recovered run ends as failed, which the README of the builder does not exclude. |
| `builder/src/postgres.ts:80` | updateMetadata does not ask whose run it is, and an attempt starts from the metadata it read when it claimed: a stale attempt can replace the commit or the digest of a run that has succeeded. | `DeployedFromImage`. The property covers that the image exists; which attempt's image it is, is in BuilderQueue (Record by a slot that lost its lease). |
| `builder/src/worker.ts:47` | complete commits but its answer is lost: the catch block fails the run, and a success the API may have seen becomes a failure. | `TerminalStays`. The property confines the change to this one case. |
| `builder/src/log-buffer.ts:24` | One rejected write leaves the chain of flushes rejected: every later batch of log lines is dropped. | The lost lines are log lines, which nothing reads but the user. |
| `api/src/modules/volumes/controller.ts:35` | The controller reads the last delete command and inserts another later; overlapping ticks issue two deletes, of which the second decides whether the volume ends in error. | VolumeTick is one step in Placement: the second command removes what the first has removed, and Docker's answer decides the status. |
| `api/src/routes/projects.routes.ts:597` | A domain is deleted first and the file rewritten afterwards; after a crash in between the route stays until another domain of the project is synchronised, and for ever if it was the last one. | `RoutesSettle`. The property speaks of projects that still have a domain; the last domain's route file has nothing that would remove it, and no document promises that. |
| `api/src/routes/projects.routes.ts:638` | POST verify reads the domain, asks the DNS, and then activates the row by its id: a PATCH that changed the hostname meanwhile is activated unverified. | Reachable in Domains (PatchDomain between CheckDns and Activate); no document of the repository says what a concurrent edit should do. |
| `api/src/routes/projects.routes.ts:543` | PATCH resets the status to pending whenever a hostname is sent, and the domains page always sends it: renaming the target of an active domain unpublishes it until it is verified again. | `RoutesSettle` |
| `dashboard: projects/[projectId]/domains/page.tsx:123` | A save that finishes closes the form, whichever row it shows by then: what the user typed into the next one is lost. | Reachable in DomainsPage; a loss of unsaved input, about which nothing is promised. |
| `dashboard: projects/[projectId]/domains/page.tsx:97` | The form that was filled from one row could be sent for another after the row was edited, deleted or the dialog reopened. | `DashboardSound` |
| `api/src/routes/organization-rbac.routes.ts:72` | A custom role is deleted after a check that nobody has it, and assigned after a check that it exists: the two together leave a member with a role that does not exist. | `AdministrationRules`. Excepted when requests overlap. |
| `api/src/routes/teams.routes.ts:216` | Taking a team from a project reads the teams that remain and then writes the access mode: an assignment in between leaves a project open to the organization although a team is assigned to it. | `AdministrationRules`. Excepted when requests overlap. |
| `api/src/routes/projects.routes.ts:409` | A project is deleted after a count of its applications; an application created in between goes with it. | `AdministrationRules`. Excepted when requests overlap. |
| `api/src/routes/environments.routes.ts:25` | A secret can be turned into a plain variable although applications are attached to it as a secret. | The write is in Projects (PutVariable); no rule of the repository is broken by it. |
| `api/src/routes/nodes.routes.ts:287` | The registration token is used up before the answer leaves: an agent that never receives the answer retries with a token that is gone and can never enrol. | Reachable in Enrollment: the token is single use on purpose, so the operator has to issue another. |
| `api/src/routes/nodes.routes.ts:336` | A local registration that was given up by its agent can still replace the agent token after a later attempt has stored its identity, or insert a second local node. | Reachable in Enrollment; AccessSound speaks of the identities of remote hosts for this reason. |
| `api/src/routes/applications.routes.ts:721` | Detaching writes in_use over whatever the volume's status is by then, deleting included, so a deletion under way is forgotten. | Reachable in Placement (VolumeWritten); `RetainedKept` is about volumes that are kept, and forgetting a deletion keeps one. |
| `api/src/modules/volumes/controller.ts:27` | A volume whose row cannot be deleted because something still refers to it raises in the loop of the controller: the volumes after it are not visited in this tick, nor in any other. | The loop's visits are independent in Placement; nothing is promised about the order or the time of deletions. |
| `api/src/routes/applications.routes.ts:534` | Log requests look for a pending command of the same kind and insert one otherwise: two polls at the same time insert two. | Duplicate reads of logs change nothing the system keeps. |
| `api/src/routes/builds.routes.ts:91` | The submission reaches the builder but its answer is lost: the build is failed and the run goes on, and its result is never read. | `DeployedFromImage`. The property says that such a run is not deployed; that it consumes a worker is visible in BuildPipeline and contradicts no document. |
| `api/src/routes/builds.routes.ts:85` | The build is inserted, submitted and then updated: after a crash between the insert and the update it stays created for ever, because the reconciler visits only submitted builds. | Reachable in BuildPipeline (crash of a handler); no document promises otherwise. |
| `api/src/routes/builds.routes.ts:80` | The retry of a build that was built without deploying is submitted with the trigger retry, which deploys it. | The trigger is in BuildPipeline (retry of a build only); whether a retry should deploy is nowhere written. |
| `api/src/modules/builds/controller.ts:38` | Two overlapping ticks both find the build not yet succeeded, and both go on to create a deployment: the unique index refuses one of them, whose catch block fails the build that was deployed. | `BuildDeployedOnce` |
| `builder/src/workflow.ts:60` | Needs may be cyclic, refer to unknown steps, or repeat an id; a graph that is let through must still end. | `RunsSound` |
| `builder/src/executor.ts:48` | A failed step ends the graph unless it is tolerated, so a step with the condition failure() can only ever be skipped. | `RunsSound` |
| `builder/src/executor.ts:43` | Ready steps run in parallel and one may fail while others are under way: none may start before what it needs has succeeded, nor be started twice. | `RunsSound` |
| `builder/src/agent.ts:52` | DELETE during a deployment frees the address of a machine that is still being made; the next deployment takes it as well. | `RunsSound`. Excepted through vmDisturbed: the property speaks of deployments that are not deleted half-way. |
| `builder/src/agent.ts:104` | When the state or the route cannot be written, the undo stops nothing that already runs: the machine stays without an owner. | Reachable in FirecrackerAgent (VmWriteRaises); the README of the builder promises nothing about failed writes. |
| `builder/src/agent.ts:256` | The cleanup reads the route and removes it later: a newer deployment of the same name can lose the route it wrote in between. | Reachable in FirecrackerAgent (RemoveRoute). `RunsSound` says where a route leads, not that a deployment keeps the one it wrote. |
| `builder/src/agent.ts:105` | The watcher of a machine's end lives in the process of the agent: after a restart nobody cleans up behind a machine that ends. | Reachable in FirecrackerAgent (restart); vmWatched shows it. Nothing reconciles it. |
| `api/src/routes/nodes.routes.ts:638` | The result of a start that arrives after the server was stopped sets its status to running again; the later stop result corrects it only if it comes afterwards. | `GameSound`. Excepted for requests and results that overtake each other (gameRaced). |
| `api/src/routes/game-servers.routes.ts:522` | PUT permissions deletes, looks for an existing grant and inserts: two concurrent PUTs leave two grants for one player, of which either may apply. | `GameSound`. Excepted for overlapping PUTs (grantRaced); nothing in the schema makes the pair unique. |
| `api/src/routes/game-servers.routes.ts:309` | Start, stop and start again with commands still under way: a second container of the same world can run beside the first on one volume. | `GameSound`. Excepted through gameRaced. |
| `api/src/features/setup/service.ts:49` | The setup signs the administrator up outside its transaction: a crash before the commit leaves an account whose address blocks the next installation. | `AccessSound`. Excepted through setupCut: nothing removes the account after a crash. |
| `api/src/routes/analytics.routes.ts:163` | A ban and the end of the sessions are two statements, and a sign-in reads the ban before it inserts its session: a banned user can be left signed in. | `AccessSound`. Excepted through banRaced. |
| `api/src/routes/analytics.routes.ts:158` | The last platform administrator can demote or ban itself: the system has none left. | Reachable in Accounts (PatchRole); no check and no document forbids it. |
| `packages/core/src/firewall/rate-limit.ts:72` | INCR and PEXPIRE are two commands: a process that dies in between leaves a counter that never expires, and the key is refused for good. | `StoresSound`. Excepted through cut. |
| `packages/core/src/firewall/rate-limit.ts:37` | The memory store returns its live entry; what a caller sees changes with the next request of the same key. | `StoresSound` |
| `packages/core/src/firewall/rate-limit.ts:250` | Requests for which no organization has been resolved share one counter, so that strangers use up each other's limit. | In RateLimit a counter belongs to a key; which requests share a key is the choice of the key generator. |
| `packages/s3/src/blob-client.ts:183` | A bucket that was removed behind the cache is found missing by the upload only; the cache must forget it and the upload be tried once more. | `StoresSound` |
| `api/src/routes/dashboard-tls.routes.ts:45` | A failed write of the key answers 400 like a rejected certificate, although the certificate has been replaced. | Reachable in DashboardTls; the answer's text is all that differs. |
| `api/src/lib/network/dashboard-certificates.ts:74` | Traefik reads the certificate when its configuration file changes: the configuration has to be touched after both files, or the old certificate is served on. | `DashboardSound` |
| `api/src/lib/system-updater.ts:63` | Two requests for an update are both answered 202 although the lock of the script lets one of them run only. | The update is a shell script in a container of its own; left out together with it. |
| `deploy/docker/update-system.sh:18` | The script recreates every service, the updater it runs in included, before it writes the state succeeded: the lock and the state running are left behind. | Depends on how Docker treats the container of the script while it is replaced; not modelled. |
| `dashboard: applications/[applicationId]/page.tsx:363` | The defaults are saved by several requests in a row: when one fails the earlier ones are stored, and the page must not go on showing the old ones as if they were. | `DashboardSound`. Excepted through disturbed. |
| `dashboard: applications/[applicationId]/page.tsx:308` | A refetch fills the form again and overwrites what the user has not saved. | Reachable in ApplicationPage (FillForm); unsaved input is not promised to survive. |
| `dashboard: applications/[applicationId]/page.tsx:638` | Saving the source sends the credential field as it is displayed, which is empty: the stored credential is cleared. | Text of a form: outside of what the model keeps about fields. |
| `api/src/routes/applications.routes.ts:828` | The runtime status counts failed workloads of superseded revisions, so an application can be shown failed while its current revision runs. | The status is derived for display; GetRuntime has only what the page refetches. |
| `dashboard: game-servers/page.tsx:408` | A read that fails leaves the editor with the new path and an empty text, which Save then writes over the file. | `DashboardSound`. Excepted through unread. |
| `dashboard: game-servers/page.tsx:350` | A write that the page gave up waiting for is carried out by the agent later, over what was written meanwhile. | `DashboardSound`. Excepted through strayed. |
| `dashboard: game-servers/page.tsx:105` | Cards are refetched only while one of them is changing: a late report of a start leaves the card stopped until the user does something. | `DashboardSound`. The property speaks of what the page has been told; the late report is excepted through estranged. |
| `dashboard: game-servers/page.tsx:628` | Grants saved while the user moves to another server must not be shown, or refetched, under the server he moved to. | `DashboardSound` |
| `api/src/modules/volumes/controller.ts:31` | A volume whose removal failed once goes to error, and a second DELETE finds the old failed command as the last one: the removal is never tried again. | Reachable in Placement (VolumeTick after a failed command); no document says how a volume leaves the status error. |
| `api/src/routes/applications.routes.ts:721` | A volume that was detached everywhere becomes in_use, while attaching asks for available: it can never be attached again. | Reachable in Placement (DetachVolume, then AttachVolume is disabled); no document of the repository promises otherwise. |
| `api/src/modules/nodes/liveness-controller.ts:52` | Volumes of an offline node become unavailable while passes that have read them as available go on to place workloads beside them. | `BesideVolumes` |
| `builder/src/executor.ts:54` | A step that timed out or was refused is tried again while its round goes on; the graph must settle every step of the round before it ends, and never run one for which it has no attempt left. | `RunsSound` |
