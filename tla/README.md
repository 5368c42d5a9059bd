# A TLA+ model of NextPanel

NextPanel is a panel for proxy services.  A NestJS server keeps servers, nodes and
subscriptions in PostgreSQL; it installs and removes systemd services on its
customers' machines over SSH, keeps DNS records and origin rules at Cloudflare, hands
out subscriptions, and talks to a Go agent on every machine.  What makes the code hard
is not any single request: it is that requests, scheduler ticks, several server
processes, agents and the machines themselves go on at the same time, that every
remote step can fail or lose its answer, and that the database must never forget what
it has left on somebody's machine or given to somebody's client.  This directory models
that, checks it with TLC on small instances, and proves for every size what the prover
can reach.

Contents: [the system](#the-system), [modules](#modules), [how they follow the
code](#how-the-modules-follow-the-code), [the runs](#what-the-runs-check),
[fairness](#fairness), [findings](#findings-and-deviations), [proofs](#what-is-proved),
[limits](#not-modelled), [plan](#plan).

## The system

Paths are relative to `src/apps/server/src` unless they start with `src/`.

| component | state it keeps | operations | interacts with | what makes it correct |
|---|---|---|---|---|
| resources (`resources/`, `nodes/resource-cleanup.scheduler.ts`) | `ResourceCleanup` jobs, `ResourceFinding`s, `Server.remoteHostId`; on the machine `/etc/nextpanel/host-id`, ownership manifests | queue a deletion, run / block / retry a job, inventory, retire a server | node deployment, agent, locks | every installed service has an owner in the database; credentials outlive the last service; a removal takes only what is attributable; a job ends, and is done once |
| node deployment (`nodes/node-deploy.service.ts`) | configuration, unit, certificate, manifest, firewall on one or two machines; the shared core | deploy, undeploy, toggle, refresh certificate, roll back | locks, resources, certificates, Cloudflare | old or new configuration, or flagged; both sides of a chain together; no service loses its core |
| nodes (`nodes/nodes.service.ts`, `nodes/config/`, `nodes/protocols/`) | `Node` rows, ports, credentials | create (three ways), update, remove, toggle | deployment, DNS, locks, subscriptions | row, machine and client agree; ports are unique |
| advisory locks (`common/database/advisory-lock.ts`) | PostgreSQL session locks | one call that brackets work | everything above | all keys or none; no circular wait; no result without the locks |
| servers (`servers/`) | rows, SSH credentials, address, status, tags | add, update, delete, ping, install the agent | resources, agent | nothing is lost with the row; a silent server is shown offline |
| agent API (`agent/`) and agent (`src/apps/agent`) | status, samples, pending update; executables and timers on the machine | heartbeat, self update, checks, statistics | resources, usage, IP checks | a way back from every update; nothing counted twice |
| Cloudflare origin (`cloudflare/`) | `Node.cfOriginRoute`, the zone's records and rules | prepare, activate, withdraw, remove, audit | deployment, cleanup, locks | nothing is left at Cloudflare that nobody knows of; a broken mapping is not exported |
| preferred addresses (`subscriptions/cf-optimization*`) | configuration, budgets, measured candidates | cycle, measure, rank, promote, roll back | an external probe, subscriptions | budgets hold; clients never get an address that failed |
| subscriptions and access (`subscriptions/`) | selection, `cdnOnly`, protected nodes | create, edit, drift, download in every format | nodes, external nodes, preferred addresses | what is hidden stays hidden; what is exported connects |
| usage (`usage/`) | counters per epoch, buckets, identities | sample, ingest, provision, revoke | agent, deployment, subscriptions | nothing counted twice; a credential works until it is revoked |
| auth, invite codes, users | token versions, one-time states, uses | login, OAuth, registration, roles | - | no session outlives its password; uses are counted |
| certificates (`common/cert`, `nodes/cert-renewal.scheduler.ts`) | the panel's pair, files on machines | renew, push, roll back, restart | deployment | a started service finds a matching pair |
| IP and route checks (`ip-check/`) | check rows, tags | start, dispatch, report, time out | agent | a late report does not resurrect a check |
| tests (`nodes/xray-test`, `nodes/singbox-test`, `nodes/connectivity.scheduler.ts`) | slots, local processes, files | test, cancel, hourly round | nodes | no leaked core, slot or credential |
| external nodes (`external-nodes/`) | imported links and sources | import, edit, refresh, export | subscriptions | a link means the same there and back |
| web interface (`src/apps/web`) | drawers, event streams, forms | follow a task, parse a stream | nodes, servers | what is shown is what happened |
| rules, recommends, openrouter, wxwork, metrics, audit, router plugin | rows, caches | read and format | - | no protocol of their own |

Hard behaviours, each listed with its line and its properties under `hazards` in
`PROJECT.json`: handlers interleave at every remote command and every query; a process
dies between any two steps; a lock connection breaks while the work it protects goes on;
an answer is lost though the command was carried out; what was read before an `await` is
used after it; samples, reports and streams arrive late, twice or out of order; budgets,
slots and versions meet their limits; and deletions, updates and deliveries are protocols
of many steps that must come to an end.

## Modules

| module | what it is |
|---|---|
| `ResourceLifecycle` | nodes, deployments with rollback, removals, cleanup jobs, inventories, retirement; crashes and lost sessions |
| `LockTable`, `AdvisoryLock`, `PanelLocks` | abstract lock table; `withPostgresAdvisoryLocks` step by step with nested calls; the panel's call sites |
| `AtomicDeployment`, `DeployTransaction` | what a deployment promises; one edit of a node with all its remote steps and the way back |
| `CoreUpgrade` | the core that the services of one server share |
| `ExitSelection` | the address a chain's SOCKS5 exit is pinned to |
| `CertDelivery` | renewal and delivery of the wildcard certificate |
| `PortAllocation` | listen, statistics and exit ports under the port locks |
| `CfOrigin` | the origin mapping at Cloudflare |
| `Subscriptions` | selection, protection and strictness of subscriptions; forms of the page |
| `NodeShapes`, `NodeConfigs` | what presets, forms and edits make of a node; what server and clients are told of it |
| `ExportGroups` | the groups of an exported configuration and clients that refresh |
| `ExternalNodes` | links parsed, stored, edited, refreshed, given out again |
| `UsageCredentials`, `UsageCounters` | identities and their provisioning; accounting of samples |
| `AgentUpdate`, `AgentInstall`, `Heartbeats` | the agent's self update, its installation, its heartbeats |
| `CfRanking`, `CfOptimization` | the ranking of measured addresses; the cycles that measure them within a budget |
| `IpCheck`, `ProbeProcesses` | quality checks of an address; connectivity tests |
| `Sessions`, `Accounts` | tokens, passwords and one-time states; registration, roles, binding |
| `EventStream`, `TaskViews` | the event-stream parser; the drawers that follow a task |
| `MC*` | instances for TLC |
| `*Proofs` | theorems and their proofs |

Composition.  `MCAdvisoryLock` puts the call sites of `PanelLocks` into the protocol of
`AdvisoryLock`.  `ResourceLifecycle`, `DeployTransaction`, `CfOrigin` and
`PortAllocation` let a handler take its locks in one step, which `TakenTogether` (checked
and proved of `AdvisoryLock`) permits.  `DeployTransaction` implements
`AtomicDeployment`, which is what `ResourceLifecycle` takes a deployment for.
`NodeConfigs` extends `NodeShapes`: the servers' and the clients' side of one row.
`Subscriptions` and `ExportGroups` use what `CfOrigin` promises of a mapped node as an
input that drifts.

The modules `MCDeployments`, `MCExports`, `MCAgents`, `MCPanel` and `MCProgress` check
several components in one run.  They EXTEND one component and instantiate the others; the
variable `part` says which component a behaviour is one of, and the variables of that
component are held in places `v1`, `v2`, ...  So the states of the components add up
instead of multiplying, and no step of one is a step of another.

## How the modules follow the code

Each action is one handler or one of its steps between two awaits; `map` in
`PROJECT.json` names the lines of every definition.  What a reader should know:

**ResourceLifecycle.**  A *resource* is one managed systemd service, `<<n, "ENTRY">>` or
`<<n, "EXIT">>`.  A *worker* is one handler or tick in any process; `pc`, `tgt`, `role`,
`ssh`, `saved`, `prior`, `seen`, `held` are its locals.  A machine holds a configuration,
a unit and a manifest per resource (`remote`) and may carry a host-id (`mark`, one of `Identities`).
`ensureHostIdentity` goes step by step: `Pin` reads the machine's file and the handler's copy of
the row (`known`), `Propose` writes a fresh id where there is none and reads it back, `Record` is
the update that only takes where the row has none, `Confirm` reads the row again.

| code | actions |
|---|---|
| `create`, `createFromPreset`, `createChainNode` | `CreateBegin`, `CreateInsert`, `CreateRefused`, `Provisioned`, `Compensate` |
| `deploy`, `deployChainExit` | `DeployBegin`, `Pin`, `Propose`, `Record`, `Confirm`, `Install`, `Register`, `Finalize`, `Rollback`, `RollbackFails`, `Settle` |
| `update` of a legacy node | `Edit`, and a later `DeployBegin` |
| `remove`, `undeployStream` | `UndeployBegin`, `Wipe`, `UndeployFails`, `Drop` |
| `queueServerDeletion` | `QueueBegin`, `QueueCommit`, `QueueRefused` |
| cleanup tick | `Pick`, `CleanupBegin`, `CleanupDeferred`, `Prepare`, `Block`, `Remove`, `Unlist`, `Done`, `CleanupFails`, `TimePasses`, `Retry` |
| inventories, `finishRetiredServers` | `ScanBegin`, `List`, `Observe`, `InventoryFails`, `FinalBegin`, `Retire`, `Heartbeat` |
| other | `Move`, `DestroyCredentials`, `RestoreCredentials`, `Crash`, `LoseSession` |

A request that waits for a lock is not a state: an action that needs keys is enabled when
they are free.  A configuration is its hash, as the code compares SHA-256 sums.
`abandoned` is a ghost: resources whose row was dropped without looking at the machine
they are on, in the two places where the code does that (`Compensate`, `Drop` after an
address change).  The in-memory `running` flag is no guard, because several panels may run.
The adoption of resources from before machines had identities
(`resources/resource-lifecycle.service.ts:312`) is left out.

**AdvisoryLock.**  `Call`, `Grant` (one `pg_advisory_lock`, sorted), `GiveUp`, `WorkEnds`,
`Unlock` (last key first), `Close`; `Break` frees the session's locks at once, the client
learns of it late (`Notice`) or never; `Crash` ends all sessions of a request.  A nested
call has a session of its own.  PostgreSQL's own deadlock detector is left out, because it
cannot relate two sessions of one request; hash collisions are ignored.

**DeployTransaction.**  `value[p]` is what part `p` of the hosts holds (certificate, exit
service, entry service, firewall, manifests), `saved` the copies, `held` what the way back
will take back.  `Steps` is the order of `deployExclusive`, `UndoSequence` that of its
catch block.  A command fails before, in or after its effect (`Put`), and its answer may be
lost.  A certificate is either pushed, with a copy of the old one (part `cert`), or self-signed
(`pair`): `Generate` and `GenerateFails` overwrite the files in place, with no copy and no way
back, as `generateSelfSignedCert` does.  `Settle` is `update` with the row and the DNS record it restores; `Legacy` the branch
that does not wait.  Unlocking is assumed to fail only with its connection (see deviations).

**PortAllocation.**  `AllocBegin` reads the rows under the port locks, `AllocScan` the
machine, picks and inserts; `EditBegin` / `EditEnd` are `update`.  `Derived` is
`computeStatsPort`: `PortAssumption` has `2 * Offset <= MaxPort` (20000 and 65535), without
which the derived port of `Offset` would be 0.  An edit ends with a deployment that records the
statistics port, or with the row alone: of a legacy node, after a rollback that failed, or because
the panel died.  From then until the next deployment the node is `loose`: its row claims a
statistics port it does not listen on, and `Kept` leaves that one port out of what is promised
(see deviations).  An edit cannot move a node (`nodes.service.ts:219`).

**CfOrigin.**  `edge` is what Cloudflare has, `row` and `job` what the database says, `at` /
`copy` the handlers; `wrong` and `accepted` are ghosts for what an audit has seen and what
was verified since.  The zone's TLS mode is not strict; nobody edits the panel's own record
between a handler's read and its write; a verification takes less than 20 minutes; all
faults share one budget.

**CoreUpgrade** describes one shared binary; the sing-box core is upgraded by the same
steps.  **ExitSelection** keeps the order of candidates and both rounds.  **CertDelivery**
has one panel pair and nodes that share nothing else, so one node suffices; a node may be
switched between the zone's certificate and a self-signed one (`Switch`, `managed`), which is made
in place.

**Subscriptions.**  A form holds what its tab read (`saw`) and what it changes; the page
always sends both flags (`PageAssumption`), other API clients need not (see deviations).
**NodeConfigs / NodeShapes** compare, field by field, what the server's inbound and every
client format say of a row that was made by any sequence of presets and edits.
**ExportGroups** assumes that the panel itself is reached over HTTPS.  **ExternalNodes**
leaves out names, ports and address spelling and the combination REALITY over WebSocket;
links of other panels settle after two imports.

**UsageCredentials** has the database rows, the node's file, manifest and running core, and
`sync` / `download` with the rows they read.  **UsageCounters** has time in units of a few
seconds; gaps, epochs, restarts of either side.  **Heartbeats** has one agent whose requests each
have a connection of their own: they arrive in any order, and are dated on arrival.  `behind` marks
those that a newer payload has overtaken; `again` is a ghost, the traffic up to each moment an
overtaken payload became the baseline.  Usage of nodes is abstracted.  **AgentUpdate** has
the executable, its predecessor and the systemd timer that puts it back.  **AgentInstall**
runs commands of overlapping installations on one machine; a command runs, or the connection
breaks around it.

**CfRanking** ranks by latency, or by throughput where every candidate has a sample of the last six
hours (`Speeds`; `Lapse` is the end of these six hours, and which candidates the daily bytes suffice
for is a free choice); it knows three classes of ages and counts failures up to two.
**CfOptimization** reads the pause (`Pick`), then the retry (`ReadRetry`, which compares with the
beginning of the cycle: `early`), then reserves and calls; it has two values of month and day keys; the low-budget mode and the
synchronisation of address ranges are left out.  **IpCheck** states `TagsFollowResults` only
while nothing broke; inbound route checks are disabled in the code, and the state of a
provider's health cannot be reached.  **ProbeProcesses** leaves out the rows that results are
written to.  **Sessions** and **Accounts** leave out the lock-out counter and tokens without
an identifier; the database may refuse a write (`RemoveWrite`).  **EventStream** covers texts
of up to five characters and events below the size limit.  **TaskViews** does not cover a list
that is not read again because nobody saw the success.

## What the runs check

| run | module | question |
|---|---|---|
| `chain` | `MCResourceLifecycle` | one chain node on two servers: credentials stay, finished jobs are clean and final |
| `lone` | `MCResourceLifecycle` | one node, two configurations, two machines: no orphan, removals take what they may, artifacts stay where the identity is |
| `fair` | `MCResourceLifecycle` | jobs settle, deletions end |
| `inventory`, `rehost`, `fence` | `MCResourceLifecycle` | violations, see findings |
| `locks` | `MCAdvisoryLock` | no circular wait, fenced results, refinement of `LockTable` |
| `deployments` | `MCDeployments` | `DeployTransaction` (direct / chained and legacy), `CoreUpgrade`, `ExitSelection`, `CertDelivery`, `PortAllocation`, `CfOrigin` |
| `exports` | `MCExports` | `Subscriptions`, `NodeConfigs`, `ExportGroups`, `ExternalNodes` |
| `agents` | `MCAgents` | `UsageCredentials`, `UsageCounters`, `AgentUpdate`, `AgentInstall`, `Heartbeats` |
| `panel` | `MCPanel` | `Sessions`, `Accounts`, `EventStream`, `ProbeProcesses`, `IpCheck`, `CfRanking`, `CfOptimization` |
| `progress` | `MCProgress` | liveness of all of them, and `TaskViews` |

A property of a run over several components is a conjunction of what each component's
module defines, with the part it is about:

| property | consists of |
|---|---|
| `DeploymentsSafe` | a failure leaves nothing, what was replaced can be put back, the row matches the hosts, all but for a self-signed pair; half of one is all that was changed (`HalfIsAll`) |
| `Atomic` | refinement of `AtomicDeployment` |
| `CoresKept`, `ExitReached`, `PortsApart`, `OriginSafe` | `OthersStillStart`, `Recoverable`; `PinnedWasReached`, `GivenUpAfterAll`, `NoLeftover`, `OwnAddressesKept`; `NothingPromisedTwice`, `OnlyOwnListeners`; `Claimed`, `FailsClosed`, `NotRepublished` |
| `CertsServe` | `StartsAgain`, `NeverDown`, and the step property `OldServiceOldCert` of a deployment |
| `SubscriptionSafe`, `StrictForGood` | `ProtectedStaysBehindCdn`, `StrictIsStrict`, `NoStaleErase`, `ListsHideToo`; no form loosens a strict subscription |
| `ConfigsSafe`, `LinksSafe`, `GroupsSafe`, `EditsSafe` | no downgrade, matching keys, names and certificates, no direct chain, IPv4 only; own links accepted, TLS kept; groups never direct, what a refresh was to take away is gone (`RefreshForgets`); keys, links and CDN nodes stay themselves |
| `IdentitiesSafe`, `WayBack`, `CountedOnce`, `LateChangesNothing` | `ExportedWorks`, `RemovedIsGone`, `WithinLimit`; `Recoverable`, `RunningIsWhole`; `NeverOvercounted`, `NoOvercount`; `PausedIsFrozen`, `SuccessIsNew`, `RetiredStays` |
| `PresentPasswordOnly`, `ConsumedOnce`, `EndedStaysEnded` | sessions |
| `RowsFollow`, `StreamsSafe`, `ProbesSafe`, `MeasuredSafe` | `UsesCounted`, `TagsFollowResults`; every cut of a stream; slots, cores and files; ranking, budgets, rollback |
| `ShownIsTrue`, `AgentsHeal`, `AccessFollows`, `WorkEnds` | drawers; and what comes to pass (see `MCProgress`) |

**Bounds.**  Every disturbance has a budget (faults, moves, lost sessions, edits, reports):
budgets bound the state space and are named constants of the module that uses them.  Two
handlers are enough for every hazard that is about a pair; the finding that needs three has
three.  One node suffices in `ResourceLifecycle`, because nodes only meet through server
locks, which `AdvisoryLock` treats with two; a chain node has two resources on two servers,
the case that orders deletions.  Two machines are needed only where an address can change.
The run `lone` restricts a behaviour to one kind of misfortune (an action constraint): the
kinds meet in the proofs, which have no bound.  `deployments` has three faults per edit, three
per upgrade, two per delivery, one per exit choice and one at Cloudflare, two nodes and four ports;
`exports` two nodes, two tabs, two writes; `agents` two grants and three identities, three
releases of which one is broken, three samples, three installations, one unit of traffic and two
overtaken requests (each may count again all the traffic so far, so that a unit shows it); `panel` two tokens and
requests, all texts of up to five characters, three addresses (three instances: a gain in latency of more
than 20 %, a marginal one, and one in throughput, under a view that forgets what only a rollback
reads), two panels with two batches a month.  `progress` uses smaller instances than the safety runs, because liveness needs the
whole graph.  `starve` (budgets) has no faults there, two jobs and one batch a month, which has one
day; it assumes that a paused node stays paused and that a month outlasts a round of refusals
(`StayPaused`, `LongMonths`): without these TLC finds a job that is always paused, or out of its
turn, when the budget is renewed.

Symmetry: handlers, nodes and tabs are interchangeable; only runs without liveness use it.
`CHECK_DEADLOCK FALSE`: with its budgets spent and all work finished the system may stop.
`locks` and `agents` check for deadlock.

### Mutants

A definition marked `\* mutant` is a plausible mistake in the definition after it: a dropped
re-check, an unsorted list, a way back that forgets a part, a baseline that is not kept.  The
modules do not use them.  `PROJECT.json` pairs each property of each run with one: put in the
place of the real definition, TLC finds the property violated in that run.

## Fairness

A behaviour of `MCProgress` is one of one component, so `Turn1` ... `Turn6` hold one weakly
fair action of each component, and `Luck` the strongly fair ones.

* Handlers, workers and goroutines take their next step (`WF`): remote commands, queries,
  requests and child processes have timeouts in the code, so a step ends, with a result or an
  error.
* Timers and `@Cron` ticks come (`WF`): the cleanup tick, the daily renewal, the hourly round,
  `expireStaleChecks`, `markStaleServersOffline`, leases, backoffs, probation windows, systemd's
  restarts.
* `SF` where others may take the chance again and again and the code tries again and again: a
  tick that reaches a due job, a machine that is asked again, a heartbeat that is heard
  (`Heard`), a reconciliation that gets its turn (`SyncBegin`), a delivery (`RefreshBegin`), a
  new month, once the last one's budget has been refused to all that wait (`NewMonth`).  Without them a deletion or an update would rightly wait for ever.
* None for requests of users, address changes, restored credentials, crashes and faults.
  `Runs` of `AgentInstall` assumes that operators try again (`Begin`); `NodeShows` assumes
  that from some time on no request is lost and the panel stays up, and says so in the
  property.

## Findings and deviations

Runs that show a violation:

1. `inventory`.  RUNBOOK-resource-lifecycle.md:17 promises that SSH credentials stay until
   "a final inventory is clean".  The final inventory writes its findings and counts them in
   two statements, and other inventories, which take no lock, resolve findings from an older
   listing in between.
2. `rehost`.  RUNBOOK:26 says the host-id pins later operations.  Removing a single node does
   not read it: after an IP change the wrong machine is verified to be empty and the row is
   dropped.
3. `fence`.  The scheduler's comment says the advisory lock fences live workers.  A worker
   whose lock connection broke goes on, and after the lease a second one starts the same job.

Further places where code and text disagree were met while modelling.  The modules do what
the code does, and no property claims the opposite:

* *Agent.*  A heartbeat handler that read an expired update request clears a newer one
  (`agent.service.ts:190` against its comment at 133).  `installAgent` stops the agent before
  it downloads, so a failed download leaves none (`servers.service.ts:365`); `install.sh:67`
  cannot overwrite a running executable.  An older payload that arrives after a newer one becomes the
  baseline of rates, and what went through in between is counted again (`network-rate.ts:17` against
  16): `NoOvercount` allows for each of these, and for nothing else.
* *Usage.*  A sample taken during a pause and accepted after the resumption becomes the
  baseline (`usage.service.ts:132` against RUNBOOK-server-usage.md:40).
* *Certificates.*  A push that was activated before the panel died is found unchanged later
  and the service is not restarted (`node-deploy.service.ts:1233` against
  `cert-renewal.scheduler.ts:69`).  A redeployment starts a disabled node (469 against
  `nodes.service.ts:475`).
* *Deployment.*  An unlock that fails without a connection error replaces the result by a plain
  error, and `update` restores the old row although the hosts have the new configuration
  (`advisory-lock.ts:110` against `nodes.service.ts:398`).  The legacy branch retires the old
  DNS record without waiting (`nodes.service.ts:400` against 413).  A version that cannot be
  read is taken for an old one, so that a REALITY service may run an unreviewed core
  (`node-deploy.service.ts:1606` against `cf-xhttp-core.ts:36`).
  "节点部署失败，已恢复原配置" (`nodes.service.ts:398`) is not true of a self-signed pair, which is
  made over the files that were there, a managed certificate included, with no copy
  (`node-deploy.service.ts:378`, 1564): the old service, when it is started again, serves the new
  pair.
* *Ports.*  An edit of a legacy node leaves the old statistics port recorded and gives the lock
  back before the deployment derives the new one (`nodes.service.ts:1036` against 705); so does an
  edit whose rollback failed (359) or whose panel died.  Until the next deployment that one port may
  be given to another node: `NothingPromisedTwice` says that no other ever is.
* *Node configurations.*  sing-box VLESS inbounds have an empty flow
  (`singbox-config.ts:114` against `reality.ts:4`); a blank VLESS or VMess identifier stays
  blank (`nodes.service.ts:1066` against `NodeFormModal.tsx:431`); a self-signed Hysteria2 link
  carries no `insecure` (`uri-builder.ts:94` against README.md:30); the gRPC service name is
  fixed while clients use the stored path (`xray-config.ts:246` against
  `create-node.dto.ts:60`); an update may replace one half of a REALITY pair
  (`nodes.service.ts:279`).  `NodeShapes` leaves these edits out.  The page lets a chained node become
  a Shadowsocks node of ss-libev, whose configuration knows no exit, so that its clients leave
  directly (`NodeFormModal.tsx:31`, `singbox-config.ts:199` against README.md:42): `NodeConfigs` has
  this edit, and `ChainNeverDirect` is stated of the nodes that ss-libev does not serve (`Routed`).
* *Preferred addresses.*  After a lost lock session two panels may reserve the same tests
  (`cf-optimization.service.ts:349` against RUNBOOK-cf-auto.md:63), and a node that is paused then
  may still be measured once (254, 289): `DailyCeiling` is stated while no session was lost,
  `PausedIsFree` of the cycle that holds the lock.  `MonthlyCeiling` holds regardless.
* *Links.*  The link of a CDN XHTTP node carries an ALPN (`uri-builder.ts:76`), which the parser
  drops: imported and given out again it has none.  `SameLink` says so, and that nothing else is
  lost.
* *Cloudflare origin.*  `withdraw` says that a redeployment publishes again; when the rule was
  deleted meanwhile the redeployment is refused, because the recorded id is expected.  When a
  lock session was lost, the removal of a node that was never deployed drops the row while a
  deployment prepares, and its record stays at Cloudflare: `Claimed` is stated for sessions
  that were not lost.
* *Subscriptions.*  An API client that sends the nodes alone writes relations only, so
  `updatedAt` stays, and a stale form of another tab can then take protection away
  (`subscriptions.service.ts:258`): `NoStaleErase` is stated for the forms of the page.
* *Checks and tests.*  Two reports that cross after the agent's connection broke may leave the results
  of one and the tags of the other (`ip-check.service.ts:110`): `TagsFollowResults` is stated while
  nothing broke.  A check of a deleted server ends the process by an unhandled rejection
  (`ip-check.service.ts:208` against 21); a check is failed after ten minutes though the comment
  says "indefinitely" (138 against 200); tests of external Hysteria2 nodes run past the semaphore
  (`external-nodes.service.ts:96`); two tests may pick one port and one is answered by the other's
  core (`xray-test.service.ts:323`).
* *Accounts.*  Registrations at one time may exceed the uses of a code (`auth.service.ts:84`); two
  administrators may delete each other (`users.service.ts:53`); a second change takes away a role
  that the first has given (38); an account of WeChat Work cannot set a first password (201
  against 177).  `UsesCounted` says what remains true.

## What is proved

TLAPS checks every theorem and lemma for all values of the constants that satisfy the named
assumptions of its module.  They say what the schema, the configuration or the scale of the
code ensures: an exit is not the entry's server and ids differ (`PlacementAssumption`,
`NamesAssumption`), ranks are those of a sort (`CallAssumption`), bounds are naturals,
sentinels are no members (`KeptAssumption`, `CredentialAssumption`, `OriginAssumption`,
`CoreAssumption`, `CertAssumption`, `ReleaseAssumption`, `CounterAssumption`, `SelectionAssumption`),
services report what systemd knows (`HeartbeatAssumption`), scripts are sessions too
(`InstallAssumption`), pools lie in the port range and twice the offset fits in it
(`PortAssumption`), the page sends both
flags of a subscription (`PageAssumption`), users, panels, jobs and tests are finitely many, budgets and limits naturals
(`AccountAssumption`, `BudgetAssumption`, `ReplicasAssumption`, `JobsAssumption`,
`ProbeAssumption`, `StreamAssumption`, `IpCheckAssumption`), a node's
name is no word of the configuration (ExportGroups' `NamesAssumption`, `KindsAssumption`).
Two of them say more.  `FormsAssumption` of `NodeShapes` says which identities and presets
the page's form can send: it sends no keys, short ids or paths; of protocols and implementations,
any the schema knows.  `ExternalAssumption` of `ExternalNodes` says
what the panel has checked of its own nodes, and that only the link of a stream names a
security.  TLC evaluates all of them with the runs.

| module | theorems | inductive invariant |
|---|---|---|
| `ResourceLifecycleProofs` | `TypeCorrect`, `IdentityNeverReplaced`, `ArtifactsStayPinned`, `ServicesOwned`, `CredentialsStay`, `FinishedJobsClean`, `FinishedJobsStay`, `RemovalsApproved` | `TypeOK` with `Control`, `Pinned`, then `OwnInv` |
| `AdvisoryLockProofs` | `LocksTakenTogether`, `AscendingNeverCircular`, `FencedResults`; `ProbesAreSafe`; `LinksAreKept`, `LinkComesBack`, `LinkSettles` | client's and server's lists agree, keys ascend; whose the slots, cores and files are; what a link that went round was built from |
| `DeployTransactionProofs` | `DeploymentsAreSafe`, `OldServiceKeepsCert`, `DeploymentsAreAtomic`; `CoresAreKept`; `CertsAreSafe`; `ExitIsSafe` | how far the deployment and its way back have come; what each step of an upgrade, a delivery, a choice may rely on |
| `PortAllocationProofs` | `PortsStayApart` | claims are exclusive, what an allocation read is still true |
| `CfOriginProofs` | `OriginIsSafe`; `GroupsAreSafe`, `RefreshesForget` | what a handler may rely on at each step; where the groups of the client's file lead |
| `SubscriptionsProofs` | `SubscriptionsAreSafe`, `StrictStaysStrict`; `EveryUseIsCounted`; `MonthIsPaid`, `DayIsPaid`, `PausedCostsNothing`; `ConfigsAgree`, `CdnIdentity`, `KeysStay` | what tabs have read against the row; uses against accounts; what was reserved against what is billed; the shapes a row can have |
| `UsageCredentialsProofs` | `IdentitiesAreSafe`; `BytesCountedOnce`, `PausedStaysFrozen`; `WayBackExists`, `AlwaysSupervised`; `TrafficCountedOnce`, `DeletedStays`; `InstalledIsWhole`, `SuccessReported` | what a reconciliation knows of the rows; a history of what was read when; what lies beside an unproven release |
| `PanelProofs` | `TypeCorrect`, `SessionsOfToday`, `OneLogin`, `NoReturn`; `DrawersAreTrue`; `StreamsAreSafe`; `TagsFollow` | what was signed or read is not newer than the account; whose the controller is; what is kept of a text; what the row and the tags were written from |

* **Resources.**  `TypeOK` is not inductive: `Peer(w)` is a machine only because of the `pc`;
  `Control(w)` ties a handler's `pc` to its target and its connections.  No two machines have one
  identity (`MarksApart`), although it is drawn, written, read back and recorded in steps of their
  own.  `PinnedArtifacts` needs
  `Pinned(w)`: past its identity check a handler has connections only to recorded machines,
  and its rollback points come from there.  It holds with lost locks as well.  The others are
  stated for "no lock session was lost so far", and come from `OwnInv` in three layers.
  `LockInv`: no lock is held twice, and a handler at work holds that of its node, of its job's
  node, or the ports of the server it creates on or retires.  So no two handlers work on one
  node, and what a handler has established stays true while others step (`OthersSound`).
  `Agreed` ties the tables together: a job exists only for a removed node, every unit has an
  owner, a DONE job left nothing.
* **Locks.**  A live session owns exactly what its client has listed, a call takes keys in
  ascending order, and a working call has listed all it wants: hence the refinement.  Under
  `Ascending(height)` no ring of calls waits for itself, by the call of a ring whose wanted key
  is highest.  Sorting gives a height to all call sites but the deployment nested in an update,
  where the run `progress` has the circle that a timeout ends.  A lost session implies a key that
  cannot be unlocked, so no result is reported for it.
* **Deployment.**  Before it fails, the parts a deployment has passed are new and the others old;
  once it takes back, a part it holds no more is old, unless an answer was lost or the failure was
  flagged, and each file that is not old has its copy.  From that follow `DeploymentsSafe`, the
  order in which the old service gets its certificate back, and, step by step, the refinement of
  `AtomicDeployment`: the initial states map to `Old`, each step to `Work`, to `Reply` or to a
  stutter.  A self-signed pair has no copy and no way back: `Half` says that a deployment that broke
  off within it had changed nothing else, and the theorems name it as the exception it is.
* **Ports.**  An allocation reads rows a step before it inserts one.  The invariant says that no
  claim of one node is another's or a cleanup's, that what listens on a claim is the node's own or
  foreign, and that what an allocation read still contains every claim of others at its server
  (`Knows`).  The last is kept because whoever adds claims holds the lock of each server it adds
  them to (`Apart`), and because a deployment, which takes no port lock, claims nothing its row did
  not claim: a recorded statistics port is the derived one (`Recorded`).  A node whose edit no
  deployment completed has no such guarantee (`loose`); all that is said of rows is therefore said of
  what is `Firm`: listen and exit ports always, the statistics port unless the node is loose.  Lemmas
  say what a row claims after its statistics port is recorded (`WithStatsClaims`, `WithStatsFirm`) or
  its listen port moved (`MovedClaims`, `MovedSound`), that listeners are at claims (`SocketsClaimed`), and that every pool offers what
  fits (`OfferedFits`).
* **Cloudflare.**  While no session was lost a handler is alone at its node, knows what it has taken
  away, and will not write back a route older than a withdrawal; and always, what it has verified
  was not wrong.
* **Subscriptions.**  Every tab's snapshot is an earlier row: what it will write can add protection
  but not remove it, as long as it sends both flags or the row did not change since.
* **Identities.**  Nobody but the reconciliation under way creates, revokes or installs an identity,
  so what it wants is still what the rows say; the file it would take back serves what clients were
  given and nothing removed; a download is alone and the room it counted is still there.
* **Panel.**  A version that was signed or read is not newer than the account's, and one as new has
  its password: so a change makes all others old.  A drawer's controller belongs to the task the
  drawer was opened for.
* **Core.**  `CoreInv` adds to the types that no binary is missing while one is replaced, and that
  the copy kept for the way back is of a version which every node of the server accepted.
* **Certificates.**  `CertInv` says, node by node, what the files and the copy beside them hold at
  each place of a job; nodes only share the panel's store.  A self-signed pair may be half made, in a
  job that was interrupted or a node that was flagged.
* **Exit.**  No candidate is forgotten and none is probed twice in a round, so a round that ends has
  probed all.  That `Candidates` are distinct is the hypothesis `CandidatesDiffer`: it is a fact about
  `SelectSeq` on every sequence, an induction over data, and TLC evaluates it with the run.
* **Counters.**  Types and order of samples are not enough to bound what is recorded.  `CountInv`
  and `BeatInv` claim a history: how much had been moved when each sample that is still under way,
  each handler's and each baseline's was read.  A counter that was read later is never ahead of the
  traffic in between (`Follows`, `ReadAfter`), and a request that may still be sampled was composed
  after the baseline (`ReadAbove`).  The history is an existential, so the model keeps no variable
  for it.  Heartbeats may overtake each other: these facts are claimed of the requests that none has
  overtaken (`Prompt`, `InOrder`), and each other one that is sampled adds the traffic so far to
  `again`, which pays for whatever its baseline makes count once more.
* **Agent.**  While a release is not confirmed, the one before it lies beside it and no step takes it
  away.  `AlwaysSupervised` has the hypothesis `~CanReboot`: the rollback timer is a transient unit,
  which does not outlive a boot.  An installation that is past its download works on a
  file that is not the old one, and a file that is still written to is no executable.
* **Accounts, budgets, tests, checks.**  A use of a code is written in one transaction with its
  account, so the counter is the number of accounts ever made with it.  `CfOptimization` needs what a
  cycle has reserved and not called yet beside what was billed; `DayIsPaid` only holds while no
  lock session was lost, because the day's budget is read and written in two steps.
  `PausedCostsNothing` needs that a node can be paused only while nobody holds the lock, and that a
  cycle holding it has kept it since it read the pause (`PauseInv`): so the answer is still true
  several awaits later.  Slots that are
  counted are those of tests under way, one that is handed over included.  While nothing broke, at
  most one handler is under way, it is about the agent's run, and only between its two writes do the
  tags differ from the row (`ByAgent`).
* **Event streams.**  What was kept is bounded because a piece is only appended to lines without an
  end; success was said because it is an event of the text.  Which events another cut would give is
  not proved.
* **Configurations.**  `ConfigsAgree` is about the row: a shape some core speaks, keys that are a
  pair, a name of the zone where the certificate is the zone's, IPv4-only on Xray alone.  What
  servers and clients are told follows from the row, format by format; nodes that ss-libev is to
  serve are outside of the clauses on chains and security.  Proving it showed two
  operators of which TLC took the first of several arms that fit, where the code's `if`s have an
  order: these are nested conditions now.
* **Groups.**  A group has members of its own node or REJECT, selectors lead to names below them
  (entries, groups, auto, select), so every walk from a name ends in entries within three steps
  (`Descends`), and none of a protected node is DIRECT.  `ForgetInv` follows what a client holds between a refresh
  and the next change of its node: what the panel offers, or the word that stands for nothing.
* **Links.**  A node is *stored* when its fields are ones the parser leaves, and *settled* when the
  name that will take the place of a missing one is the one its link has.  A stored and settled node
  comes back with the same link but for its ALPN (`RoundTrip`, `Short`), which no imported node has
  (`NoAlpn`); the panel's nodes are both, and any accepted link is
  settled after it was imported twice (`ParsedStored`, `OnceSettles`).

Only model-checked:

* liveness (`fair`, `progress`): fairness and ENABLED are out of the prover's reach;
* `EveryCut` of `StreamsSafe`, the `CfRanking` part of `MeasuredSafe`, `OwnAddressesKept` of
  `ExitReached`, and the type invariants that `TypeOK` names where no theorem needs them.  What a parser, a filter or a sort
  computes for every input is an induction over data.

The runs `deployments`, `exports`, `agents` and `panel` combine several components in one
property (`ConfigsSafe`, `RowsFollow`, ...); the theorems above state the parts, component by
component.

## Not modelled

`not_modelled` in `PROJECT.json`: metrics, audit and operation log (append-only records);
openrouter, recommends and wxwork (thin clients); the router plugin (a shell service of its
own).  Within modelled components: what the sections above name, wording and layout of formats,
progress messages, firewall syntax, queries and listings.

## Plan

* `CfRanking` and `EveryCut`: what a sort, a filter or a parser computes for every input, from a
  definition without recursion.
* Quotas of users and the rules of subscriptions, which have no model yet.
* Metrics and the operation log stay out: records that are only appended.
