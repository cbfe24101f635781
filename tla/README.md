# A TLA+ verification of the CVX control plane

CVX sells VPS on LXD hosts. A FastAPI control plane (`apps/api/app`) keeps the
rows in PostgreSQL (SQLite in tests) and calls an agent
(`services/node-agent/cvx_agent`) on every host; the agent drives LXD and posts
a heartbeat every 30 seconds. Almost everything that can go wrong does so
between two transactions, or between a transaction and a call: a handler reads
a row, awaits the node for up to fifteen seconds, and writes what it decided
about a row that others have changed since.

## 1. The system

| Component | State | Operations | Interacts with |
|---|---|---|---|
| VPS rows (`services/vps_service.py`, `routes/vps.py`) | `vps.status`, `ipv4`, `updated_at` | prepare, provision, fail, start/stop/restart/shutdown, delete, update, config | pool, worker, node calls, heartbeat |
| Address pool (`routes/networks.py`, `models/network.py`) | `ip_addresses.status`, `vps_id` | claim (in prepare), free (failure, deletion, sweep), reserve, release | VPS rows |
| Provisioning worker (`services/provisioning.py`) | job rows; in memory a queue, a semaphore, tasks | start, stop, enqueue, pump, run, recover | VPS rows, node calls |
| Heartbeat reconciliation (`services/node_service.py`, `cvx_agent/heartbeat.py`) | – | inventory, post, reconcile, sweep | VPS rows, pool, node |
| Node identity (`services/node_service.py`, `routes/nodes.py`) | `nodes.status`, credential; token rows | create, token, rotate, maintenance, disable, remove, enroll, authenticate | agent |
| Node agent (`cvx_agent/*`, `cvx-install.sh`) | credential file, process; LXD's instances | enroll, serve, instance operations | control plane, LXD |
| Sessions of the database (`db/session.py`) | open transactions, row locks | load, flush, commit, rollback | everything above |
| Local compute (`services/local_capability.py`, `providers/local_lxd.py`) | the cached capability and its lock; the one local node row | probe, invalidate, refresh, register the node | LXD's socket, VPS rows |
| Console (`routes/console.py`, `cvx_agent/server.py`) | the counter of open consoles; per console two pumps, a revalidation task, a stop event; on the agent a shell | connect, relay, revalidate, expire, hang up | sessions, agent |
| Accounts, sessions, API keys (`services/auth_service.py`, `apikey_service.py`, `routes/users.py`) | user, session, key rows | bootstrap, login, logout, change password, create and update users, create and revoke keys | all routes |
| Backups (`routes/snapshots.py`, `cvx_agent/lxd.py`) | backup rows; archives on the node | create, restore, delete | node, VPS rows |
| Rate limiter | Redis counters | count, expire | all routes |
| Job stream, images, logs, metrics, admin, UI, migrations | – | reads, appends, presentation | – |

What is hard here, and what correctness means:

- **stale writes.** `autoflush=False`, `expire_on_commit=False`, READ COMMITTED:
  the ORM writes by primary key the attributes that differ from the values it
  *loaded*. A handler overwrites what was committed in between, and does not
  write at all when the new value equals the loaded one. Addresses must
  nevertheless have one holder, jobs must not leave their terminal state, a row
  must not say `deleted` before the node did it.
- **calls.** The client gives up after 15 s, LXD may take 60: a call can fail and
  still be served, before or after whatever is done about its failure.
- **crashes.** Jobs are found again, calls are not; instances may exist already.
- **reconciliation.** The inventory is old when it arrives, the rows are read
  twice and written at the commit: it must converge and must not touch what an
  operation in flight owns, nor leave anything stuck.
- **the worker's memory.** A job is enqueued before it is committed, may be
  enqueued twice, and is dropped by a full queue or a stop.
- **enrollment.** Tokens are single-use under races; rotation, disabling and
  enrollment read the node and write it later.
- **accounts.** Logins, password changes, demotions and revocations work on rows
  they loaded before somebody else's commit: ended sessions must stay ended, and
  the account must keep the password last set.
- **consoles.** A console outlives the request that authorised it by hours, in two
  processes: it must end with its rights, be uncounted once, and take its shell
  with it, also when the link breaks while the shell is being started.
- **archives.** A backup is a row here and a file there, made in one transaction
  with a call that may fail, be lost or be served late.
- **the shared probe.** Every request for the local capability waits for one probe
  behind one lock, while a refresh empties the cache without it.

`PROJECT.json` lists the hazards at their lines, each with the property that
would catch it or the reason there is none.

## 2. The modules

| Module | Models |
|---|---|
| `VpsControl` | VPS rows, pool, job column, API requests, runs, calls, LXD instances, heartbeats, crashes of one node |
| `AddressPool` | what the pool promises a VPS: an address nobody holds, one at most, its own until it is given back; `VpsControl` implements it |
| `VpsControlProofs` | the proofs about `VpsControl` |
| `JobWorker` | the worker's queue, delayed tasks, pump, semaphore, runs, stop and recovery |
| `JobLifecycle` | what a client of `GET /jobs/{id}` is promised; `JobWorker` and `VpsControl` implement it |
| `NodeEnrollment` | one node's row, its tokens, the administrator's requests, enrollment, the agent's credential |
| `Accounts` | users, sessions, keys: login, logout, password change, bootstrap, user creation and update, expiry |
| `Credential` | what a session or a key promises: one user, and the end is final; `Accounts` implements it |
| `Console` | the consoles of the users, their counter, the relay and its three tasks, the agent's bridge and shell |
| `Backups` | backup rows, the calls that make, restore and delete archives, the archives |
| `LocalCompute` | the capability probe, its cache and lock, the refresh, the local node's row |
| `JobWorkerProofs`, `NodeEnrollmentProofs`, `LocalComputeProofs`, `AccountsProofs`, `BackupsProofs`, `ConsoleProofs` | the proofs about these modules |
| `MC…` | instances for TLC (symmetry sets) |

The modules are independent: each takes from the others what its component reads
of them (`Console` has sessions that end and VPS that are deleted, `Backups` VPS
that are deleted, `JobWorker` what `provision_vps` makes of a VPS).

### VpsControl

*State.* `status`, `ipv4`, `aged`, `ipStatus`, `ipOwner`, `job` are the committed
columns; `aged` stands for `updated_at < now - 30 min`. `task` holds one record
per asyncio task: the operation, the statement it has reached, and everything it
read and will use later (`loaded`: the status loaded, or the address's status;
`vps`: also the `vps_id` loaded by an address request; `ips`: the addresses
selected to be freed). `hb` is the heartbeat in flight: the inventory and the
decisions. `inst` is LXD, `late` the calls nobody waits for any more, `created` a
history variable.

*Actions.* A handler is one action per transaction boundary and per await:

| Code | Actions |
|---|---|
| `POST /vps`, `prepare_vps` | `PrepareVps` (capacity, select), `CommitCreate` (claim and commit), `LoseClaim` |
| `_execute`, `provision_vps` | `StartRun`, `ClaimJob`, `ProvisionInSession`, `CommitProvisioned`, `FailVps`, `MarkProvisionFailed`, `Finish` |
| `DELETE /vps/{id}` | `DeleteVps`, `FlushDeleting`, `CommitDelete` |
| `POST /vps/{id}/{action}` | `LifecycleAction`, `CommitLifecycle` |
| `/ips/{id}/reserve`, `/release` | `ReserveIp`, `ReleaseIp`, `CommitIp` |
| agent and LXD | `NodeServes`, `NodeServesLate` (what each call may do is `Effects`) |
| `AgentClient._request` | `CallTimesOut`, `CallReturns` |
| heartbeat | `HeartbeatInventory`, `Heartbeat` (`Reconciled` is the decision), `CommitHeartbeat`, `LoseHeartbeat` |
| time, process | `Age`, `Crash` |

`WriteStatus` is the ORM's rule for a write. `RowFree` is the lock `delete_vps`
gets by flushing DELETING before it calls the node: every other writer of the row
waits, and a failed deletion is rolled back, so DELETING and the ERROR of its
exception handler are never committed. `AddrFree` is `SELECT … FOR UPDATE`, which
SQLite ignores (`ForUpdate = FALSE`). `Fits` is the capacity check, `Refused` the
requests that end with nothing written when their call was not answered well.

*Abstract machines.* `KeepsPool` is `AddressPool!Spec` under `holder <- ipOwner`: in
no interleaving is an address given away under its holder, nor a second one to a VPS;
one step may give back several, as the sweep and an abandoned failure could.
`KeepsLifecycle` is `JobLifecycle!Spec` under `job <- job` with a job for each VPS.

*Abstractions.* Each VPS asks for one unit of disk and the other limits are not
there. start stands for restart and stop for shutdown, which end in the same
states. FROZEN and instances in LXD's error state are left out. `vps.ipv4` is the
static address; the DHCP address a run may record later is not kept. The reads
of one request are taken together, which includes the two reads of a row by
the heartbeat. One node; the pool is its addresses. LXD finishes an operation
before it answers, or answers with an error at any point of it.

### JobWorker and JobLifecycle

`delayed` counts the 0.3 s tasks that will put a job on `queue`; `run` are the
`_run` tasks; `request` tells whether the create request of a job is still
uncommitted, since `enqueue` is called before the commit. A commit may take longer
than the 10 s that `_wait_for_row` polls, and the queue may be full: both end with an
error in the log and the job left to the next start, which is the history variable
`dropped` (of this process; a stop empties it). `Create` keeps of `provision_vps`
what decides a run's outcome. `Stop` is both `stop()` and the death of the process:
what was in memory is lost either way.

`JobLifecycle` is the abstract machine none → queued → running →
succeeded | failed of one column. `JobWorker!KeepsLifecycle` is
`JobLifecycle!Spec` under the identity mapping of `job`: the conditional claim
and the terminal check make late and duplicate runs stutter.

### NodeEnrollment

One node. `status` and `cred` are its row, `issued`, `used`, `revoked`, `expired`
its tokens, `task` the requests in flight with what they loaded, `file` and
`proc` the agent's credential file and the credential its process has read.
Administrators' requests are `LoadAdmin` and `CommitAdmin`; enrollment is
`LoadEnroll` (through `RunInstaller` or `RunEnroll`), `ClaimToken` (the
conditional UPDATE, whose row lock lasts until the commit) and `CommitEnroll`.
A heartbeat is `LoadBeat`, `CommitBeat`. `Expire` is time. Credentials and tokens
are random, so their order makes no difference and `Picked` takes a fixed one.
OFFLINE is computed and never stored; `last_heartbeat_at` is left out with it.
`remove_node` is enabled whenever the node is there: its count of hosted VPS
belongs to `VpsControl`.

### Accounts and Credential

`role`, `status`, `hash` are the users' rows; a hash is a password and whether it
was made with the current parameters, which a login replaces when it was not.
`cred` says for each session and key whom it speaks for, or that it has ended.
A request is a load step, whose record keeps the actor's rank and what it will
write, and a commit; `revoke_all_sessions` is a statement of its own (`DeleteSessions`)
between the two. `raced` in a task's record is history: since a login read the
password, or an update its lockout guard, another commit has changed that password,
or the role or the status of an owner. `LoadUse` and `CommitUse` are what every request
made with an API key does besides its own work: it loads the key's row and writes
its `last_used_at` at the commit, revoked meanwhile or not. `RoleAllowed` and `LastOwner` are the guards of
`update_user`; `CommitBoot` is `ensure_owner_account`. Emails are the identities
of users (`Insertable` is their uniqueness). A body of PATCH carries at most
`MaxFields` of role, status and password.

`Credential` is the abstract machine of one identifier: unissued, then held by one
user, then ended. `KeepsPromise` is its specification under `holder <- cred`: no
interleaving of logins, changes, revocations and late writes of a key's
`last_used_at` brings an ended credential back or passes one to another user.

### Console

Per console: `pc` (set-up, dial, relay, closed), the user and VPS, the connection
to the agent (`link`), the frame on its way, and the agent's `shell`. `active` is
`_active_consoles`. `Connect` reads the counter, `Admit` is the commit, after which
the console is counted; `raced` is history: another set-up was under way.
`Close` is the handler's finally. The three tasks of the relay are the actions
`BrowserLeaves`, `AgentLeft`, `Revalidate`, and their wait's timeout is
`LifetimeEnds`. A local console (`Local`) returns before the revalidation task
exists and before the `finally` that uncounts: `LocalEnds`. The agent's side is
`Spawn`, `ReadFrame`, `Hangup`, `ShellExits`. Output, sizes and the shell's own
behaviour are left out.

### Backups

`row` are the committed rows, `node` the instances, their data (whose data an
instance has) and their archives by VPS and name. A request flushes or loads its
row, waits for its call, and commits or is rolled back (`CallFails`, `CallTimesOut`,
`CommitFails`): the handler's `status = FAILED` never reaches the database, since the
exception rolls its transaction back. `late` are calls whose client has gone,
which the agent may serve. `ServesDelete` asks every instance, in any order, for
the name and deletes the first it finds. `used`, `tried`, `failed` are history: the
names asked for, the deletions tried, the calls or commits that failed.
The agent's archive is found by its name; a local VPS has no path, so its backups
can never be restored and are left out.

### LocalCompute

`host` is LXD as the probe can find it; it changes between any two calls. `cache`
has the state, whether its time to live has passed, and, as history, which of the
requests in flight had asked when it was probed (`after`). `waiting` is asyncio's
first-come first-served lock. `BeginRefresh` empties the cache; `CheckRefresh` looks the
row up, and waits for the lock or, without a socket, refuses the request, the cache
being empty by then.
`PoolsSeen` is the list the probe makes from keys that LXD's replies do not have: it is
empty. `InsertRow` to `CommitRow` or `RollbackRow` is an open transaction with the
inserted row; `InsertIsFree` is the unique name, which makes a second insert wait
and then fail. The local node cannot be removed (`remove_node` refuses it), so the
code that revives a removed one never runs and is not modelled.

## 3. What the runs check

Every property is broken by a seeded fault (`PROJECT.json`, `mutants`): the
operators whose comment begins with "Seeded fault" are those faults and nothing
uses them.

| Run | Instance | Shows |
|---|---|---|
| `VpsPool` | 2 VPS, 2 addresses, 2 tasks, `FOR UPDATE` ignored; create, provision, delete, reserve, release | the conditional claim alone keeps pool and rows in agreement (`OwnerAgrees`, `DeletedHoldsNoAddress`), and the pool implements `AddressPool` (`KeepsPool`) |
| `VpsRuns` | 2 VPS, 1 address, 2 tasks; create, provision, delete, crash, timeout | pool consistent, jobs honest, `JobLifecycle` implemented, failures give everything back, DELETED only after the node did it |
| `VpsReconcile` | 1 VPS, 1 task; everything but crashes and the administrator | reconciliation spares fresh rows; a deletion that nothing under way can undo is final; PROVISIONING ends; drift heals. No deadlock |
| `VpsTasksEnd` | 1 VPS, 2 tasks; create, provision, delete, timeout | every request and run ends, although they wait for one another's locks and the node may never answer |
| `JobWorker` | 2 jobs, 3 runs, 2 permits, a queue of one place, one stop | queued jobs on their way or given up aloud, no VPS left PROVISIONING without a run (`NoneAbandoned`), `JobLifecycle` implemented, every job that is not given up settles its VPS |
| `NodeEnroll` | 2 tokens, 2 credentials, 2 requests | single use, revocation waits for a claim, retired credentials stay retired, PENDING heals |
| `Accounts` | 2 users, 2 sessions, 1 key, 2 passwords, 2 requests | a password change ends every older session; no owner is left only by a race; ownership is granted by owners; a login undoes a password change only by a race; `Credential` implemented |
| `Console` | 1 user, 2 consoles, 1 VPS on an agent, 1 local; one stop | the counter is exact for agents' consoles; the cap is passed only by overlapping set-ups; lost rights and the lifetime close; no orphan shell |
| `Backups` | 2 VPS, 2 names, 3 rows, 2 requests, 1 late call | with unique names, a completed backup has its archive, restores bring the VPS's own data, archives are listed unless a call failed |
| `LocalCompute` | 2 requests; LXD in any of four states | a refresh answers, and leaves, nothing older than itself; the lock is passed on (`NoLostWakeUp`); every request is answered. No deadlock |
| `VpsDuplicate`, `JobNeverFails` | as `VpsRuns` with heartbeats; as `JobWorker` | the two disagreements below that a run refutes |

*Bounds.* Two VPS and one address are the least that let an address change hands
and be fought for, and in `VpsPool` a second address is there to be held by mistake; two
tasks the least that race; a third party, the heartbeat,
is not a task. Each VPS row is created once, so a run ends when the identities are
used up: that is why deadlock is not checked in `VpsPool`, `VpsRuns`,
`VpsTasksEnd`, `NodeEnroll` (tokens) and `JobWorker` (jobs); `VpsReconcile`, where
heartbeats never stop, checks it. `MaxLate` bounds the abandoned calls: 0 in
`VpsPool` (no timeouts) and in `VpsRuns`, where a client that gives up, or dies,
has lost the answer of a call that was served (a call that fails without effect
is one of `Effects`), and service after the client gave up is left to the proofs,
which are for every `MaxLate`; in `VpsReconcile` it is 4 and is never
reached, and late service is part of the run; in `VpsTasksEnd` it is 2, one for
each task. Three runs
and two permits let two runs of one job, and of both jobs, work at a time while a
third waits. `MaxStops` is 1: a second stop meets nothing that the first does
not. `QueueMax` is 1 of 1000, so that two jobs fill the queue. `Capacity` is the number of VPS wherever it is not what
the run is about. `Accounts`: two owners or two administrators, two sessions so that
one can be made while the other is ended, two passwords so that one can come back;
`MaxFields` is 1, since the fields of a PATCH are checked and written one by one; deadlock
is not checked because the identities are used up. `Console`: two consoles of one
user against a cap of one let the cap be raced and a local console hold the place of
an agent's; the counters of two users are different keys and do not meet.
`Backups`: three rows of two names let a name be used again after its row is gone; the
constraint `NamesUnique` stops at the states in which two VPS have used one name: the
properties say nothing there (each begins with `NamesUnique =>`), and no such state
leads back, so that no check is lost. `LocalCompute`: two requests are prober and
waiter, refresh and prober, or two inserts; it never stops and deadlock is checked.

*Environment.* `Env` says which requests and faults an instance has; the proofs
are for every `Env`.

*Fairness.* asyncio runs every task that can run; a database grants a lock in
turn, so steps that wait for a row have strong fairness. Nothing is assumed of
the node: `NodeServes` is not fair, but a client gives up after its timeout
(`agent_timeout_seconds`), so `CallTimesOut` or `CallReturns` happens. The agent
posts every 30 s and swallows errors: inventories are weakly fair, deliveries
strongly (not every post is lost). Time passes (`Age`). In `JobWorker` the service
is restarted and the semaphore wakes its waiters in order. In `NodeEnrollment`
systemd restarts the agent, not every request fails, and the operator repeats the
install command. In `Console` the two event loops run what can run, a revalidation
does not fail for ever, and a broken connection is noticed (websockets' pings); the
four hours are assumed to pass only where the property says so. In `LocalCompute`
every step of a request is fair, since every call of LXD has a timeout, and
inserts are strongly fair: the end of the transaction they wait for wakes them. No
fairness makes users or administrators send requests.

### Where code and documents disagree

A run refutes two of them; the others are definitions under "What the
documentation says and the code does not keep" in the module named, which TLC
refutes when they are made an invariant or a property of the module's instance,
or follow from the lines named.

| Where | The documents say | The code does |
|---|---|---|
| run `VpsDuplicate` | claims keep the pool consistent (docs/ARCHITECTURE.md:91, docs/V1_GAP_AUDIT.md:57) | a failed VPS gives its address back, keeps it in its row, and is revived by a heartbeat while another VPS has the address |
| run `JobNeverFails` | the caller marks the job failed (vps_service.py:174) | the UPDATE writes NULL into a NOT NULL column and is refused |
| `VpsControl!DeletedIsFinal` | … → deleted (docs/ARCHITECTURE.md:70) | runs, lifecycle requests and heartbeats write over DELETED |
| `VpsControl!WithinCapacity` | disk capacity is enforced (tests/security/test_capacity.py:1) | two creates pass the check together |
| `VpsControl!RerunIsIdempotent` | re-enqueueing is idempotent (provisioning.py:9) | the second run meets the first one's instance and fails the VPS |
| `NodeEnrollment!InstallerReenrolls` | re-running the installer repairs; a token re-enrolls after a rotation (docs/NODE_AGENT.md:24) | the installer skips enrollment when a credential file exists |
| `NodeEnrollment!RotationInvalidates` | rotation invalidates the previous secret instantly (docs/SECURITY.md:41, docs/ARCHITECTURE.md:105) | a rotation that loaded a node without a credential writes none, so the credential of an enrollment that commits under it stays valid |
| `Accounts!OwnerRemains` | the last active owner cannot demote or disable themselves (docs/SECURITY.md:29, docs/PRODUCTION_READINESS.md:18) | two owners who do so at the same time each count the other |
| `Console!InputReachesShell` | JSON frames are relayed toward the agent (docs/ARCHITECTURE.md:110) | console.py:245 relays what the browser sends as it is; the agent parses every frame as JSON, and the first that is not ends the shell |
| `Backups!DeletesOwnArchive` | the control plane always names backups uniquely (cvx_agent/lxd.py:337) | names are the user's, or the second of the day, and unique at most per VPS: a deletion may take another VPS's archive |
| `LocalCompute!WholeHostIsReady` | READY: everything needed is in place (local_capability.py:15) | the lists of pools and networks are read from keys the replies do not have (they are under `metadata`), so no probe answers ready and the host is never available |
| vps_service.py:278 | the claim prevents "Duplicate IP assignment" (docs/V1_GAP_AUDIT.md:57) | a failure or deletion frees the addresses it has *selected*, at its commit: when its VPS was deleted in between and another VPS was given the address, that VPS loses it while it runs. The theorem `AddressesLostOnlyByRace` says that this, and the administrator, are the only ways |
| routes/auth.py:109 | users have a self-service reset flow (docs/OPERATIONS.md:55) | the token is discarded: no reset can be confirmed |
| console.py:220 | consoles are revalidated and bounded (console.py:3-6, :40) | a local console is neither revalidated nor uncounted: each one opened uses up one of the user's places until the restart |
| snapshots.py:214 | completed backups can be restored | a local backup has the path "" and is refused |
| routes/vps.py:107 | resource changes are applied to the provider first (routes/vps.py:90) | `disk_gb` is written to the row without a capacity check and without a change on the node |

## 4. What is proved

`VpsControlProofs` proves with TLAPS, for every set of VPS, addresses and tasks,
every capacity and environment, from `ConstantsAssumption` alone (the null values
are not members of the sets, the bounds are naturals):

- `TypeCorrect`, `OwnersAgree`, `DeletedHoldNone`: `Spec => []P` for `TypeOK`,
  `OwnerAgrees`, `DeletedHoldsNoAddress`;
- `PoolImplemented` (`KeepsPool`) and `LifecycleKept` (`KeepsLifecycle`): the two
  refinements. Every step gives back some addresses, grants one, or leaves the owners
  alone; and ends or claims a job, or leaves it;
- `DeletedAfterTheNode`, `ReconciliationSparesFresh`, `FailuresFree`: the action
  properties of the same runs.

None of the safety properties is inductive. `Inv` adds to them what the code
relies on silently:

- `TaskShape` – what a task's record can hold at each statement;
- `RowsExist` – a task works on a row that exists, unless it is creating it, and
  `CreatesAreNew` – a create's row does not exist before it commits;
- `NeverDeleting` – DELETING is never committed (the flush is rolled back or
  overwritten in its own transaction). Hence the sweep's completion of a deletion
  never fires, and no heartbeat makes a row DELETED;
- `BeatWrites` – what a heartbeat has decided about a row it may still change,
  although the row moved on since it was read;
- `FreesAll` – the addresses a deletion or failure has selected cover those its
  VPS holds when it commits: nobody gives an address to a VPS after its creation;
- `DeletionConfirmed` – a deletion at its commit has the node's answer.

The proof that `Next` preserves them (`Invariance`) has a step per action and
under it a step per conjunct the action disturbs; the action properties follow
from `Inv` in the state before the step.

- `SuccessIsReal` (`SucceededWasCreated`) rests on a second invariant, `Evidence`:
  whatever says that an instance runs – LXD, a row, a heartbeat's inventory or
  decision, the answer to a call – says so of an instance that has run;
- `LifecycleKept` rests on `Claimed`: a run past its claim works for a job that is
  RUNNING or SUCCEEDED, whatever other runs of the job have done since;
- `PoolKept` (`PoolConsistent`) is for environments without the administrator's
  reserve and release, with which the equivalence is not meant to hold.

Five more theorems there state what no run checks, since they follow from the
invariant or explain what a disagreement of section 3 can do:

- `DeletingIsNeverSeen`: DELETING is never committed, so that the branch of the sweep
  that completes a deletion (node_service.py:266) is dead code;
- `SweptKeepTheirAddresses`: hence a heartbeat never gives an address back;
- `ProvisioningIsNeverResumed`: PROVISIONING comes once in the life of a VPS;
- `InstancesAreKnown`: every instance, and every one that an abandoned call may still
  make, has a row that leads to it;
- `AddressesLostOnlyByRace`: an address leaves its holder only by the administrator's
  request, or by a failure or deletion of a VPS in whose row it stands. Its invariant,
  `SelectedCarried`, says that the addresses a task has selected stand in the row of its
  VPS, which keeps them when it gives them back;
- `SettledIsFinal` (`DeletedStaysSettled`), `SettledStaysDeleted`: DELETED is not final by itself (section 3), and it is from the
  moment when nothing is left that began before: no run or lifecycle request at its
  call or its commit, no abandoned call that may create the instance, no heartbeat that
  reports it or has decided on its row. Runs of its job that begin later, other
  deletions, sweeps and crashes then change nothing.

The other proof modules are built in the same way, each from its module's named
assumption. Three assumptions are there beyond the null values: the runs of the
worker (`Slot`) and the consoles are finite sets, so that they can be counted, and no
user is called `"ended"`.

| Module | Theorems (property) | What the inductive invariant adds |
|---|---|---|
| `JobWorkerProofs` | `TypeCorrect`, `LifecycleKept` (`KeepsLifecycle`, the refinement), `NoneLostInSilence` (`QueuedIsOnItsWay`), `NoVpsAbandoned` (`NoneAbandoned`: a VPS shown as PROVISIONING has a run that decides on it, or is on its way to one) | `NotYetThere`: a job is not in the table before its request commits, so a commit is a submission; `Claimed`: a run past its claim has a job that is RUNNING or SUCCEEDED, so that a late end is one step of the life cycle or none. `NoneLostInSilence` needs `OpenInHand`, that the job of an open request is already in somebody's hands, and `Seen`, that a run past its wait has seen the row; `NoVpsAbandoned` rests on it (`HandedOn`: a step that takes a job on hands it to the run that decides) and needs `Decided`: a VPS is PROVISIONING only while its job is not ended, and a run that is done with its VPS has decided on it |
| `NodeEnrollmentProofs` | `TypeCorrect`, `TokensAreSingleUse` (`SingleUse`), `ClaimsHold` (`ClaimHolds`), `RetiredCredentialsStayDead` (`RetiredStaysDead`), `CredentialsAreEarned` (every credential of the row, the file or the process was given for a used token), `RemovedIsForGood` (a removed node comes back only through a request that had loaded it before; each one that does so is then done, and no new one begins), `OnlyAdministratorsReadmit` (with none of the host's requests in flight, a node that is shut out is let in by an administrator only) | `TaskShape`: only enrollments claim tokens; `ClaimsApart`: no two requests hold the claim of one token, whose row stays locked until the commit; `ClaimsGood`: a claimed token is neither used nor revoked yet; `GivenIsUsed`: a token that has given a credential is used; `Provenance`: a token is used only after it was issued |
| `LocalComputeProofs` | `RefreshIsNeverStale` (`RefreshHolds`), `LockIsPassedOn` (`NoLostWakeUp`: who waits waits for a probe under way, or the first of the queue may go on) | `ProbesAlone`: who probes holds the lock and had asked before its probe began; `Queued`: who waits is in the queue, once, and nobody else is; `HeldByProbe`: the lock is held by a probe under way. `RemoveAtMoves` says what leaving the queue does to the others |
| `AccountsProofs` | `TypeCorrect`, `CredentialsKeepTheirPromise` (`KeepsPromise`, the refinement), `PasswordChangesEndSessions` (`ChangeEndsOlderSessions`), `OwnersAreMadeByOwners` (`OwnershipIsGranted`), `LoginsKeepPasswords` (`PasswordUndoneOnlyByRace`), `GuardIsComplete` (`OwnersLostOnlyByRace`) | `Good`, for each request in flight, what its record still says of the rows it loaded: exactly, as long as nobody else changed what it relied on (`StillCurrent`; `StillGuarded`, which `GuardOutlastsOthers` carries over every commit that leaves owners alone), and whatever happened, that its actor was allowed to (`Allowed`), that the identifier it will issue is nobody's (`Issuing`), that a password change's DELETE has hit every older session that is not over by itself (`Deleting`), and that only a bootstrap is in flight before there is an owner (`Bootstrapping`); `Apart`: two requests never issue the same identifier; `Founded`: there are no users before the first owner |
| `BackupsProofs` | `RestoresBringOwnData` (`OwnData`), `CompletedMeansKept` (`BackedUntilDeleted`), `UnlistedComeFromFailures` (`ArchivesListed`) | what rows, requests in flight and abandoned calls may still do to an archive: `ArchivesAskedFor`, `LateGood`, `RowsGood`, `TaskGood`; `Own`: while names are unique, an instance and its archives hold its own data; `CreatedSafe`: an archive whose creation was answered is there, or somebody asked for its deletion, although its row is not committed yet; `AllAccounted`: an archive that is there has a row that no answered deletion is about to remove, or an answered creation, or a call for it failed |
| `ConsoleProofs` | `CounterIsExact` (`CounterCounts`), `CapHoldsButForRaces` (`CapOnlyRaced`), `OrphansHearOfIt` (the safety half of `NoOrphanShell`: a shell whose console is over has a dead connection, which its bridge hears) | `Shape`: a console has a user and a VPS once it is connected, and only agents are dialled; `RoomLeft`: a set-up that no other overlapped still finds the counter below the cap that it read; `UnracedFit`: the open consoles of such set-ups fit the cap; `LinksRelayed`: only a handler that relays to an agent has a live connection; `ShellsLinked`: a shell always has one, live or dead |

Only model-checked: the liveness properties, which are beyond the prover
(`VpsSettles`, `PendingHeals`, `ProvisioningEnds`, `DriftHeals`, `EveryTaskEnds`,
`LostRightsClose`, `LifetimeIsBounded`, `NoOrphanShell`, `EveryRequestEnds`). The
disagreements of section 3 are shown by counterexamples.

## 5. Not modelled, and the plan

Not modelled, for good: the web UI, migrations, installation of hosts, images,
logs, metrics, audit and settings (reads and appends), cryptography and
formatting, the rate limiter (it admits everything when Redis fails, so nothing
can rest on it), the job stream (it reads the column that `JobWorker` shows to
implement `JobLifecycle`), snapshots (one call, no row), the password reset (no
token ever reaches a user), the local provider's operations on instances, which
do on the socket what the agent does behind its API.

Not modelled yet:

1. `NodeLifecycle` – maintenance, disable, remove and the computed offline status
   composed with `VpsControl`'s creates. The hazard at nodes.py:240
   waits for it.
2. `InstanceConfig` – PATCH and PUT config: the provider is called before the
   commit, the merge of `raw_config` is made from the value loaded, and two requests
   may reach the node and the database in opposite orders.
3. The addition of addresses and networks, in `VpsControl`.
