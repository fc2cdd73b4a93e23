# SportsBrain in TLA+

SportsBrain is a football and tennis prediction system: data collectors, models,
scanners that emit signals, a betting ledger, notifications and a web app. Most of it
computes; two parts of it *coordinate*, and these are the subject of this development:

- **Night Shift** (`src/src/nightshift`), a durable job queue that lets coding agents
  work on the repository unattended: tasks are claimed under a lease, executed by a
  child process in a worktree of their own, verified, committed, pushed, put under
  review and merged;
- the **Top-5 activation and delivery chain** (`src/src/football/top5_*`): a signed
  authorization opens a route for one paid provider request, its outcome is stored as
  a lifecycle set, five such captures make a batch, and one authorized batch replaces
  the public product on two targets, with a way back.

Both must survive crashes, timeouts, commands that fail after taking effect, and people
who intervene; neither holds a lock across its steps. Source paths below are relative to
the repository (`src/...`).

## 1. Inventory

| Component | State it keeps | Operations | What is hard | What makes it correct |
|---|---|---|---|---|
| Task store: execution (`nightshift/store_execution.py`) | the `tasks` table: state, attempts, lease owner / generation / expiry, pid, wait, failure | `claim_next`, `heartbeat`, `complete`, `recover_expired`, `cancel`, `_resume_due_quota` | several processes share one owner name; leases run out under a live worker; budgets, refunds and releases interact | fencing, one writer, bounded attempts, capacity, locks, no lost task |
| Task store: lifecycle (`store_lifecycle.py`) | delivery evidence, `reconciliation_json` | `assign_worktree`, `start_running`, `begin_verifying`, `record_*`, `block_delivery`, `*_delivery_reconciliation`, `reconcile_delivery`, `mark_ceo_review`, `mark_merge_verified`, `approve`, `reject` | a failure between any two pieces of evidence; reconciliation by two actors, with and without a lease | nothing is presented for review or completed without its evidence; a recovery never re-runs the work |
| Dispatcher: execution (`dispatcher_execution.py`) | where `run_once` is, and the lease it remembers | `run_once`, `complete`, the lease watchdog, base-drift reconciliation | every step acts on what an earlier transaction returned | a stale worker has no effect |
| Dispatcher: admission and commands (`dispatcher.py`) | pause, drain, restart flags | `submit`, `select_next_roadmap_task`, `run_autonomous_cycle`, `run_worker_pool`, `approve`, `reject`, `cancel`, `unblock`, `pause`, `drain` | commands race with workers and with each other; key, capacity and snapshots are read before they are acted on | verdicts stay, dependencies are respected, the queue is bounded, eligible work is taken up |
| Store: creation, control, release (`store.py`, `control.py`, `store_roadmap.py`) | flags, audit chain | `create`, `transition`, `set_paused`, `set_draining`, `release_eligible_blocked` | parked work comes back, but not beyond its debug budget | parked dependents are released |
| Codex executor (`executors.py`) | a child process | spawn, keep-alive thread, timeout, terminate | the child outlives its parent | no two children in a worktree |
| Delivery pipeline (`delivery.py`, `recovery.py`) | commits, branches, pull requests | `deliver`, `reconcile` | the base moves during a delivery; retries find half of the work done; two recoveries meet | what is reviewable is on origin, verified, and built on the base it names |
| Worktrees and verification (`worktree.py`, `verification.py`) | worktrees, baseline | allocate, isolate, verify | a leftover worktree or branch blocks its successor | the verified commit is the delivered one |
| Roadmap (`roadmap.py`, `store_roadmap.py`) | items and their status | `sync_roadmap`, `set_roadmap_status`, `roadmap_records`, refresh | an item and its task live in two tables and are linked afterwards | each item becomes one task, in dependency order |
| Activation stores (`top5_durable_activation.py`, `top5_activation_route_state.py`) | one record per plan, the active plan; one record per plan and the current route, consumed nonces, evidence | `prepare`, `execute`, `rollback`; `prepare`, `authorize`, `begin_execution`, `consume_exact`, `mark_production_verified`, `rollback` | two files, two locks, no common transaction; a rollback may stop between its writes | one request per signature, both stores closed in the end |
| One-shot runtime (`top5_one_shot_runtime.py`) | where `execute` is | preflight to evidence, failure handler | every check precedes a step by some time | evidence stands for a request and a stored set |
| Lifecycle sets (`top5_signal_lifecycle.py`) | the versions of a scope's set | `commit`, reads by scope | overlapping runs started from the same set | INITIAL, then one REFINEMENT |
| Canary orchestrator (`top5_canary_orchestrator.py`) | captures in memory | `capture_top5_canary_batch`, `deliver_top5_canary_batch` | resumes from what a dead process left | artifacts only from complete captures |
| Batch delivery (`top5_canary_batch_storage.py`, `top5_public_delivery.py`) | one record per batch; the stage directory | `prepare`, `transition`, `execute_stored_top5_batch`, `rollback_committed_top5_batch`, the executor | two targets, writes that report an error and were applied, readbacks of different moments | one writer per capability, verdicts true of the targets, nothing public unaccounted for |
| Capabilities and publisher (`top5_publisher.py`, `publish_runtime_artifacts.sh`) | the current token; a checkout of its own | `issue`, `consume`, publish staged | a push that arrived and failed; a lock left behind | a token pays once |
| Quota backoff, policy, registry, templates, doctor | none | pure functions | boundaries of the backoff | bounded, monotone delay |
| Betting ledger and relay (`betting/`, `cloudflare/`) | ledger files, pending bets in KV | append, push, consume, acknowledge | lost and duplicated acknowledgements | a bet is recorded once |
| Provider cascade and budgets (`football/provider_cascade/`) | credits, cooldowns | route, reserve, settle | concurrent reservations | the budget is not exceeded |
| Top-5 discovery, qualification and shadow packages | documents written once | validate, compare | long conditions | – |
| Models, features, scanners, data sources; notifications, web app | model files, caches | numerical code, formatting, I/O | – | out of reach of a state-machine model |

How the Night Shift parts interact:

- A **worker process** (`scripts/night_shift_worker_loop.py`, started every 30 s by
  launchd if it is not running) goes round: `recover_expired`, then
  `run_autonomous_cycle` (which releases parked work and calls `run_once`), then
  sleep. `run_once` is a sequence of store transactions with long external work
  between them.
- The **executor** starts the child in a session of its own, records its pid, and
  keeps the lease alive from a thread; the delivery watchdog does so afterwards.
- **Operators** use the command line: approve, reject, cancel, unblock, pause,
  reconcile, send to CEO review, confirm a merge.
- They share one SQLite database, the worktrees of one control repository, origin and
  GitHub. Every store operation is one `BEGIN IMMEDIATE` transaction, so it is atomic;
  everything between two of them is not. A worker remembers `(task, lease_generation)`;
  the store compares owner, generation, state and expiry on each of its writes
  (`_assert_active_lease`). The owner is the builder's id, which all processes of a
  builder share: only the generation tells them apart. Git and `gh` compare nothing.

How the Top-5 parts interact:

- `scripts/top5_controlled_activation.py execute` takes a prepared plan through
  `DurableTop5ActivationStore.execute`, which calls the one-shot runtime, which uses the
  route store, the provider and the lifecycle store; `rollback` is a process of its own.
- `capture_top5_canary_batch` calls the same runtime for five fixtures, each with an
  isolated route store and without an activation record, and recovers what an earlier
  process left.
- `scripts/top5_public_delivery.py execute` loads the stored batch, reads both targets,
  consumes a capability, stages, writes the Worker and publishes the static site through
  a shell publisher that pushes from its own checkout; `rollback` goes the other way. The
  static readback reads the *active* checkout, which follows origin when a scheduled job
  pulls it.

`PROJECT.json` lists the hazards of this code line by line, each with the property
that covers it or the reason none does yet.

## 2. Modules

| Module | Models |
|---|---|
| `TaskRow` | One row of `tasks`, and each transaction as a function from the row read to the row committed. |
| `TaskQueue` | The table, the pause switch, the worker and operator sessions, the child processes; one action per transaction or step. `Spec`, and `FairSpec` for liveness. |
| `LeaseService` | The abstract specification: a service that leases items under fencing generations. |
| `TaskQueueProperties` | Type invariant, safety, action and liveness properties, and the refinement mapping to `LeaseService`. |
| `TaskQueueProofs` | Theorems about leases and fences; the base of the next two. |
| `LeaseServiceProofs` | The queue implements `LeaseService`; a lost lease is dead. |
| `TaskLifeProofs` | Theorems about what a task rests on, how often it runs and what ends it; locks, capacity and the choice of the scan. |
| `Roadmap`, `RoadmapProperties` | How work gets into the queue: worker loops, pools and operators that select, submit, create and link. |
| `RoadmapProofs` | Theorems about admission. |
| `TaskDelivery`, `TaskDeliveryProperties` | How one task's changes get to origin and under review, with branches, commits, bases and pull requests as values, and the recoveries of a delivery. |
| `TaskDeliveryProofs`, `TaskEvidenceProofs` | Theorems about recoveries and their base; about what is pushed and what is under review. |
| `Activation`, `ActivationProperties` | The activation store, the route stores, the one-shot runtime, the lifecycle sets, the operator's rollback and the batch capture. |
| `ActivationProofs` | Theorems about activation. |
| `BatchDelivery`, `BatchDeliveryProperties` | The batch store, the capability store, the executor and the rollback command over the static site and the Worker. |
| `BatchDeliveryProofs` | Theorems about the public delivery and its verdicts. |
| `MCTaskQueue`, `MCTaskQueueTeams`, `MCRoadmap`, `MCTaskDelivery`, `MCActivation`, `MCBatchDelivery` | The instances for TLC. |

`TaskQueue` is the centre of the Night Shift part. `Roadmap` is what happens before its
first transaction, with the life of a claimed task cut down to its outcomes;
`TaskDelivery` is what happens inside one phase of its session, with the lease cut down
to "held or lost". `Activation` ends where `BatchDelivery` begins: with the artifacts of
captured fixtures.

### Correspondence: TaskQueue

`task[t]` is the row of task `t`; a task nobody submitted has state `ABSENT`.

| Field | Column |
|---|---|
| `state`, `attempts`, `gen`, `owner` | `state`, `attempt_count`, `lease_generation`, `lease_owner` |
| `ttl`, `wait` | time left until `lease_expires_at` and `available_at`; `Tick` decrements both in all rows, so `<= now` is `= 0` |
| `pid` | `process_id`, as the generation that spawned the child; 0 is NULL |
| `evidence` | `worktree_path`, `commit_sha`, a *passing* `verification_json`, `remote_sha`, the pull request, `merge_verification` |
| `failure`, `error` | `failure_class` and `last_error`, to the precision the code branches on |
| `debug`, `sig`, `repeats` | `debug_attempt_count`, `last_failure_signature`, `failure_repeat_count` |
| `recon`, `source` | `attempts` and `source_state` of `reconciliation_json` |

`session[w]` is where a worker is in `run_once` and the lease it remembers:
`idle -> polling -> claimed -> running -> spawned -> executing -> verifying
(-> drifting -> reconciling) -> idle`. The pause switch is read on the way to `polling`,
the claim is a later transaction. A worker is `drifting` when it read the remote base,
after its last look at the lease (`delivery.py:374`), and found it moved. What follows
from that is decided on the row as it is then (`StartReconciliation`): a `VERIFYING` row
needs the lease, one that is parked or failed in delivery by now has no owner and is
taken into a recovery by anybody, a recovery under way is joined. An operator is `unblocking`, `preserved` or
`adopting...` between the read and the write of a two-step command (`unblock`,
`reconcile_preserved_delivery`, `reconcile_delivery`), and `reconciling` while it works on a delivery.
`procs[t]` is the set of generations whose child process is alive.

`TaskRow` operators are the `UPDATE`s: `Claimed`, `Reaped`, `Resumed`, the
`Completed*` family (one for each kind of report to `complete`), `DeliveryStopped`,
`Reconciling`, `Recovered`, `Unrecovered`, `Adopted`, `Merged`, `Released`.
`TaskQueue` adds who may call them and when: the fence, the session, the operator's
guards. `ClaimNext` is the whole of `claim_next`: due quota pauses are resumed first,
then the scan walks the builder's rows in order, skips those a running task's locks
exclude, blocks those with a failed dependency (a row blocked earlier in the *same*
scan already counts as failed), parks the others, and claims the first it can.
`Reap` and `Release` treat every eligible row in one step, as the code does.

### Correspondence: Roadmap

`roadmap[i]` is the row of `roadmap_items`, `tasks[r]` as much of `tasks` as selection
reads, `config` the enabled items of `roadmap.json`; `plan` is the copy a process was
started with. A worker cycle is
`idle -> asking -> refreshing/reflecting -> listing -> scanning -> finding -> counting ->
creating -> linking -> running -> working -> refreshing`, and each arrow is one read or
one write of the store: the roadmap is refreshed item by item, the snapshots of the items
and of the tasks are taken one after the other, and the task that `create` commits is
linked by another transaction. A process that meets an error nobody catches
(`SafetyViolation` for a full queue, `IdempotencyConflictError`) is `down` and starts
again with `from_config`.

### Correspondence: TaskDelivery

`task` is one row with its delivery columns (`work`) and its `reconciliation_json`
(`rec`, `attempts`, `source`); `trees` are the worktrees and their branches (tree 0 is
the task's, tree n that of recovery n), `remote` and `pulls` the branches on origin and
their pull requests, `base` counts the moves of the base branch, `evidence` holds the
commits with a passing verification. A commit is the n-th one made in a worktree. A
session's `phase` is its place in `deliver` or `reconcile`; its `work` is what it has
learned, its `own` what of that a recovery writes back. Every git or `gh` command is a
step of its own, which may fail (`CommandFails`: a message that holds `VERIFICATION` or
`REGRESSION` passes for a failed verification), may report an error after taking effect,
and may come after the lease that covered it is gone (`late`); every store write is refused to a
worker without the lease, and to a recovery without one only if the row left
`DELIVERY_RECONCILING`.

### Correspondence: Activation

`record` and `active` are the activation store; `routeRecord`, `route`, `nonces` and
`evidence` the route stores (one for controlled plans, one for each fixture of a
batch); `lifecycle` the sets of every scope; `requests` what was sent to the provider;
`artifacts` what batches published in memory. A runner goes from `execute` of the
activation store into `execute` of the one-shot runtime and back; an operator's rollback
reads the route store, then closes the activation record, then the route; a batch process
goes through its fixtures in order. A run that is `accepted` is not over: the `execute`
branch of `main` does not return (`scripts/top5_controlled_activation.py:336`), so it
goes on like the `rollback` command, closes the route it has just verified, and dies of
`args.plan_digest`, which it does not have, before the activation store is told
(`FallThrough`). The second of the two writes of a route rollback may
fail, which leaves `ROLLBACK` behind. A check that may raise (signature, expiry, budget,
response) is a step that may raise.

### Correspondence: BatchDelivery

`batch` and `previous` are the batch store, `capability` and `consumed` the capability
store; `origin`, `checkout` and `worker` the static site, the active checkout its
readback reads, and the Worker; `publisher` the publisher's own checkout, `staged` the
stage directory. A session remembers what it read from either target, the token it
loaded, the product to restore and why it restores. A write to the Worker or a push may
fail, or be applied in spite of an error, and the restoration that follows may fail
likewise.

`PROJECT.json` maps every definition to its source lines. Operators whose comment
begins with "Fault" are mistakes the properties are tested against; nothing in the
models refers to them.

### Abstractions

Night Shift:

- Payloads, prompts and messages are left out; what the store branches on is kept as a
  member of a small set. `complete` retries by signature: signatures are opaque, some
  are timeouts.
- External work (git, gh, verification, the child) may end in any way at any time.
- The dispatcher has its delivery pipeline: the path of `run_once` that runs without
  one (`dispatcher_execution.py:311`) is left out. The flag
  `delivery_json.delivery_blocked` that stays set over a re-run is left out; the
  failure class stands for it.
- `Roadmap` folds the states selection does not tell apart (`BLOCKED` stands for
  `PAUSED_QUOTA`, `ACTIVE` for the three running states), leaves the approval gate
  to `TaskQueue`, takes a removed item for a disabled one, and keeps definitions
  (payload, priority, dependencies) fixed while items are switched on and off. Skip
  reasons, capability matching and the failure texts that reclassify a pull request are
  left out; the claim picks any task, since `TaskQueue` has the order.
- `TaskDelivery` knows one task and its lease as held or lost; patches apply or do not,
  a worktree is dirty or not. Read-only tasks, approval and review are left out.

Top-5:

- Digests, signatures, file permissions and clocks are not computed: two documents are
  equal or not, a check passes or raises. The provider budget is a gate that may refuse.
- Audit events, evidence fields and the Nations League merge are left out. A target that
  holds no product at all is left out: the delivery code refuses it.

## 3. Runs

| Run | Instance | Shows | Distinct states |
|---|---|---|---|
| `lifecycle` | 1 code-changing task behind approval, 2 processes of one builder, an operator; 2 attempts, debug budget 2, lease of 2 ticks | typing, the inductive lease invariant, one writer, no leased row touched under a lost lease, attempts neither exceeded nor given up, no re-run of a recovered delivery, evidence before review, and the refinement of `LeaseService` | 103 k |
| `teams` | a code-changing task behind approval and its read-only dependent with a process and 2 operators; 2 builders with 1 + 1 or 2 + 1 processes and up to 3 tasks, two of which share a resource; a code-changing task that competes for its slot or its resource while an operator recovers it | dependencies are delivered before dependents start, verdicts stay, capacity, resource locks, the most urgent claimable task is chosen | 683 k |
| `liveness` | 1 task, 2 processes, an operator who adopts deliveries, pause switch, crashes, quota | runs end unless a recovery without a lease is orphaned, quota pauses end, a lasting pause quiesces the queue | 31 k |
| `progress` | 3 tasks, one behind a dependency, 1 slot, an operator who unblocks, debug parking | no ready task starves, parked dependents come back | 122 k |
| `roadmap` | 1 to 3 items (two change code, one is read-only and depends on the first), loops, a pool, an operator | one task per item, items in order, a bounded queue, eligible items are materialised | 160 k |
| `task_delivery` | 1 task; two workers, or a worker and one or two operators | what is reviewable is on origin, what is pushed was verified, a recovery stands on the base it records | 929 k |
| `activation` | 2 plans on one route, with one nonce or one lifecycle scope; two batch processes; a runner beside a batch | one request per authorization, staged lifecycles, verified results are backed, routes recorded and closed (by the run that opened them, too), artifacts only from complete captures | 87 k |
| `delivery` | 2 deliverers of one generation with 1 or 2 capabilities; a deliverer and 1 or 2 rollbacks | one writer per capability, what is public is accounted for, verdicts are true of the targets, batches are decided | 140 k |
| `late_reconciliation`, `orphan_reconciliation`, `unverified_review`, `orphan_process` | 1 task, 1 process, the operator command that matters | the findings below | – |

Deadlock is checked in the queue's runs, where somebody can always take a step. In
`roadmap`, `task_delivery`, `activation` and `delivery` a behaviour may end: each process
has done what it was started for and the budgets of faults and commands are used up.

### Bounds

- Two processes are enough for everything about fencing: the properties relate at most
  two sessions on one task, and a crashed session returns as a new one, so a
  process and its successor are both there.
- Two attempts and a debug budget of two reach every branch of `complete`: retry,
  repeated timeout, parking, release, budget exhausted, attempts exhausted.
- One tick is the shortest delay that makes a row wait. `lifecycle` has a lease of two
  ticks, so that a heartbeat can come before, on and after the expiry.
- Three tasks in a fixed order suffice for the scan: one in front, one passed and one
  chosen; `ClaimsMostUrgent` relates three rows.
- `MaxGeneration` bounds how often a worker reports quota exhaustion: such a report
  gives the attempt back, so without a bound the generation would grow for ever.
- The other modules are checked by *casts*: a behaviour is played by one of a few sets
  of processes with a budget of faults, of edits or of base moves, all in one run.
  `MCTaskQueueTeams`: a worker with two operators and every command; three casts
  without operators; and two, on one slot and on one resource, of a code-changing task
  and a competitor, with an operator who approves the one and recovers it.
  `MCRoadmap`: two loops and one item with a fault; two loops and a dependency; a loop
  beside a pool on items that share locks; one loop and three items with merges, reviews
  and drifts; one loop with a fault and two edits; a loop beside a submitter. Its queue
  has room for one task and its back-pressure begins at one pull request, so both limits
  are reached; `MaxTasks` is never reached. `MCTaskDelivery`: two workers with two
  faults, a worker and an operator with a moving base, a worker and two operators.
  `MCActivation`: two runners and an operator on plans with one nonce; a runner, an
  operator with a fault, and a refinement; two batches; a runner beside a batch.
  `MCBatchDelivery`: two deliverers with one capability and two faults; with two
  capabilities; a deliverer, a rollback and a foreign write; a deliverer and two
  rollbacks.
- The properties of `TaskDelivery` allow one command to outlive its lease (`late <= 1`) and
  say where they stop: `ReviewableIsOnRemote` while recoveries of two attempts do not meet
  (`OneAttemptAtATime`; those that join the first attempt are within it),
  `RecoveryIsOnBase` for the first attempt. Beyond, the code gives no such promise (see
  the observations).
- `ConcurrencyBounded` and `LocksExclusive` speak of *leased* tasks. A recovery that an
  operator or a stale worker starts holds no lease and looks at neither slots nor locks;
  the last two casts of `teams` start such recoveries beside claims that compete.
- The operator of `liveness` adopts deliveries and does not restart them; recoveries
  without a lease are started there by workers that were reaped while they drifted.
- `ReviewableIsDelivered` is checked in `lifecycle` without `reconcileDelivery`; with it,
  the run `unverified_review` violates it.
- Processes are not declared symmetric: the runs check temporal properties.

### Fairness

- Queue: weak fairness of `Tick` (time passes), `Reap` and `Release` (every round of every
  worker loop calls `recover_expired` and `release_eligible_blocked` before it claims,
  `night_shift_worker_loop.py:47-54`), of each process going on with its session (a
  crashed loop is restarted by launchd, `StartInterval` 30), and of the child returning
  to a session that waits for it (the executor kills it at its timeout). Heartbeats,
  crashes, commands and orphaned children get no fairness.
- Roadmap: each process goes on, and is started again by launchd after a crash. Leases
  need not expire, nobody need merge or edit.
- Activation: each process goes on; an activation that stays unclosed is rolled back by
  a person again and again (strong fairness: the runbook tells operators to), but no
  command is ever owed otherwise.
- BatchDelivery: each process goes on; the delivery command of a batch that stays
  undecided is repeated (strong fairness), with crashes and failures bounded.
- TaskDelivery: safety only.

### Findings

1. `late_reconciliation` – *A late completion from a stale owner is rejected*
   (`docs/night_shift_dispatcher_v1.md:146`). `finish_delivery_reconciliation` consults
   the fence only while the row has an owner. A worker reaped during a reconciliation
   can finish the one an operator restarted afterwards.
1. `orphan_reconciliation` – *Enter the bounded, durable base-drift recovery state*
   (`store_lifecycle.py:440`). A reconciliation that an operator starts, or a worker
   reaped between its last look at the lease and the reading of the base, holds no lease.
   If it dies, no reaper selects the row and no command accepts it; the task stays in a
   running state and keeps its builder's slot. The run shows it for an operator;
   `RunsEndOrOrphaned` and `PauseQuiesces` hold of everything else.
2. `unverified_review` – *Code-changing work must pass the independent verification
   gate ... before `PR_READY`* (`docs/night_shift_dispatcher_v1.md:128`).
   `reconcile_delivery` enters `PR_READY` with evidence that holds no verification
   verdict.
3. `orphan_process` – *Conservatively prevent reclaiming a worktree held by a live PID*
   (`store_execution.py:889`). A worker that dies between `Popen` and `record_process`
   leaves a child the reaper does not know of.

### Further observations

What the models allow beside the properties, because the code does; each was met while a
stronger property was tried.

Roadmap:

- An item that is disabled after its task was created and before it is linked (the
  selecting process died in between) is retired to `DISABLED` for good, though its task
  runs and may complete: its dependents are never released, and enabling it again does
  not help. The docstring of `sync_roadmap` (`store_roadmap.py:20-25`) means to retire
  items only "while they have no materialized task", but it looks at the link.
- A full queue and an eligible item raise `SafetyViolation` out of
  `run_autonomous_cycle` before `run_once`: the loops end every round without working
  on the queue that is full.
- After a crash between create and link, a pool that would now choose another builder
  meets `IdempotencyConflictError` each time, although the documentation
  (`docs/night_shift_dispatcher_v1.md:154`) calls restarted materialisation idempotent.
- A refresh writes what it read before: it may put `BLOCKED` or `ENQUEUED` over
  `COMPLETED` until the next one. A cancelled task leaves its item `ENQUEUED`.
- The capacity is exceeded by one task for each racing submission, and by tasks that come
  back from a recovery, which are not counted while it goes on.

Task delivery:

- Where recoveries of two attempts meet, the task may finish `PR_READY` with the branch
  of one and the pull request of the other: `store_lifecycle.py:455` joins whoever comes
  to the attempt under way, and a process of the earlier attempt may still be at work.
- A second attempt reuses the branch and the commit of the first, on the older base, and
  records the new base; a base that moves just before `gh pr create` leaves two open
  pull requests.
- A crash after a recovery's commit, or between `git commit` and `record_commit`, ends in
  "no scoped change" or "no reviewable change" the next time, and the task is blocked or
  fails. A crash between `allocate` and `assign_worktree` ends in "worktree path already
  exists".
- Verification may look at a tree with changes the pushed commit lacks
  (`delivery.py:285`); two git commands that both outlive their leases could push a
  commit the recorded verification is not about.

Activation:

- No `execute` command ends well: it closes the route of the activation it has just
  accepted and dies, the record stays `PRODUCTION_VERIFIED` and active over a disabled
  route, and the operator's rollback is needed to say so. The set and the evidence stay.
- A route rollback that stopped half-way leaves `ROLLBACK`, which `prepare`
  (`top5_activation_route_state.py:610`) does not count as pending: another activation
  may open the route, and completing the old rollback restores the baseline over it.
  A rollback of a *verified* plan that lost its own route in that way does the same:
  it restores its `pre_activation_snapshot`, whoever's route is current.
  `RouteLostToRollback` says that there is no other way to lose a route.
- An operator's rollback that read the route store before the runner prepared its route
  leaves the shared record `ROLLED_BACK` while the runner still sends its request;
  `ActivationsClose` says that a repeated rollback ends it.
- After a failure behind the lifecycle commit the set stays, and a later INITIAL is
  refused. A batch process that dies leaves its isolated route `EXECUTING`, and no
  command closes it.

Batch delivery:

- The loser of a capability records `FAILED` or `ROLLED_BACK` over the other's delivery,
  though the documentation calls the command idempotent; `VerdictIsReal` is about
  deliveries nobody else disturbs (`Undisturbed`).
- A deliverer that dies after it restored the Worker and before its static commit is
  visible makes the repeated command record `ROLLED_BACK` for a product the static site
  then carries. A crash in an operator's rollback leaves `COMMITTED` over mixed
  targets, and the delivery command refuses the batch.
- `VerdictIsReal` is about the verdict of the process that delivered or restored. The
  `COMMITTED` that a repeated command records for what it finds on entry is not among its
  cases.
- Two generations in flight overwrite each other; a publisher that dies leaves a lock or an
  unpushed commit behind which later publications fail.

## 4. Proofs

**TaskQueueProofs** proves, for all sets of tasks, builders, workers and operators, all
budgets and all delays that satisfy `RowAssumption` and `QueueAssumption` (ranges of the
constants; nobody is both worker and operator):

- `Invariance`: `Spec => [](TypeOK /\ LeaseInvariant)`;
- `Typing`: `Spec => []TypeOK`, which includes that no third reconciliation is recorded;
- `Fencing`: `Spec => []LeaseInvariant`;
- `FenceAdmitsOne`: `Spec => []SingleWriter`.

*Why a strengthening.* `SingleWriter` says that two processes never pass the fence of
a task together. It is not inductive: were there a session that remembers the
generation after the row's, the next claim would let it in beside the claimant. `LeaseInvariant` adds
what rules that out: sessions on a task remember distinct generations, none beyond the
row's; only running work has an owner; and the session with the current generation has
its row in the state it put it in. The last part is what makes a state change under
the fence safe, since the states a fence names are those of one phase. That an
`ABSENT` task has generation 0 is needed because its submission writes a row afresh.

*Argument.* A row either *keeps* its lease (`Kept`: same owner, generation and state)
or is *freed* (`Freed`: no owner, no smaller generation, a state that needs no lease).
One lemma per transaction says which. Then four kinds of step are enough:

- `QuietStep`: every row is kept, freed, or free already, and no session enters a
  leased phase or changes task or generation – all commands, reports, evidence,
  heartbeats, the reaper, release, crashes and time;
- `AdvanceStep`: a worker changes row and phase together under its fence;
- `GrantStep`: a claim gives a fresh generation to one row and one session;
- entering reconciliation without a lease, by an operator or a stale worker, which moves
  a row nobody holds and lets nobody pass a fence.

`StepPreserves` splits `Next` by action and applies these; the theorems follow with PTL.

**BatchDeliveryProofs** proves, for all sets of deliverers, rollbacks, generations and
capabilities and from `DeliveryAssumptions` alone:

- `DeliveryInvariance`: the inductive invariant `IInv` of every step;
- `DeliveryTyping`: `Spec => []TypeOK`;
- `DeliveryOneWriter`: `Spec => []OneWriterPerCapability`;
- `DeliveryAccounting`: `Spec => []PublicIsAccounted`;
- `VerdictInvariance`: a second invariant, `VInv`; `VerdictsReal`: `Spec => VerdictIsReal`.

*Why a strengthening.* What is public can change long after the step that decided it: a
push that reported an error arrives later, a checkout is pulled, a restoration writes
what was recorded in another process's time. `IInv` therefore says of every store and
every session what it may still write: `StoresSound` (whatever a target, the checkout or a
stage holds was paid for and has its predecessor on record), `Sound(p)` (a session at
work on a generation carries the predecessor recorded for it, and a paid one the
token it consumed) and `Exclusive` (no two paid sessions share a token).

*Argument.* Records only grow: a capability stays consumed, a prepared batch stays
prepared, a recorded predecessor stays (`Stable`). Under a stable step the sessions
that do not move stay sound; so each action has a lemma about the one session and the one
store it writes, and `Exclusive` is touched by `Consume` only, which takes a token nobody
consumed.

*Verdicts.* A verdict is recorded on what was read of two targets, one after the other,
some steps ago. `VInv` follows the one delivery there is while it is undisturbed (no
write by a scheduled job, one capability spent): before the capability is spent the
targets are `Untouched`; afterwards they hold the delivered generation or the initial
product, and what a process has seen and relies on is still so (`Fits`). `Asked` says
which question each process is putting to the targets and how it came to it, which is
what tells a readback after a write from one before. `Moves` says what a step does in
the delivery, `OtherFits` that this leaves the other processes' knowledge true, and a
lemma for each action that it suits the process that takes it. The verdict is read off
at the step that decides (`Deciding`).

**LeaseServiceProofs** adds, from the same assumptions and with no hypothesis:

- `LostLeases`: `Spec => LostLeaseIsDead`;
- `ServiceImplemented`: `Spec => ImplementsLeaseService`, the refinement.

*Argument.* `Serves` sorts every step by what it does to leases: a process works under
its lease, a claim takes one, the reaper, the clock, or no leased row changes and
nobody comes by a lease (`StaysOutside`). Each sort is one action of `LeaseService` or a
stutter under the mapping; that a worker who passes the fence is the client the service
knows is `LeaseInvariant`. `LostLeaseIsDead` needs, beyond that, that a row whose clock
ran out fails the fence of everybody. It does not say that a lost lease changes nothing,
which is false of the code: a stale worker may take the row of its task into a recovery,
or through one, as long as nobody holds it. That it reaches no leased row, and no row of
another task, is what the theorem says (`OnlyRecovers`).

**TaskLifeProofs** extends `LeaseServiceProofs` and starts from `Moves(t, r, s)`: what a step may do to row `t` in the
columns that matter here, one case for each kind of report, command or scan. The
properties are proved from it row by row.

| Theorem | States | Hypothesis beside `Spec` |
|---|---|---|
| `DependencyInvariance`, `Dependencies` | the invariant; `[]DependenciesDelivered` | – |
| `Urgency` | `ClaimsMostUrgent` | – |
| `LifeInvariance`, `Attempts` | the invariant; `[]AttemptsAccounted` | `UnblocksAreFresh` |
| `NoRerun`, `Verdicts` | `ReconciliationNeverReruns`, `VerdictsFinal` | `UnblocksAreFresh` |
| `Reviewable` | `[]ReviewableIsDelivered` | `NoAdoption` |
| `Locking`, `Capacity` | `[]LocksExclusive`, `[]ConcurrencyBounded` | – |

*Why strengthenings.* What a dependency is at the claim says nothing of later: the
invariant adds that completed code changes are merged, and that a command an operator
has read a row for finds that row settled when it writes. Attempts are counted against
the debug releases, because only a release pays for an attempt beyond the maximum
(`Accounted`); a row that ever entered a recovery may be in few states
(`ReconciledIsSettled`).

*Why hypotheses.* Each is an action property that names where the code does not
compare what it acts on, and each proof failed at just that step without it.
`UnblocksAreFresh`: `unblock` reads why a row is blocked and then compares only that it
still is (`dispatcher.py:367`), so a row blocked again for another reason, a stopped
delivery for instance, is requeued; that is a hazard in `PROJECT.json`. `NoAdoption`:
`reconcile_delivery` takes evidence without a verification, which is the finding
`unverified_review`.

**RoadmapProofs** proves from `RoadmapAssumptions` (finitely many actors; `None` is
nobody's name; ranks and preferences are total orders):

- `AdmissionInvariance`, `AdmissionTyping` (`[]TypeOK`);
- `AdmissionOnce`: `Spec => []OneTaskPerItem`;
- `AdmissionOrder`: `Spec => []ItemsInOrder`;
- `AdmissionBounded`: `Init /\ [][Next /\ Only(A)]_vars => []QueueBoundedBy(Cardinality(A))`
  for any set `A` of actors, where `Only(A)` says that nobody else's session changes. The
  run's `QueueBounded` is the instance for the actors of a cast (the last conjunct of
  `MCNext` is `Only`);
- `AdmissionBoundedForAll`: `Spec => []QueueBoundedBy(Cardinality(Actors))`.

*Argument.* The order of items rests on snapshots: a process creates a task for what it
found eligible several transactions ago. `IInv` says of every process that what it read
still holds (`Fits`), which is so because a link, the item of a task and a *settled*
dependency are never undone (`Stable`): completed, or under the CEO's review after a merge
or without code changes. The bound counts: pending tasks and the actors that found room
and have not created yet are together no more than the limit and one for each further
actor that takes part (`Room`).

**TaskDeliveryProofs** and **TaskEvidenceProofs** prove, from `TaskDeliveryAssumptions` (nobody
is worker and operator, `max_attempts` is 1 to 10, `None` is no record) for any number of
processes and moves of the base:

- `RecoveryInvariance`, `RecoveryTyping` (`[]TypeOK`);
- `RecoveryBase`: `Spec => []RecoveryIsOnBase`;
- `EvidenceInvariance`; `PushedEvidence`: `Spec => []PushedHasEvidence`;
- `RemoteInvariance`; `ReviewableRemote`: `Spec => []ReviewableIsOnRemote`.

*Argument.* Worktrees and pull requests stay and heads only move on (`Grows`); a
transaction makes of the row one of a few things (`RowMoves`). The first recovery keeps to
worktree and branch 1 and to the base it noted; whoever joins it takes the same from the
row. For the second invariant a push must be seen to send what was verified. A
recovery's worktree gets one commit, since patches are applied only to one without. The
task's own may get several, by claims that died before recording theirs; but with a
commit on record the holder of the lease makes no other, and a process that lost the lease
needs two commands for one, an execution that leaves changes and the commit. So while one
command at most outlives its lease, the head is the commit that was verified.

*What is under review.* `PR_READY` is written long after the push and the pull request it
speaks of, by a process that looks at neither again. The third invariant, `RInv`, says
while recoveries of two attempts do not meet (`OneAttemptAtATime`): whatever processes
are in a recovery, they and the row know of one and the same branch, and build the same
first commit on it, whoever comes to it first; a branch other than the task's has the one
commit of one worktree, so that nothing can be pushed over it; and the task's own branch
has the recorded commit or nothing, which is where `EvidenceInvariance` and the one late
command come in. Each step is seen to add to Git only what it must be (`Honest`), to
leave the row what it says of deliveries (`Stands`), and to leave the other sessions' part
true (`Bystander`).

**ActivationProofs** proves from `ActivationAssumptions` alone:

- `ActivationInvariance`, `ActivationTyping` (`[]TypeOK`);
- `OneRequest`, `VerifiedBacked`, `Staged`, `RoutesRecorded`, `CapturesComplete`: the
  invariants `OneRequestPerNonce`, `VerifiedIsBacked`, `LifecycleStaged`,
  `RouteIsRecorded`, `ArtifactsComplete`;
- `RouteKept`: `Spec => RouteLostToRollback`.

*Why a strengthening.* A request is sent several steps after its nonce was consumed, by
a process that looks at no store again. `IInv` ties them: a plan that was let through
(`Signed`) has its nonce on record, no two of one route share one, at most one process is
about to pay for a plan (`Paying`), and only while none was sent. The rest says of each
process what it relies on in its phase, and nothing of that is ever undone (`Stable`).

*What the attempt corrected.* `RouteLostToRollback` once named interrupted rollbacks only,
and the runs with two plans agreed. The proof stopped at the rollback of a verified plan:
its route may have been taken by a second plan through an interrupted rollback and
opened by a third, which then loses it. The property now says so.

**Only model-checked.**

- Liveness (`RunsEndOrOrphaned`, `QuotaPausesEnd`, `PauseQuiesces`, `ReadyWorkStarts`,
  `DependentsReleased`, `ItemsMaterialise`, `ActivationsClose`, `DeliveryConcludes`) and what
  needs enabledness are beyond the proof system.
- Every invariant and action property of the passing runs has its theorem. The hypotheses
  some of them need stand in the table above; those of `VerdictIsReal`,
  `ReviewableIsOnRemote` and `PushedHasEvidence` are part of the property, and the run
  checks the property with them.
- The properties of the four runs that expect a violation are false of the code.

## 5. Not modelled

The repository has some 175,000 lines, and the model maps those that coordinate. The
rest was read to the point of deciding that a state machine says nothing about it, or was
left for later:

- **Discovery, qualification and shadow packages** (`top5_therundown_*`,
  `top5_controlled_shadow_*`, `top5_b2_qualification_*`, the largest files of the
  repository): each takes one signed document and one payload through a long list of
  equalities and writes a result once. There is no second actor and no state between
  calls; a model would repeat the list.
- **Models, features, ratings, scanners, backtests**: floating point and statistics.
- **Data sources, notifications, dashboards, web app**: network access and formatting.
- **Policy, registry, templates, status, doctor**: validation of one input, and reporting.
- In the modelled components: the audit chain's hashes, cached verification evidence, the
  restart flag (written and read by nobody who acts on it), control-repository locking,
  path safety, the wording of pull requests, generations and payload edits of roadmap
  items, artifact construction.
- **Betting ledger and relay, provider cascade and budgets, quota backoff**: see the plan.

## 6. Plan

Done: the queue, the task's delivery, admission and the roadmap, activation and the
public delivery, and the proofs of all their safety properties. Left, in this order:

1. `QuotaBackoff`: the pure delay computation against its reference, over bounded inputs.
2. `Relay`: pending bets posted to the Cloudflare worker, consumed and acknowledged by
   the ledger with losses and duplicates.
3. `ProviderBudget`: reservations and failover in the provider cascade, with the unlocked
   load and save of the budget file.
4. Generations and payload edits of roadmap items, with the comparison of canonical tasks
   they would run into.
