# Verification of the SENTRA execution core

SENTRA runs agents that act on real machines: desktops, phones, CAD programs,
shells. Its hard problems are that an action may have happened although nobody
saw it happen, and that many tasks share one workspace, fail, time out, are
cancelled and are resumed after a crash. This directory holds TLA+ models of the
parts of the repository that answer those problems, the model-checking runs over
small instances, and machine-checked proofs for instances of any size.

Paths below are relative to the repository root (`src/` in PROJECT.json).

## 1. The system and its parts

| Part | Code | State it keeps | Operations | Hard behaviour |
|---|---|---|---|---|
| Durable leases | `sentra_mcp/services/durable.py` (`acquire_lease`, `renew_lease`, `release_lease`, `_verify_fence_locked`) | tables `leases`, `lease_fences` | acquire, renew, release, fenced update | clock read before the lock; read and write apart; processes that share SQLite; expiry; crash |
| Runs and operations | `durable.py` (`create_run` ... `reconcile`), `sentra_mcp/tools/durable.py` | tables `runs`, `operations` | transition, reserve, begin, update, cancel, reconcile | stale reads, terminal states, transitions decided on old rows |
| Physical effects | `sentra_runtime/durable_admission.py`, `central_authority.py`, `effect_boundary.py`, `sentra_executors/_base.py`, `central_integration.py` | the above, an OS lock file per machine, the waiting coroutine and its worker thread | submit, fence, begin, run, late return, record | timeouts that leave a worker running, cancellation, crash between mark and answer, replay |
| Journal and projections | `durable.py` (`_append_event_locked`, `_project_locked`) | table `events`, `events.jsonl`, `state.json` | append, project | fsync before commit, no rollback on exceptions |
| Goals, agents, chats | `durable.py` (`create_goal` ... `rebind_chat`) | tables `goals`, `agents`, `chats` | assign, bind, rebind, update | generations of chats, reconcile over all of them |
| OMA task queue | `orchestrator/queue.py`, `state_machine.py`, `durable_resources.py` | ready, running, blocked sets; resource holders; dead letters | add, pop, complete, fail, escalate, cancel, recover | resource conflicts, dependency cascades, retries, capacity |
| OMA engine | `orchestrator/engine.py`, `dispatcher.py`, `supervisor.py`, `conversation_pool.py`, `turn_scheduler.py` | running turns, pooled conversations | dispatch, heartbeat, cancel | late provider answers, backpressure |
| Task ledger, budgets, governance | `services/task_ledger.py`, `budget_policy.py`, `governance.py`, `sentra_runtime/machine_budget.py` | mirrors of tasks, quota reservations, work items | sync, reserve, settle | idempotent reservations, counters at their limit |
| Ingress, checkpoints, routines | `services/event_ingress.py`, `session_checkpoint.py`, `routine_scheduler.py` | received events, checkpoints, schedules | ingest, save, fire | duplicates, reorder, missed ticks |
| Control store | `services/control_store.py`, `postgres_store.py`, `authority_migration.py` | connections, scope locks | connect, lock, cut over | which lock excludes whom |
| Integration and promotion | `orchestrator/runtime.py` (`promote_candidate`, `RunLock`), `integration.py`, `verification.py`, `workspace/patch_manager.py` | the checkout, table `project_revisions`, the lease `project:integration`, `.workspace.lock`, `handoff.json` | promote, observe, integrate, apply, commit, undo | the user edits meanwhile; the lease runs out; a patch fails halfway; a promotion dies and is tried again |
| Edge bridge | `native_bridge/job_store.py`, `web_delivery.py`, `edge_extension/service-worker.js`, `content-script.js` | tables `jobs`, `web_deliveries`; `oma_active`, `oma_result` in `chrome.storage`; what a page tried | submit, poll, lease, progress, receipt, result, cancel; send, resume, outbox | requests lost or late; the service worker dies; pages are replaced; a job is leased twice |
| Remote agents | `sentra_remote/store.py`, `gateway.py`, `agent.py` | table `jobs` of the relay, durable operations, agent processes | submit, poll, progress, result, cancel, revoke, project | the same over the Internet; two threads under one idempotency key; revocation |
| Federation and interop | `sentra_federation/`, `sentra_interop/`, `sentra_connectors/` | journals, projections | send, import | reordered and repeated messages |
| Authorization | `services/authorization.py`, `action_consent_gate.py`, `sentra_runtime/access.py` | grants, approvals | decide, grant, revoke | revocation between two steps |
| The rest | canvas, CLI, quality, marketplace, repository and memory tools, installers, vendored integrations, docs, tests | | | no concurrent state of their own, or not part of the program's core |

How they meet: a coroutine calls `DurableOperationGate.submit`; the gate asks
the policy, then `CentralDurableIntentAuthority`, which keeps all its state in
`DurableRunService`; the executor starts a thread that runs the provider inside
a `CentralEffectContext`, which calls back into the authority before the effect
(checkpoint, begin) and after it (late return), while a keepalive thread renews
the lease. Operators act through the tool `sentra_operation` on the same tables,
and several processes (control plane, OMA, gateways) open services of their own
on one state root. `orchestrator/queue.py` takes leases on files and workspaces
from the same service through `DurableResourceLeaseManager`, and so does
`integration.py` before it changes a checkout. The Edge bridge and the remote
relay are job stores of their own: a caller submits and asks, a worker in a
browser tab or on a device polls, reports and answers, and every call of the
store first ends or requeues the jobs whose time is up. The remote gateway
projects its jobs into operations of `DurableRunService`.

What makes each part correct, in short:

- leases: a token names one generation, only the newest generation commits, a
  live lease is neither stolen nor deleted by somebody else;
- effects: an operation is sent at most once, two effects on one machine are
  never of unknown outcome together, one machine does one thing at a time, what
  a submitter is told is what the record says, every submission ends;
- operations and runs: terminal states are final;
- journal: what a call answered is in the history and what it refused is not, the
  last line with the number of a committed event is its line (unless the append
  itself failed), a reader misses nothing;
- integration: a committed revision is the tree that was tested, nothing is
  committed twice, a patch is applied whole or is left only in files that are
  reported, the user loses no edit;
- queue: conflicting tasks never run together, every task ends, dependents of a
  dead task die, capacity holds;
- relay and remote jobs: the effect of a job happens at most once, whatever is
  lost, late or dies, and "nothing was done" is said only when that is so and
  stays so.

The hazards behind these properties are listed, each at its line, in
`PROJECT.json`.

## 2. Modules

| Module | Kind | What it models |
|---|---|---|
| `FencedLease` | abstract | a resource has a generation; a grant opens the next one; only the open generation commits |
| `DurableLease` | detailed | the lease calls and a fenced `update_operation`, each split into the step that locks and reads and the step that writes and commits |
| `DurableLeaseMC` | instances | one lock for all (PostgreSQL, or one SQLite service) and one lock per client (SQLite services in several processes) |
| `DurableLeaseProofs` | proofs | five theorems about `DurableLease` |
| `ExclusiveEffect` | abstract | an effect is admitted, begun, sent and settled once, and begins only when no rival is open |
| `MachineEffect` | detailed | waiter, worker, operators, reconciliation, expiry and crashes around one physical effect |
| `MachineEffectMC` | instances | two effects, or a cleanup effect and an observation, of one machine |
| `MachineEffectProofs` | proofs | types of `MachineEffect` |
| `MachineEffectSafety` | proofs | six theorems: its safety properties and its refinement of `ExclusiveEffect` |
| `TaskQueue` | operators | `PriorityTaskQueue`, the task state machine, the leases and the ledger it writes: each operation as the set of its outcomes |
| `TaskRun` | detailed | one run of `OMAEngine` over `TaskQueue`: the dispatching coroutine, the two coroutines of each worker, operators, other runs, crashes and resumption |
| `TaskRunMC` | instances | two to four tasks of one run |
| `TaskRunProofs` | proofs | eleven theorems about `TaskRun`, and the three inductive invariants they rest on |
| `AtMostOnce` | abstract | an effect happens at most once, and the verdict "no" is final and true |
| `WebRelay` | detailed | a Web message through `JobStore`, `WebDeliveryJournal` and the tabs of the Edge extension |
| `WebRelayMC` | instances | one or two messages of one conversation, two tabs |
| `WebRelayProofs` | proofs | five theorems: one unreconciled message, safe retries, receipts, one send, its refinement of `AtMostOnce` |
| `RemoteJobs` | detailed | a tool call through the gateway, `RemoteStore` and the agents of a device |
| `RemoteJobsMC` | instances | one call, two gateway threads, one agent |
| `RemoteJobsProofs` | proofs | three theorems: `RemoteInvariant`, revocation, its refinement of `AtMostOnce` |
| `DurableJournal` | detailed | the steps of a call that writes tables, `events.jsonl` and `state.json`, over SQLite connections |
| `DurableJournalMC` | instances | three calls of two processes, one of them with a rollback |
| `DurableJournalProofs` | proofs | three theorems: `JournalInvariant`, true answers, the evidence file |
| `Promotion` | detailed | `promote_candidate` with its lease, its ledger and `apply_patch`, beside a user who edits |
| `PromotionMC` | instances | a patch of two files and a patch of a third |
| `PromotionProofs` | proofs | three theorems: `PromotionInvariant`, surviving edits, patches whole or reported |

`AtMostOnce` is what both job stores implement, with a refinement mapping each.
Otherwise the modules share no state. `TaskQueue` sees of the lease service only
which resource is leased to whom (`lease`), and what `DurableLease` proves of a
grant is what `Leasable`, and `Acquire` of `Promotion`, take for granted.
`RemoteJobs` sees of an operation its state and its transition table.
`DurableJournal` looks inside the step that the others call a commit: it is the
one module in which a connection keeps a transaction open.

### The service lock

Both detailed modules take the assignment of callers to locks as a constant.
`DurableRunService.lock` is a `threading.RLock` of one service object on SQLite,
so two service objects, in one process or in two, do not exclude each other; on
PostgreSQL it is `NamespaceLock`, an advisory lock that spans processes. On
SQLite a call reads in autocommit mode and its transaction begins with its first
write, hence the two steps of a call: nothing keeps another service from
committing between them. `reserve_operation_intent` and `begin_machine_effect`
open their transaction with `BEGIN IMMEDIATE` and are one step each. `OneScope`
says that all callers share a lock; most theorems and the passing runs assume
it, and section 3 says what is lost without it.

### DurableLease and the code

- `lease`, `fence`: the two tables. A row keeps the client, the token and the
  time; the client stands for owner, run and operation together, and `OwnerOf`
  lets clients share an owner, as all runs of an OMA workspace do.
- `Enter` reads the clock as `acquire_lease` and `renew_lease` do before
  `with self.lock`; `Begin` and `Return` are what happens under the lock after
  the rows are read (go on to write, or replay, refuse, or find nothing);
  `Commit...` write. `_verify_fence_locked` reads the clock itself: the `update`
  call compares with `now` and not with the time of entry.
- `held` is what a client remembers of a grant, `wrote` and `grants` record what
  was committed. `Crash` forgets a client's tokens and rolls its call back.
- Left out: events and projections of each call, validation of identifiers and
  of `ttl_s`, and which operation an update writes.

### MachineEffect and the code

- `waiter[o]` walks through `submit`: reserved, waiting for the executor,
  answering (the outcome is known or given up), releasing, answered; it may
  leave early and dies with its process. `worker[o]` walks through `run_sync`
  and `run_async`: locking, holding the OS lock, checked (the checkpoint
  passed), begun (the durable mark is committed), io, returned, noting and noted
  (the late-return annotation), done.
- `op[o]` is the row of the operation: its state and the `effect_started` flag
  of its progress. `call[s]` is a service call between its read and its commit,
  and remembers the row it read: `update_operation` writes the state and the
  whole progress it computed from that row.
- A reservation draws one fresh token and stores it in the operation and in the
  lease, and no later call changes the operation's, so the operation stands for
  its token: `lease[k] = o`. `DurableLease` is where tokens themselves are
  checked.
- The clock is abstract. `Expire` may happen at any step; a renewal only keeps
  it from happening, so a process whose keepalive fails and one whose keepalive
  works are both included.
- A policy decision is a free choice wherever the code asks for one: before the
  fence (`Leave`), in the checkpoint and the quota (`Refuse`), in the adapter
  (`Deny`) and after the effect (`Hear` may turn the outcome into UNCERTAIN).
- `Resubmit` covers `recover_existing` both ways; it answers with the state of
  the row or with UNCERTAIN.
- `Cleanup` operations are the ones a non-running run still admits,
  `Observation` the reads that hold the lease `machine-observation:<id>`.
- `Crash` frees the OS locks of the process, as the kernel does, and rolls back
  its call. What a remote machine goes on doing after that is not in `worker`;
  the quarantine is about exactly that.
- Left out: ACP interrupts and reads (they have locks of their own), nested
  `run_blocking` helpers, pending voice and attachment intents, evidence
  artifacts, output capture, the quota ledger, `record_metadata_transition`.

### TaskQueue, TaskRun and the code

- `queue` is the state of `PriorityTaskQueue` with the durable tables it writes.
  An operation runs under `asyncio.Lock` and awaits nothing inside, so it is one
  step; but it may raise halfway, where the state machine refuses a transition or
  the ledger refuses the state. Each operation therefore yields outcomes
  `[q, ok]`, and `ok = FALSE` leaves the queue as far as the code had got.
- `cancel_all` is a loop over tasks, and the model takes one of them per step:
  `sweep` holds the tasks it has yet to cancel, computed when it begins, in
  `Close` (the `finally` clause of `run()`) or when an operator cancels the run;
  `CancelNext` cancels one, and nothing else happens in between (`Yielded`). If a
  cancellation raises, the rest is not cancelled and a closing run does not reach
  `Save`.
- `worker[t]` is where the two coroutines of a dispatched task stand. The inner
  one (`_process_task`) walks through produce, verify, repair, review and
  integrate, the awaits at which something else may run; then it is settled (has
  returned) or broken (has raised) until the outer one (`process_task`) resumes.
  The outer one keeps the deadline, catches exceptions and ends as done or
  raised. `loop` is where `run()` stands; between two of its awaits nobody else
  runs (`Yielded`).
- `EventBus.publish` and the queue's own calls do not yield to the event loop
  when uncontended, so QUALITY_GATE, READY_FOR_MASTER and MASTER_REVIEW follow
  one another in one step, as do the transitions of `mark_failed`.
- `disk` is `tasks.json`, `packages` counts the entries of `packages.json`,
  `dispatched` is `dispatch.json`. `Crash` keeps those and the durable tables,
  `Resume` is `load_and_recover`.
- What agents answer is a free choice: any candidate may pass, be rejected, not be
  validated, be refused by the master or by the integration coordinator, and any
  await may raise or hang. Stagnation of repairs (the same rejection again) is the
  choice `round > 1`.
- A retried task waits until its old future has been reaped (`Startable`). The
  code may dispatch it a moment earlier; the old coroutine then has nothing left
  to do but to save and return.
- Left out: several nodes (`Capable` is the set of tasks some node can run),
  tasks added during a run, budgets, human boundaries, marginal gain and
  deadlock detection in convergence (off by default or implied), heartbeats,
  replanning on an unusable resume (another run), a lease that runs out while its
  task works, statuses the engine never sets (REJECTED, READY, DISPUTED), and
  `admit_effect_retry`, which only takes tasks an operator has annotated.

### WebRelay and the code

- `job` is the table `jobs`, `delivery` the table `web_deliveries`. A row keeps
  the state, the worker, the lease (numbered by requeues), whether the phase is
  one of `PRE_SEND_PHASES`, `may_have_sent` and the requeues. One host process
  runs the store behind its lock, so a call is one step; `Sweep` is `_expire`,
  which every call but `cancel` and `delivery_receipt` runs first and a refused
  call rolls back with everything else.
- `late[j]` is the abstract clock: the latest limit of the job that has passed.
  `Lapse` may come at any time.
- `sw[t]` is the coroutine `omaProcessJob` or `omaResumeJob` of a tab, `active`
  and `outbox` are the records in `chrome.storage`, which alone survive
  `Restart`. The request "sending" and the receipt travel through `net`: they are
  lost, answered to nobody, or arrive after their tab gave up (`GiveUp`). Other
  calls are one step that either happens or does not.
- `tried` and `typing` belong to the content script: a page attempts a delivery
  once, however often `SEND_MESSAGE` is repeated, and goes on when the service
  worker is dead. With `Reload` a page may be replaced and forgets.
- `Unfenced` are the jobs of the provider whose branch ignores the answer to
  "sending" (`service-worker.js:2233`).
- `messages[j]` counts what was posted in the conversation.
- Left out: `websend_` jobs (observed by the extension, never resumed), a late
  attested answer that repairs a verdict (`AtMostOnce` has it as `Repair`), probes,
  deletions, pairing, identity enrolment, attachments, the pool of tabs, and two
  host processes on one store.

### RemoteJobs and the code

- `job` is the table of `RemoteStore`: state, lease (numbered by requeues),
  `may_have_started`, requeues. `Swept` is `_expire_jobs`; progress, results and
  `cancel_job` do not run it.
- `agent[p]` walks through `_execute`: leased, prepared (the phase "preparing"
  was accepted), asking (the phase "executing" is posted), running, ran,
  reporting, retrying (the failure report after an error of the first one). Only
  an accepted "executing" lets the tool be called; the heartbeat renews while it
  runs.
- `call[c]` walks through `submit`, `invoke`'s polling and `cancel` of
  `RemoteGatewayService`, one step per call of a store; `op` is the durable
  operation and `Legal` its transition table. Two clients under one idempotency
  key meet between any two steps.
- Left out: several devices, pairing and tokens, chunks of a long result (one
  step), capability contracts, and a second process on the same store.

### DurableJournal and the code

- `log` is the table `events`, whose index is `seq`; `row` is the state of the
  run; `file` is `events.jsonl` and `projection` the history `state.json` was
  computed from.
- `conn[p]` is the transaction of the connection of process `p`. "auto": none.
  "begun": the implicit `BEGIN` of a write that was then refused. "reading": a
  `SELECT` has pinned its snapshot. "writing": it holds the write lock. `view[p]`
  is what it reads, its own writes included. SQLite in WAL mode allows one writer
  and refuses a writer whose snapshot is not the last one (`MayWrite`).
- A call reads the row, writes it, numbers its event, inserts it, appends the
  line, commits, projects. `Guarded` calls do this between `BEGIN IMMEDIATE` and
  `except: rollback`; the others have no rollback, and an exception leaves their
  transaction to the next call of the process (`Raises`).
- A line of `file` is whole or the beginning of one. A write that does not return,
  because it fails (`AppendFails`) or the process dies (`Crash`), leaves the file as
  it was, with a part of the line, or with all of it (`Torn`); the next line is
  glued to a part, and neither can be read (`Readable`).
- `Crash` loses the connection; the lines stay.
- Left out: PostgreSQL, whose scope lock makes calls exclude one another, several
  runs (each has numbers and files of its own), a failing `fsync` (the code
  ignores it), artifacts.

### Promotion and the code

- The content of a file is the set of changes it holds, numbered edits of the
  user and the patches of runs; equal hashes are equal contents. A patch whose
  hunks fit elsewhere in a file the user edited is the same set of changes.
- `at[r]` walks through `promote_candidate` (`base` .. `moved`), the lease,
  `integrate` (`observe` .. `commit`) and the handoff; `apply`, `write` and `undo`
  are the loop of `apply_patch` over the files and its `except` clause.
- `Undo` puts the written files back one by one; `UndoFails` is the file that
  cannot be put back, after which the loop goes on. `unrestored[r]` is a history
  variable: the files of which ROLLBACK_FAILED was reported.
- `guard` is `RunLock`. `lease` is the row of `project:integration`, with the
  token that `lease_fences` remembers; engines of the workspace take it too
  (`Other`), and its time may pass at any step.
- `Edit` may come between any two steps; it is marked as raced when the file is
  between its second reading and the end of `apply_patch`, the one window the
  code cannot close.
- Left out: the checkpoints of the engine, the verifier's sandbox and commands
  (which pass or fail), conflicting hunks beyond "fit or do not fit".

## 3. Runs

| Run | Instance | Result |
|---|---|---|
| `DurableLeaseSerial` | 3 clients, 2 owners, 1 resource, one lock, clock to 2, TTL 1, tokens to 3 | types, unique tokens, no stale commit, live leases kept, refinement of `FencedLease` |
| `MachineEffectSerial` | an effect and a cleanup effect, 1 machine, 1 process, one lock; outcomes SUCCEEDED and UNCERTAIN; operators may ask for CANCEL_REQUESTED and FAILED and cancel the run | types, quarantine, at most once, durable answers, final terminal states, refinement of `ExclusiveEffect` |
| `MachineEffectLive` | a cleanup effect and an observation of one machine, fairness | only the OS lock keeps them apart, and it does; every reserved submission ends |
| `TaskRunSerial` | 3 tasks: a broad writer, a writer of one file, a dependent of the first; 2 workers, 4 dispatches, 1 retry, 1 repair, `upsert_task` may fail | exclusion, types and indexes, every task ends, packages, isolation of failures |
| `TaskRunCrash` | 4 tasks: a broad writer, an EXTERNAL task that locks a file, and two dependents of it, one of which no node can run; leases of another run, 2 crashes | dependencies survive recovery, completed tasks never rerun, external effects are not replayed |
| `TaskRunLive` | 3 tasks, 3 dispatches, operators, fairness | cancelled tasks are not started, the run ends with a final state for every task |
| `WebRelayPair` | 2 messages of one conversation, 2 tabs, pages that are replaced, no requeue, no restart, symmetry | types, one unreconciled message per conversation, receipts are true and final |
| `WebRelaySend` | 1 message, 2 tabs, 1 requeue, 1 death of the service worker, fairness | refinement of `AtMostOnce` (at most one send, safe retries), every job ends, every tab is freed |
| `WebRelayGemini` | the same with the unfenced provider | `SafeToRetry` violated |
| `RemoteJobsSerial` | 1 tool call, 2 gateway threads, 1 agent, 1 requeue, 1 death of agent or gateway, revocation, fairness | types, the tool runs at most once, true operations (`RemoteInvariant`), revoked devices start nothing, refinement of `AtMostOnce`, every job ends |
| `DurableJournal` | a transition, a guarded transition and a checkpoint, 2 processes, 2 crashes, 2 failing files (an append may leave a part of its line), fairness | types, the row is explained, readers miss nothing, the projection is history (`JournalInvariant`), true answers, the last line is the event and readable unless glued to a fragment, every call ends |
| `PromotionEdits` | a patch of 2 files, tried twice, and a patch of a third file; 2 edits, 1 fault (a crash or a file that is not put back), 2 tokens for engines, fairness | types, exact ledger, committed once, fences grow, APPLIED is committed (`PromotionInvariant`), all or nothing but for reported files, edits survive, every promotion ends |

Where a run checks an invariant that is a conjunction of named parts, each part
has its own definition and comment. `AtMostOneSend` and `SafeToRetry` of
`WebRelay` are state predicates that `ImplementsAtMostOnce` implies: the abstract
effect happens once, and the verdict "no" is given only of an effect that has not
happened and excludes it from then on.

The bounds. Two clients suffice for every race between a reader and a writer; a
third lets a lease pass on while two older callers are still inside a call. A
clock of 2 with TTL 1 lets a lease run out, be retaken and run out again, and
three tokens let a generation be two behind. Two operations on one machine are
the smallest pair that can be confused, and a process that crashes and comes
back is one process: nothing of it survives but the tables. One process suffices
under one lock, because a process matters only through its lock and through
which workers die together. `Request` and `RunRequest` hold the requests that
compete with a result (a cancellation and an operator's own verdict); the
others move an operation or a run along the same tables.

For a run of tasks, two workers and three tasks give a clash, a dependency and
somebody who waits; four dispatches allow one retry of a task whose dependent
still has to run, and one fewer makes the bound on dispatches bite. Two crashes
let a run be interrupted while it recovers from the first. One validation retry
and one repair round reach both the repetition and its limit.

For the job stores, one job reaches every race of a lease: two tabs, or an
agent that dies and comes back, hold it one after the other while the requests
of the first are still on their way, and one requeue is both the repetition and
its limit. Two messages are needed only where one conversation keeps them apart,
and `WebRelayPair` checks that without requeues and restarts, which
`WebRelaySend` has. `MaxMessages` and `MaxEffects` (2) bound a counter that a
property keeps at 1. Two gateway threads are the smallest number that share an
idempotency key. In `DurableJournal` three calls let one process continue inside
the transaction another call left while a second process commits; more processes
only add waiting. In `PromotionEdits` each patch makes the other reconcile, and
two edits let the user change a file before and during one `apply_patch`.
`MaxFaults` bounds crashes and files that are not put back together: with one
fault the run takes most of its five minutes, and the theorems cover any number
of both. One file of the patch that is not put back is what can leave half a
patch, since the other one is.

The requeue of `WebRelaySend` and `RemoteJobsSerial` needs a lease that passes
before the deadline. In the Edge bridge the shipped constants exclude it:
`timeout_s` is at most 900 (`protocol.py:196`), `LEASE_WINDOW_S` and
`PROGRESS_WINDOW_S` are 900 s, a lease is capped at the deadline and `_expire`
looks at the deadline first. A store with a shorter window requeues, as the one
of `tests/unit/test_durable_relay.py:41` does (120 s). In the model a limit may
pass at any time, so it admits both and the properties hold whichever window is
configured.

The six runs of leases, effects and tasks check for deadlock: a crash or an
expiry never ends the game, and a finished run of tasks stutters (`Over`). The
others have finitely many jobs, calls or attempts and stop when these are used
up, so they say `CHECK_DEADLOCK FALSE`; there the liveness properties show that
nothing stops too early.

### Disagreements with the documentation

`WebRelayGemini` is the run that shows one, and the finding in `PROJECT.json`
quotes the line it contradicts: `native_bridge/protocol.py:4` has the worker wait
for the 200 of "sending" before it sends, `service-worker.js:2233` asks for it
only in the branch of one provider. When the request is lost or refused the
other branch sends nevertheless; the job then fails as not sent, which
`job_store.py:515` calls safe to retry, with its message in the conversation.

Changing a constant, or the assumption of one process, of a passing run shows
more of the kind.

Leases and effects. `DurableLeaseSerial` and `MachineEffectSerial` with a lock
of its own for each client or process (`MCOwnLock`) have one cause: on SQLite a
service call decides on rows read before its transaction begins. With several
services on one state root (the control plane and OMA, for instance) a fencing
token can be granted twice (`TokensUnique`), an old generation can commit
(`StaleNeverCommits`), the mark that quarantines a machine can be erased
(`Quarantine`) and a terminal state can be overwritten (`TerminalIsFinal`).
Under one lock, that is on PostgreSQL or with a single service object, none of
this happens: that is what the runs check and the theorems prove.
`docs/DURABLE_EXECUTION.md:60` and `:115` promise it without that condition.

Tasks:

- `TaskRunSerial` with `Operators = TRUE` violates `Isolation`: `cancel_task`
  marks a task and leaves its coroutine running, whose next transition raises;
  `mark_failed` cannot leave CANCELLED either, the exception reaches `run()` and
  takes the siblings along, against `engine.py:1902`. It also violates
  `PackagesAreCompleted` (a task cancelled during its integration is integrated)
  and, with `Deps <- MCApart`, `Exclusion`: the cancelled task still works when a
  clashing one starts;
- a task no node can run violates `EveryTaskEnds` when it is ready at the end:
  QUEUED has no way to ESCALATED or FAILED, and `mark_escalated` drops the task
  before it finds out;
- a crash between `packages.json` and `mark_completed` lets the task deliver a
  second package (`packages[t]` reaches 2);
- `TaskRunLive` with a crash violates `CancelHolds`: a cancellation is not saved
  before the worker ends;
- `TaskRunSerial` with a crash violates `Isolation`: the ledger has completed a
  task, `tasks.json` has not, the resumed run pops it, the ledger refuses, the
  run ends and cancels the rest; recovery never tells the ledger;
- `TaskRunSerial` with `Foreign <- MCFile` violates `Isolation`: if nothing runs
  and the only ready task waits for a lease, the loop ends and cancels it;
- `TaskRunCrash` with `UpsertMayFail = TRUE` violates `NoReplay`;
- `TaskRunCrash` with `Capable <- MCFour` and a check of `QueueInvariant` violates
  it: the process dies while `cancel_all` fails dependents, which the ledger knows
  and `tasks.json` does not; the resumed run waits for their dependency, the ledger
  refuses QUEUED when it completes, and `mark_completed` leaves a PENDING task in no
  index;
- a verdict can be overwritten: when `run()` leaves its loop between the end of a
  worker's inner coroutine and the resumption of its outer one, the handler of
  the cancelled future turns FAILED or ESCALATED into CANCELLED. `Interrupt` of a
  settled task is that step; `Isolation` speaks of unfinished tasks and permits
  it.

Job stores:

- `WebRelaySend` with `Reload = TRUE` violates `ImplementsAtMostOnce`: `omaSendToTab`
  injects the script again and repeats `SEND_MESSAGE` when no reply came, and a
  page replaced after it sent has no memory of that, although
  `service-worker.js:2236` says "A channel/submit error is not proof that nothing
  was sent. Never replay.";
- a job that was reserved but not sent is resumed as if it had been, and may end
  COMPLETED with the answer to an earlier message. No property speaks of this:
  the model does not tell answers apart;
- with two threads, one can write UNCERTAIN (correlation lost) and FAILED over an
  operation whose job runs. `OperationsTellTheTruth` claims nothing about these
  two; the projection corrects UNCERTAIN and not FAILED (`gateway.py:334-366`);
- both stores are one process in the models. `_expire` of `job_store.py`, and
  `_expire_jobs` and `cancel_job` of `sentra_remote/store.py`, read outside
  `BEGIN IMMEDIATE` and write without a condition on what they read; the relay and
  the MCP server are two processes on one such store (`relay_main.py:19`,
  `server.py:114`), and there a row that has started meanwhile could be requeued.

Journal and integration:

- an append that fails leaves the transaction of a plain call open. The next call
  of the process commits the event without its line; until then every other
  process gets "database is locked" and the readers of this one see what is not
  committed. `LastLineIsTheEvent` and `ReadersMissNothing` except exactly such
  events;
- a failed append or a crash may leave a part of a line without its newline
  (`durable.py:456-458`). The next event's line is glued to it, so a committed
  event may have no line that can be read, and the last readable line with its
  number may be of an event that never was. `LastLineIsTheEvent` excepts the line
  just after such a fragment;
- after one "database is locked" a connection keeps an open `BEGIN`. If it then
  reads, its snapshot is pinned, and once another process commits, every later
  plain write of it fails and it reads stale rows until a guarded call rolls back
  or the process is restarted. Its calls end (`EveryCallEnds`), in errors;
- `state.json` may stay behind when two processes project, and lines of events
  that never were share a number with the event that was;
- PROJECT_REVISION_CONFLICT and INTEGRATION_POST_APPLY_HASH_MISMATCH refuse and
  leave the whole patch applied and uncommitted; a promotion that dies between the
  patch and the handoff stays CANDIDATE_READY, and its retry conflicts with its
  own patch for ever. `AppliedIsCommitted` and `CommittedOnce` hold for that
  reason and not because it is resumed;
- a patch of several files may stay in some of them without any crash: the write of
  one fails, and so does the write that puts another one back
  (`patch_manager.py:294-303`). The error names ROLLBACK_FAILED and nothing
  repairs the checkout later; `AllOrNothing` excepts the reported files;
- the undo of `apply_patch` overwrites what the user wrote in that file
  meanwhile, the exception `EditsSurvive` makes;
- durable leases compare keys exactly: `workspace:*` and `file:x` clash inside
  one run (`TaskQueue`) and not across runs.

Hazards no property covers, besides: the progress an operator passes to
`update_operation` may contain `effect_started` (`durable.py:1446`); a running
task without resources does not keep an EXCLUSIVE one out (`queue.py:86`);
`add_task` checks the capacity before it takes the lock (`queue.py:206`);
`cancel_all` may raise in the `finally` clause of `run()` and `tasks.json` is then
not saved (`engine.py:2047`); leases taken before a busy one are released at best
effort (`durable_resources.py:81`); the engine's checkpoint is the diff of its
whole work tree and may hold the patch of a task whose package is not recorded
(`runtime.py:82`), which a resumed run trusts.

### Fairness

`MachineEffectLive` assumes weak fairness of committing calls (a thread that
holds the service lock runs on; SQLite and PostgreSQL calls return) and strong
fairness of each submitter's own steps (when the service lock becomes free again
and again, a waiting thread gets it sooner or later). It assumes nothing of
providers, workers, operators or the OS lock: a provider may hang forever.
`submit` ends all the same because `GuardedExecutor.start` waits with
`asyncio.wait_for`, which is the action `GiveUp`.

`TaskRunLive` assumes weak fairness of the dispatching coroutine and of the outer
coroutine of each worker, that is of the event loop and of the deadline in
`process_task`; it assumes nothing of the inner coroutine, of agents or of
operators.

`WebRelaySend` assumes that time passes (`Lapse` of the deadline), that somebody
asks the store now and then (`Look`: pollers do, and so does every caller that
waits), and that each tab settles: every wait of the extension has a limit, the
alarm and the recovery run on each tick. It does not assume that a request
arrives, that a page sends or that a result is ever stored.

`RemoteJobsSerial` assumes the first two only, nothing of agents, clients or the
device. `DurableJournal` assumes that a process which is in a call goes on, which
the busy timeout of SQLite justifies: a writer that has to wait is refused in the
end. `PromotionEdits` assumes the same of a promotion (its commands have a
timeout) and nothing else: no promotion waits for a lease to run out, for the
user or for other engines.

## 4. Proofs

Each theorem holds for every value of the constants that satisfies the named
assumption of its module (`LeaseAssumption`, `EffectAssumption`,
`RemoteAssumption`, `RelayAssumption`, `JournalAssumption`,
`PromotionAssumption`, `QueueAssumption` with `RunAssumption`), which say little
more than what kind of value each constant is; the middle column says what it
needs besides.

| Theorem | Needs | Property |
|---|---|---|
| `DurableLeaseProofs!TypeCorrect` | | `TypeOK` |
| `DurableLeaseProofs!TokensNeverRepeat` | `OneScope` | `TokensUnique` |
| `DurableLeaseProofs!StaleNeverCommit` | `OneScope` | `StaleNeverCommits` |
| `DurableLeaseProofs!LiveLeaseKept` | `OneScope` | `LiveLeaseIsKept` |
| `DurableLeaseProofs!LeaseImplementsFenced` | `OneScope` | `ImplementsFencedLease` |
| `MachineEffectProofs!TypeCorrect` | | `TypeOK` |
| `MachineEffectSafety!PerformedOnce` | | `AtMostOnce` |
| `MachineEffectSafety!MachineDoesOneThing` | | `OneInFlight` |
| `MachineEffectSafety!TerminalStaysFinal` | `OneScope` | `TerminalIsFinal` |
| `MachineEffectSafety!QuarantineHolds` | `OneScope` | `Quarantine` |
| `MachineEffectSafety!AnswersHold` | `OneScope` | `AnswerIsDurable` |
| `MachineEffectSafety!EffectImplementsExclusive` | `OneScope` | `ImplementsExclusiveEffect` |
| `RemoteJobsProofs!RemoteCorrect` | | `RemoteInvariant` |
| `RemoteJobsProofs!Revocation` | | `RevokedStartsNothing` |
| `RemoteJobsProofs!Implementation` | | `ImplementsAtMostOnce` |
| `WebRelayProofs!OneUnreconciledMessage` | `Fenced` | `RelayInvariant` |
| `WebRelayProofs!RetryIsSafe` | `Fenced` | `SafeToRetry` |
| `WebRelayProofs!FinalReceipts` | `Fenced` | `ReceiptsAreFinal` |
| `WebRelayProofs!SentOnce` | `Fenced`, `~Reload` | `AtMostOneSend` |
| `WebRelayProofs!Implementation` | `Fenced`, `~Reload` | `ImplementsAtMostOnce` |
| `DurableJournalProofs!OneHistory` | | `JournalInvariant` |
| `DurableJournalProofs!TrueAnswers` | | `AnswersAreTrue` |
| `DurableJournalProofs!EvidenceIsTrue` | | `LastLineIsTheEvent` |
| `PromotionProofs!LedgerCorrect` | | `PromotionInvariant` |
| `PromotionProofs!NoEditLost` | | `EditsSurvive` |
| `PromotionProofs!PatchesAreWhole` | | `AllOrNothing` |
| `TaskRunProofs!TypeCorrect` | | `TypeOK` |
| `TaskRunProofs!DependenciesHold` | | `DependenciesFirst` |
| `TaskRunProofs!CompletedStays` | | `CompletedNeverReruns` |
| `TaskRunProofs!LivingTasksExclude` | | `ExclusionOfTheLiving` |
| `TaskRunProofs!TasksExclude` | `~Operators` | `Exclusion` |
| `TaskRunProofs!NoReplayOutside` | `~Operators`, `~UpsertMayFail` | `NoReplay` |
| `TaskRunProofs!CancelledStays` | `MaxCrashes = 0` | `CancelHolds` |
| `TaskRunProofs!PackagesComplete` | `MaxCrashes = 0`, `~Operators` | `PackagesAreCompleted` |
| `TaskRunProofs!QueueCorrect` | `Orderly` | `QueueInvariant` |
| `TaskRunProofs!AllTasksEnd` | `Orderly` | `EveryTaskEnds` |
| `TaskRunProofs!TasksAreIsolated` | `Alone` | `Isolation` |

So a state root that several SQLite services share still sends an operation at
most once and runs one effect per machine at a time; it is the record that can
go wrong there, and with it the quarantine.

The argument for the lease. The inductive invariant says that under one lock a
call that has locked is alone and the rows it read are still the rows of the
tables (`ReadIsCurrent`), that every token ever granted is at most the fence,
that the row of `leases` carries the fence of its resource, and that updates
have committed no newer token than the fence. The first part is what fails when
locks differ; with it, the token computed from the rows read is larger than
every token granted, and a presented token equals the current fence when the
update is written. The refinement maps the fence to the generation and a row to
its holder; a call that only reads is a stutter.

The argument for the effect. `Typed` adds to `TypeOK` that a pending call writes
operation or run states only and that an operation on its way has a home
process; without them a commit could not be typed. `Once` follows an operation
from absent to reserved to a worker: the stages before `Dispatch` are never
entered again, so nothing is sent twice. `OneHolder` is the OS lock. Neither
needs the service lock.

`ReadIsCurrent` is again what one lock gives: the row a pending call read is the
row of the table, the state it will write is a legal move from there, a result
that is being written is the one its waiter will tell. From it `RowsMove` and
`RunMovesOn`: every step moves rows and the run along the transition tables and
keeps the mark of a started effect. Then `Marked` (who began is marked, for
ever) and `Quarantined` (the lease of a machine passes over no unsettled effect:
a reservation refuses while `Unresolved` is not empty, and to begin one must hold
the lease) give the quarantine; `Recorded` (what a waiter that gives its lease
back is about to tell is in the row) gives the durable answers. The refinement
maps a row to the phase of its operation: `Reserve` is an admission, `Begin` and
`Dispatch` are themselves, a write that reaches a terminal state settles, and
everything else is a stutter.

The argument for remote jobs. `RunsOnce` is not inductive: nothing in it keeps a
second agent, or a request that arrives late, from starting the tool again. The
invariant `IInv` follows the leases. A lease has a number no earlier lease of its
job had (`LeasesGiven`: the requeues count them), so one agent at most serves it,
and every request on its way under it is that agent's (`OneHolder`). That agent
asks for leave once: while its request travels it waits, and the row is not
marked under this lease yet (`AskedOnce`, `NotYetAsked`). `DeliverExecuting`
marks the row as it gives leave, and a marked row is never queued, cancelled or
leased again (`Marked`); hence an agent that has leave is the only one, and the
tool has not been called (`Running`). What a thread of the gateway has read of an
ended job stays true because an end is final (`SeenIsFinal`), so what it projects
later is true as well. The proof calls a step quiet when it gives no lease and no
leave and calls no tool (`Quiet`); all but `Poll`, `AskToRun`, `DeliverExecuting`
and `CallTool` are, and these four have a lemma each. The refinement maps
`CallTool` to `Perform`, a step that ends rows to `Close`, and the rest to a
stutter of `Close`.

The argument for the Web relay. `Fenced` says that no job belongs to the provider
which sends without the 200 of "sending"; with one that does, `WebRelayGemini`
refutes `SafeToRetry`. The 200 marks the row and leaves an intent in the
delivery journal in one step, and a tab comes near a click only with it
(`MayClick`), so whatever a page has tried or is typing has its mark and its
intent, and its tab is the worker of the row (`Pages`, `Posted`). A marked row is
never queued again (`Marked`): the worker it names is the only one ever. Two
messages of one conversation are never open together because the journal refuses
the second intent (`OneIntent`). All this holds while pages are replaced at will.
That a message is posted once needs `~Reload` besides: `Once` says a page that
posted remembers its attempt, and a new page does not. The refinement maps the
click to `Perform` and a row that ends to `Close`.

The argument for the journal. No hypothesis: any number of processes, calls with
and without rollback, crashes and failing files. `Snapshot` says what a
transaction reads: one that only reads has a prefix of the committed history; one
that writes was begun on the last one and extends it by the events of calls that
failed to append their line, and last by the event of the call it is in. While it
is open nobody else commits (`Alone`). `Decided` follows a call through every
history, committed or not, and is what the answers are read from. A call in its
last steps holds the transaction and its number is beyond the committed history,
so its line is the newest with that number when it commits (`Executes`); no later
commit gets that number, and no line with it is written after (`Lines`). A part of
a line belongs to a call that has ended, in an error, a rollback or a crash
(`Fragments`): a call that commits has written its line whole.

The argument for promotion. No hypothesis either, and patches may share files.
The workspace lock lets one promotion work at a time (`Mine`), so beside it only
the user changes the checkout. `Patching` is the loop of `apply_patch`: a file
has the patch when it was written and not put back, and what was read of it lacks
the patch, has the patches of the other runs, and has every edit that was not
made while the file was held. Hence the undo restores what it should, and when the
stage ends a patch is whole, or is in no file but those reported as not put back
(`Reported`). A promotion tests and applies its patch
only on a checkout that lacks it and a committed patch is in every file it
changes, so no run commits twice. `Tokens`: a promotion past the lease has a
later token than any commit, or its lease has been taken and it cannot renew.

The argument for the run of tasks has three layers.

`IInv` holds in every run: with crashes, operators, leases of other runs and a
ledger that refuses. Its parts relate where the coroutines of a task stand to the
state of the task (`Staged`), to the resources it holds (`InHand`, `Holdings`)
and to its dependencies (`Founded`: a task that waits for nothing has them all
completed). The many actions reduce to two shapes: an operation of the queue
leaves all tasks but one as they were, up to dependents that are failed or made
ready, and a turn moves one pair of coroutines. `StatusOf` may be CANCELLED under
a coroutine that has not noticed; this is why `Exclusion` needs `~Operators`,
while `ExclusionOfTheLiving` (both tasks still meant to work) needs nothing.

`QInv` adds that the four indexes, the leases and the ledger agree with the
states (`Accurate`) and that `cancel_all` leaves nothing behind (`Settling`). It
needs an `Orderly` run, no crash and a node for every task, and both halves are
needed: a crash loses states the ledger was told of, so a later transition is
refused halfway; and the escalation of a task no node can run takes it out of
the indexes before the state machine refuses the move and leaves it QUEUED.
Operators and other runs are allowed.

`AInv` adds that the loop ends only when nothing works, and that what is left then
has no dispatch left (`Finished`), because a task in an active state has
coroutines that go on (`Attended`) and a blocked task waits for tasks that can
still complete (`Hopeful`). It needs a run left `Alone`: an operator or a lease
held elsewhere can leave tasks that the end of the run cancels (section 3), and
so can dependencies in a cycle. `Acyclic` is the set form, every set of tasks has
one that depends on no other of the set; the lemma `Stuck` applies it to the
unfinished tasks to find one that is ready.

What stays with TLC: the liveness properties (`SubmitEnds`, `RunEnds`,
`EveryJobEnds`, `EveryTabIsFreed`, `EveryCallEnds`, `EveryPromotionEnds`), since
the installed provers have no ENABLED. Every invariant, action property and
refinement that a passing run checks is a theorem above. For the hypotheses
section 3 names changes of the runs that fail without them, with two exceptions:
`Acyclic`, because `PlannerAgent` refuses a plan with a cycle
(`agents/planner.py:217`); and `~Operators` of `NoReplayOutside`, where `lost`
would also count a task whose start was refused (a cancellation that raised
halfway), which has not acted.

## 5. Plan

Done: leases, effects, remote jobs, the Web relay, the journal, promotion and the
run of tasks, each with the proofs of its safety properties. Left, in this order:

1. Refinements: abstract specifications of the task queue (a task moves along its
   table, clashing tasks take turns), of the journal (a log that grows, with one
   answer for each call) and of promotion (a ledger of tested trees), checked by
   the runs and proved from the invariants above.
2. The engine's work tree: `TaskRun` composed with `Promotion`, for the
   checkpoint of `runtime.py:77-86`.
3. Two processes on one job store, with the read and the write of `_expire` apart.
4. `DurableRun`: goals, agents and chats, `resume`, `rebind_chat`, and `reconcile`
   over all of them.
5. Acquisition of several leases by `DurableResourceLeaseManager`, `add_task`
   during a run, the quota ledger, event ingress, session checkpoints, routines,
   the federation journal.

## 6. Not modelled

Components with status `not_modelled` in `PROJECT.json` carry their reason there.
Most of the repository is of that kind: of some 200,000 lines, the larger part is
the canvas, the desktop and remote user interfaces, installers, adapters to
concrete programs and providers, the command line, and services that format,
validate or forward. They have little state of their own that two actors share,
so the lines the models cover stay a small share of the whole although they are
the part that decides what is executed and when.

Within the modelled parts: formats of rows and events, wording of errors,
validation of identifiers, artifacts and their digests, policy decisions (a free
choice wherever the code asks for one), and the connection-level state of SQLite
outside `DurableJournal` (there a `database is locked` error is a refusal like
any other). The remaining omissions of each module are listed under its name in
section 2.
