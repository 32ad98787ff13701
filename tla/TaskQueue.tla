------------------------------ MODULE TaskQueue ------------------------------
(***************************************************************************)
(* PriorityTaskQueue (orchestrator/queue.py) with the task state machine   *)
(* and the two durable tables it writes: the leases of                     *)
(* DurableResourceLeaseManager and the states of DurableTaskLedger.        *)
(*                                                                         *)
(* A queue is a record.  An operation runs under the lock of the queue and *)
(* never awaits there, so it is one step; but it may raise halfway: the    *)
(* state machine refuses a transition of the task, or the ledger refuses   *)
(* the state it is told.  An operation is therefore a set of outcomes      *)
(* [q, ok]: the queue it leaves, and whether it returned or raised.        *)
(***************************************************************************)
EXTENDS Naturals, FiniteSets

CONSTANTS
  Task,         \* the tasks of one run
  Deps,         \* Deps[t]: the dependencies of t
  Scope,        \* Scope[t]: its side_effect_scope
  Locks,        \* Locks[t]: its resource_locks
  Targets,      \* Targets[t]: its target_files, as resources "file:..."
  File,         \* the resources "file:..."
  NamedLock,    \* the other names that occur in resource_locks
  Rank,         \* Rank[t]: place in the order of priority and creation time
  MaxRetries,   \* max_retries
  Free,         \* a resource without a live lease
  Elsewhere     \* a resource leased to another run of the workspace

Workspace == "workspace:*"
External  == "external:*"
Exclusive == "__run_exclusive__"
Resource  == File \union NamedLock \union {Workspace, External, Exclusive}

Status ==
  {"PENDING", "QUEUED", "RUNNING", "VALIDATING", "REJECTED", "REPAIRING", "READY",
   "DISPUTED", "QUALITY_GATE", "READY_FOR_MASTER", "MASTER_REVIEW", "COMPLETED",
   "FAILED", "RETRYING", "CANCELLED", "ESCALATED"}

ASSUME QueueAssumption ==
  /\ IsFiniteSet(Task)
  /\ Deps \in [Task -> SUBSET Task]
  /\ Scope \in [Task -> {"READ_ONLY", "ISOLATED", "WORKSPACE_WRITE", "EXTERNAL", "EXCLUSIVE"}]
  /\ Locks \in [Task -> SUBSET (File \union NamedLock)]
  /\ Targets \in [Task -> SUBSET File]
  /\ Rank \in [Task -> Nat]
  /\ MaxRetries \in Nat
  /\ Free \notin Task /\ Elsewhere \notin Task /\ Free # Elsewhere

Dead     == {"FAILED", "ESCALATED", "CANCELLED"}
Terminal == Dead \union {"COMPLETED"}

\* VALID_TASK_TRANSITIONS; TASK_TRANSITIONS of the ledger is the same table.
Moves ==
  [PENDING          |-> {"QUEUED", "RUNNING", "FAILED", "CANCELLED"},
   QUEUED           |-> {"RUNNING", "CANCELLED"},
   RUNNING          |-> {"VALIDATING", "COMPLETED", "FAILED", "CANCELLED"},
   VALIDATING       |-> {"READY", "QUALITY_GATE", "REJECTED", "DISPUTED", "FAILED", "CANCELLED"},
   REJECTED         |-> {"REPAIRING", "ESCALATED", "FAILED", "CANCELLED"},
   REPAIRING        |-> {"VALIDATING", "FAILED", "ESCALATED", "CANCELLED"},
   READY            |-> {"QUALITY_GATE", "READY_FOR_MASTER", "CANCELLED"},
   DISPUTED         |-> {"ESCALATED", "REPAIRING", "CANCELLED"},
   QUALITY_GATE     |-> {"READY_FOR_MASTER", "REPAIRING", "FAILED", "CANCELLED", "ESCALATED",
                         "VALIDATING"},
   READY_FOR_MASTER |-> {"MASTER_REVIEW", "COMPLETED", "CANCELLED"},
   MASTER_REVIEW    |-> {"COMPLETED", "REPAIRING", "FAILED", "CANCELLED"},
   FAILED           |-> {"RETRYING", "ESCALATED", "CANCELLED"},
   RETRYING         |-> {"QUEUED", "RUNNING", "FAILED", "CANCELLED"},
   ESCALATED        |-> {"MASTER_REVIEW", "FAILED", "CANCELLED"},
   COMPLETED        |-> {},
   CANCELLED        |-> {}]

CanMove(from, to) == from = to \/ to \in Moves[from]

-----------------------------------------------------------------------------
(* The queue *)

\* A task as it is kept in memory and in tasks.json; uncertain stands for
\* metadata["timeout_uncertain"], repairs for current_repair_round.
TaskRecord == [status: Status, retries: Nat, repairs: Nat, uncertain: BOOLEAN]

Queue ==
  [task:    [Task -> TaskRecord],
   ready:   SUBSET Task,
   blocked: [Task -> SUBSET Task],   \* unfulfilled dependencies; {}: not in the index
   running: SUBSET Task,
   held:    [Task -> SUBSET Resource],
   lease:   [Resource -> Task \union {Free, Elsewhere}],   \* durable
   ledger:  [Task -> Status]]                              \* durable

Blocked(q) == {t \in Task : q.blocked[t] # {}}
Pending(q) == q.ready \union q.running \union Blocked(q) # {}
Completed(q) == {t \in Task : q.task[t].status = "COMPLETED"}
StatusOf(q, t) == q.task[t].status

\* (Mutant: add_task queues every task at once.)
PlannedReady ==
  [task    |-> [t \in Task |-> [status |-> "QUEUED", retries |-> 0, repairs |-> 0,
                                uncertain |-> FALSE]],
   ready   |-> Task,
   blocked |-> [t \in Task |-> {}],
   running |-> {},
   held    |-> [t \in Task |-> {}],
   lease   |-> [r \in Resource |-> Free],
   ledger  |-> [t \in Task |-> "QUEUED"]]

\* Every task of the plan has been added: with unfulfilled dependencies it is
\* PENDING and blocked, without it is QUEUED and ready.
Planned ==
  LET start == [t \in Task |-> IF Deps[t] = {} THEN "QUEUED" ELSE "PENDING"] IN
  [task    |-> [t \in Task |-> [status |-> start[t], retries |-> 0, repairs |-> 0,
                                uncertain |-> FALSE]],
   ready   |-> {t \in Task : Deps[t] = {}},
   blocked |-> Deps,
   running |-> {},
   held    |-> [t \in Task |-> {}],
   lease   |-> [r \in Resource |-> Free],
   ledger  |-> start]

Ok(q)    == [q |-> q, ok |-> TRUE]
Raise(q) == [q |-> q, ok |-> FALSE]

\* TaskStateMachine.transition where it is allowed, and _sync_task_locked where
\* the ledger agrees.
Put(q, t, status) == [q EXCEPT !.task[t].status = status]
Sync(q, t) == [q EXCEPT !.ledger[t] = q.task[t].status]

\* (Mutant: the ledger takes any state.)
NeverRefuses(q, t, status) == FALSE

\* The ledger raises TaskLedgerConflict.
Refuses(q, t, status) == ~CanMove(q.ledger[t], status)

-----------------------------------------------------------------------------
(* Resources *)

Resources(t) ==
  Locks[t] \union
    (CASE Scope[t] = "WORKSPACE_WRITE" -> IF Targets[t] = {} THEN {Workspace} ELSE Targets[t]
       [] Scope[t] = "EXTERNAL" /\ Locks[t] = {} -> {External}
       [] Scope[t] = "EXCLUSIVE" -> {Exclusive}
       [] OTHER -> {})

Writes == File \union {Workspace}

\* (Mutant: a broad writer looks for its own lock only.)
SameNameConflict(resources, holders) ==
  \/ Exclusive \in holders
  \/ Exclusive \in resources /\ holders # {}
  \/ resources \intersect holders # {}

\* _resource_conflict_locked, for the resources held in this run.
Conflict(resources, holders) ==
  \/ Exclusive \in holders
  \/ /\ resources # {}
     /\ \/ Exclusive \in resources /\ holders # {}
        \/ Workspace \in holders /\ resources \intersect Writes # {}
        \/ Workspace \in resources /\ holders \intersect Writes # {}
        \/ resources \intersect holders # {}

Holders(q) == UNION {q.held[t] : t \in Task}

\* The manager leases every resource of t, or none; the lease of an earlier
\* execution of t is replayed, because it carries the same operation_id.
Leasable(q, t) == \A r \in Resources(t) : q.lease[r] \in {Free, t}

\* _running_tasks.pop and _release_resources_locked.
LetGo(q, t) ==
  [q EXCEPT !.running = @ \ {t},
            !.held[t] = {},
            !.lease = [r \in Resource |-> IF r \in q.held[t] /\ q.lease[r] = t
                                          THEN Free ELSE q.lease[r]]]

\* (Mutant: a ready task stays in the ready queue.)
OutOfBlocked(q, t) == [q EXCEPT !.blocked[t] = {}]

\* Out of the ready queue and the blocked index.
Drop(q, t) == [q EXCEPT !.ready = @ \ {t}, !.blocked[t] = {}]

-----------------------------------------------------------------------------
(* Dispatch *)

\* Ready tasks that pop_ready_task would take for a node with all capabilities
\* of the tasks in capable.
Poppable(q, capable) ==
  {t \in q.ready \intersect capable : ~Conflict(Resources(t), Holders(q)) /\ Leasable(q, t)}

\* pop_ready_task: the first of them, in the order of _sort_ready_queue.  If
\* the ledger refuses RUNNING the task is left RUNNING, with its resources.
PopReady(q, capable) ==
  LET candidates == Poppable(q, capable)
      first == {t \in candidates : \A u \in candidates : Rank[t] <= Rank[u]}
      acquired(t) == [q EXCEPT
        !.ready = @ \ {t},
        !.held[t] = Resources(t),
        !.lease = [r \in Resource |-> IF r \in Resources(t) THEN t ELSE q.lease[r]]]
      running(t) == [Put(acquired(t), t, "RUNNING") EXCEPT !.running = @ \union {t}]
      outcome(t) ==
        IF ~CanMove(StatusOf(q, t), "RUNNING") THEN Raise(acquired(t))
        ELSE IF Refuses(q, t, "RUNNING") THEN Raise(running(t))
        ELSE Ok(Sync(running(t), t))
  IN {[t |-> t, out |-> outcome(t)] : t \in first}

-----------------------------------------------------------------------------
(* Settling a task *)

\* Blocked tasks that depend on a dead one, directly or not.
Doomed(q) ==
  LET closed(S) == \A b \in Blocked(q) :
        (\E d \in q.blocked[b] : d \in S \/ StatusOf(q, d) \in Dead) => b \in S
  IN {b \in Blocked(q) : \A S \in SUBSET Blocked(q) : closed(S) => b \in S}

\* The tasks of D fail and leave the blocked index, and the ledger follows.
Fail(q, D) ==
  [q EXCEPT !.task = [t \in Task |-> IF t \in D THEN [q.task[t] EXCEPT !.status = "FAILED"]
                                     ELSE q.task[t]],
            !.blocked = [t \in Task |-> IF t \in D THEN {} ELSE q.blocked[t]],
            !.ledger = [t \in Task |-> IF t \in D THEN "FAILED" ELSE q.ledger[t]]]

\* _fail_dependents_locked.  It fails the doomed tasks one after another, a
\* task after the one it waits for; where the ledger refuses, it raises, and
\* the tasks not yet reached stay blocked.
Cascade(q) ==
  LET refused == {b \in Doomed(q) : Refuses(q, b, "FAILED")}
      reached(D) == \A b \in D : \E d \in q.blocked[b] : d \in D \/ StatusOf(q, d) \in Dead
      failing == {x \in (SUBSET (Doomed(q) \ refused)) \X refused : reached(x[1] \union {x[2]})}
  IN IF refused = {} THEN {Ok(Fail(q, Doomed(q)))}
     ELSE {Raise([Fail(q, x[1] \union {x[2]}) EXCEPT !.ledger[x[2]] = q.ledger[x[2]]]) :
             x \in failing}

\* Tasks whose last dependency completed become QUEUED one after another.  All
\* have left the blocked index before the first of them is queued.
Unblock(q, t) ==
  LET freed == {b \in Blocked(q) : q.blocked[b] = {t}}
      refused == {b \in freed : Refuses(q, b, "QUEUED")}
      queued(D) ==
        [q EXCEPT !.task = [b \in Task |-> IF b \in D THEN [q.task[b] EXCEPT !.status = "QUEUED"]
                                           ELSE q.task[b]],
                  !.ready = @ \union D,
                  !.blocked = [b \in Task |-> q.blocked[b] \ {t}],
                  !.ledger = [b \in Task |-> IF b \in D \ refused THEN "QUEUED" ELSE q.ledger[b]]]
  IN IF refused = {} THEN {Ok(queued(freed))}
     ELSE {Raise(queued(D)) : D \in {S \in SUBSET freed : \E b \in refused :
                                         S \intersect refused = {b}}}

MarkCompleted(q, t) ==
  LET let == LetGo(q, t)
      done == Put(let, t, "COMPLETED")
  IN IF ~CanMove(StatusOf(q, t), "COMPLETED") THEN {Raise(let)}
     ELSE IF Refuses(q, t, "COMPLETED") THEN {Raise(done)}
     ELSE Unblock(Sync(done, t), t)

\* (Mutant: a retried task is not put back into the ready queue.)
MarkFailedLosesRetry(q, t, retryable) ==
  LET let == [LetGo(q, t) EXCEPT !.task[t].retries = @ + 1]
      failed == Put(let, t, "FAILED")
      again == retryable /\ let.task[t].retries <= MaxRetries
  IN IF ~CanMove(StatusOf(q, t), "FAILED") THEN {Raise(let)}
     ELSE IF Refuses(q, t, "FAILED") THEN {Raise(failed)}
     ELSE IF again THEN {Ok(Sync(Put(failed, t, "QUEUED"), t))}
     ELSE Cascade(Sync(failed, t))

\* mark_failed: FAILED, and then either RETRYING and QUEUED again or, out of
\* retries, dead with its dependents.
MarkFailed(q, t, retryable) ==
  LET let == [LetGo(q, t) EXCEPT !.task[t].retries = @ + 1]
      failed == Put(let, t, "FAILED")
      again == retryable /\ let.task[t].retries <= MaxRetries
  IN IF ~CanMove(StatusOf(q, t), "FAILED") THEN {Raise(let)}
     ELSE IF Refuses(q, t, "FAILED") THEN {Raise(failed)}
     ELSE IF again
          THEN {Ok([Sync(Put(failed, t, "QUEUED"), t) EXCEPT !.ready = @ \union {t}])}
     ELSE Cascade(Sync(failed, t))

\* mark_escalated, directly or by way of FAILED.  It does not tell the ledger.
MarkEscalated(q, t) ==
  LET out == Drop(LetGo(q, t), t) IN
  IF CanMove(StatusOf(q, t), "ESCALATED") \/ CanMove(StatusOf(q, t), "FAILED")
  THEN Cascade(Put(out, t, "ESCALATED"))
  ELSE {Raise(out)}

\* mark_cancelled.  It does not tell the ledger either.
MarkCancelled(q, t) ==
  IF StatusOf(q, t) \in {"COMPLETED", "CANCELLED"} THEN {Ok(q)}
  ELSE Cascade(Put(Drop(LetGo(q, t), t), t, "CANCELLED"))

\* cancel_all: the tasks it cancels, those that are not terminal when it begins.
Unfinished(q) == {t \in Task : StatusOf(q, t) \notin Terminal}

\* fail_unfulfillable_blocked: does nothing unless some blocked task has only
\* dead dependencies left.
FailUnfulfillable(q) ==
  IF \E b \in Blocked(q) : \A d \in q.blocked[b] : StatusOf(q, d) \in Dead
  THEN Cascade(q)
  ELSE {Ok(q)}

-----------------------------------------------------------------------------
(* Crash and recovery *)

\* What a crash leaves of the queue: the two durable tables and tasks.json.
Forget(q, disk) ==
  [q EXCEPT !.task = disk, !.ready = {}, !.running = {},
            !.blocked = [t \in Task |-> {}], !.held = [t \in Task |-> {}]]

Interrupted ==
  {"RUNNING", "VALIDATING", "REPAIRING", "QUALITY_GATE", "MASTER_REVIEW",
   "READY_FOR_MASTER", "RETRYING"}

\* (Mutant: only a timeout counts.)
UncertainOnly(record, t) == record.uncertain

\* An interrupted task may have acted on the world.
NeedsReconciliation(record, t) ==
  record.uncertain \/ Scope[t] \in {"EXTERNAL", "EXCLUSIVE"}

\* (Mutant: recovery trusts the ready queue it restored.)
RecoveredReady(q) ==
  LET status(t) ==
        LET s == StatusOf(q, t) IN
        IF s \in Interrupted
        THEN IF NeedsReconciliation(q.task[t], t) THEN "ESCALATED" ELSE "QUEUED"
        ELSE IF s = "PENDING" THEN "QUEUED"
        ELSE s
  IN [q EXCEPT !.task = [t \in Task |-> [q.task[t] EXCEPT !.status = status(t)]],
               !.ready = {t \in Task : status(t) = "QUEUED"}]

\* restore_task for every task of tasks.json, then recover_incomplete_tasks.
\* Neither tells the ledger, and nothing fails the dependents of a task that is
\* escalated here.
Recovered(q) ==
  LET left(t) == Deps[t] \ Completed(q)
      status(t) ==
        LET s == StatusOf(q, t) IN
        IF s \in Interrupted /\ NeedsReconciliation(q.task[t], t) THEN "ESCALATED"
        ELSE IF s \notin Interrupted \union {"QUEUED", "PENDING"} THEN s
        ELSE IF left(t) = {} THEN "QUEUED"
        ELSE "PENDING"
  IN [q EXCEPT !.task = [t \in Task |-> [q.task[t] EXCEPT !.status = status(t)]],
               !.ready = {t \in Task : status(t) = "QUEUED"},
               !.blocked = [t \in Task |-> IF status(t) = "PENDING" THEN left(t) ELSE {}]]
=============================================================================
