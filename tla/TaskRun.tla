------------------------------- MODULE TaskRun -------------------------------
(***************************************************************************)
(* OMAEngine.run and process_task (orchestrator/engine.py) over the queue  *)
(* of module TaskQueue: one coroutine that dispatches and reaps, and one   *)
(* pair of coroutines per dispatched task, the outer one (process_task,    *)
(* which keeps the deadline) and the inner one (_process_task, which does  *)
(* the work).  worker[t] is where the pair of task t stands.               *)
(*                                                                         *)
(* The coroutines share one event loop: a step goes from one await that    *)
(* yields to the next.  A crash ends all of them and leaves tasks.json,    *)
(* packages.json, dispatch.json and the durable tables.                    *)
(***************************************************************************)
EXTENDS TaskQueue

CONSTANTS
  Capable,        \* tasks whose capabilities some executable node has
  MaxWorkers,     \* max_parallel_workers
  MaxRounds,      \* max_rounds: dispatches of the whole run
  MaxRepair,      \* max_repair_rounds
  MaxValidation,  \* retries of a validation that never ran
  NoProgressLimit,\* no_progress_limit
  Operators,      \* an operator may cancel tasks and the run
  Foreign,        \* resources another run of the workspace may lease
  UpsertMayFail,  \* upsert_task may fail; the engine ignores it
  MaxCrashes      \* bound on crashes

ASSUME RunAssumption ==
  /\ Capable \subseteq Task
  /\ MaxWorkers \in Nat \ {0}
  /\ {MaxRounds, MaxRepair, MaxValidation, NoProgressLimit, MaxCrashes} \subseteq Nat
  /\ {Operators, UpsertMayFail} \subseteq BOOLEAN
  /\ Foreign \subseteq Resource

VARIABLES
  queue,        \* the queue, with leases and ledger
  disk,         \* tasks.json
  packages,     \* packages[t]: entries for t in packages.json
  dispatched,   \* dispatch.json
  worker,       \* worker[t]: where the coroutines of t stand
  checks,       \* checks[t]: validation retries of this execution
  loop,         \* where run() stands
  stale,        \* no_progress
  stop,         \* _cancel_requested
  sweep,        \* tasks that cancel_all has yet to cancel
  asked,        \* tasks an operator asked to cancel
  lost,         \* tasks whose execution a crash interrupted
  crashes       \* crashes so far

vars == <<queue, disk, packages, dispatched, worker, checks, loop, stale, stop,
          sweep, asked, lost, crashes>>
history == <<asked, lost, crashes>>

-----------------------------------------------------------------------------
\* The awaits of the inner coroutine.
Executing == {"produce", "verify", "repair", "review", "integrate"}

Worker == Executing \union
  {"idle",      \* no future
   "spawned",   \* created, not yet scheduled
   "settled",   \* the inner coroutine has returned
   "broken",    \* the inner coroutine has raised
   "expired",   \* past the deadline, the inner coroutine is being cancelled
   "done",      \* the future has a result
   "raised"}    \* the future has an exception or was cancelled

TypeOK ==
  /\ queue \in Queue
  /\ disk \in [Task -> TaskRecord]
  /\ packages \in [Task -> Nat]
  /\ dispatched \in Nat
  /\ worker \in [Task -> Worker]
  /\ checks \in [Task -> Nat]
  /\ loop \in {"dispatch", "wait", "closing", "saving", "ended", "down"}
  /\ stale \in Nat
  /\ stop \in BOOLEAN
  /\ sweep \subseteq Task
  /\ asked \subseteq Task
  /\ lost \subseteq Task
  /\ crashes \in Nat

Ended(t) == worker[t] \in {"done", "raised"}
InFlight == {t \in Task : worker[t] # "idle"}

\* While run() computes between two awaits, or cancel_all goes through the
\* tasks, no other coroutine runs.
Yielded == loop \in {"wait", "closing"} /\ sweep = {}

\* (Mutant: only the cancellation of the run is looked at.)
CheckStopped(t) == stop

\* _check_cancelled
CheckCancelled(t) == stop \/ StatusOf(queue, t) = "CANCELLED"

\* (Mutant: NO_PROGRESS does not look at the ready queue.)
ConvergedTooSoon(q, progress) ==
  \/ Completed(q) = Task
  \/ dispatched >= MaxRounds /\ Pending(q)
  \/ progress >= NoProgressLimit

\* _evaluate_convergence with nothing in flight; the boundaries that depend on
\* metadata, budgets and marginal gain are off.
Converged(q, progress) ==
  \/ Completed(q) = Task
  \/ dispatched >= MaxRounds /\ Pending(q)
  \/ progress >= NoProgressLimit /\ q.ready = {}

Init ==
  /\ queue = Planned
  /\ disk = Planned.task
  /\ packages = [t \in Task |-> 0]
  /\ dispatched = 0
  /\ worker = [t \in Task |-> "idle"]
  /\ checks = [t \in Task |-> 0]
  /\ loop = "dispatch"
  /\ stale = 0
  /\ stop = FALSE
  /\ sweep = {}
  /\ asked = {}
  /\ lost = {}
  /\ crashes = 0

-----------------------------------------------------------------------------
(* The dispatching coroutine *)

\* A retried task whose old future has not been reaped waits for the next round;
\* the code may start it beside the dying future, which has nothing left to do.
Startable == Capable \ InFlight

CanPop ==
  /\ Cardinality(InFlight) < MaxWorkers
  /\ dispatched < MaxRounds
  /\ Poppable(queue, Startable) # {}

\* A ready task is popped and gets a future, or the pop raises.
Pop ==
  /\ loop = "dispatch"
  /\ CanPop
  /\ \E p \in PopReady(queue, Startable) :
       /\ queue' = p.out.q
       /\ IF p.out.ok
          THEN /\ dispatched' = dispatched + 1
               /\ worker' = [worker EXCEPT ![p.t] = "spawned"]
               /\ loop' = loop
          ELSE /\ loop' = "closing"
               /\ UNCHANGED <<dispatched, worker>>
  /\ UNCHANGED <<disk, packages, checks, stale, stop, sweep, history>>

Wait ==
  /\ loop = "dispatch"
  /\ ~CanPop
  /\ InFlight # {}
  /\ loop' = "wait"
  /\ UNCHANGED <<queue, disk, packages, dispatched, worker, checks, stale, stop, sweep, history>>

\* A ready task no node can run is escalated, or that raises.
EscalateUnrunnable(t) ==
  /\ loop = "dispatch"
  /\ ~CanPop
  /\ InFlight = {}
  /\ t \in queue.ready \ Capable
  /\ \E o \in MarkEscalated(queue, t) :
       /\ queue' = o.q
       /\ loop' = IF o.ok /\ Pending(o.q) THEN "dispatch" ELSE "closing"
  /\ UNCHANGED <<disk, packages, dispatched, worker, checks, stale, stop, sweep, history>>

\* Nothing runs and nothing can be dispatched: the loop breaks.
GiveUp ==
  /\ loop = "dispatch"
  /\ ~CanPop
  /\ InFlight = {}
  /\ queue.ready \subseteq Capable
  /\ IF Converged(queue, stale) THEN queue' = queue
     ELSE \E o \in FailUnfulfillable(queue) : queue' = o.q
  /\ loop' = "closing"
  /\ UNCHANGED <<disk, packages, dispatched, worker, checks, stale, stop, sweep, history>>

\* asyncio.wait returns with every finished future.  A future that raised
\* makes run() raise; otherwise the tasks are saved and the loop goes on.
Reap ==
  LET finished == {t \in Task : Ended(t)}
      rest == InFlight \ finished
      progress == IF \E t \in finished : StatusOf(queue, t) = "COMPLETED"
                  THEN 0 ELSE stale + 1
      over == \/ rest = {} /\ Converged(queue, progress)
              \/ Completed(queue) = Task
              \/ ~Pending(queue)
              \/ stop
  IN
  /\ loop = "wait"
  /\ sweep = {}
  /\ finished # {}
  /\ worker' = [t \in Task |-> IF t \in finished THEN "idle" ELSE worker[t]]
  /\ IF \E t \in finished : worker[t] = "raised"
     THEN loop' = "closing" /\ UNCHANGED <<disk, stale>>
     ELSE /\ loop' = IF over THEN "closing" ELSE "dispatch"
          /\ disk' = queue.task
          /\ stale' = progress
  /\ UNCHANGED <<queue, packages, dispatched, checks, stop, sweep, history>>

\* (Mutant: the final cancellation of what is left is missing.)
CloseKeeps ==
  /\ loop = "closing"
  /\ sweep = {}
  /\ InFlight \subseteq {t \in Task : Ended(t)}
  /\ loop' = "saving"
  /\ worker' = [t \in Task |-> "idle"]
  /\ UNCHANGED <<queue, disk, packages, dispatched, checks, stale, stop, sweep, history>>

\* The finally clause of run(): the cancelled futures have ended, and cancel_all
\* begins if there is pending work.
Close ==
  /\ loop = "closing"
  /\ sweep = {}
  /\ InFlight \subseteq {t \in Task : Ended(t)}
  /\ sweep' = IF Pending(queue) THEN Unfinished(queue) ELSE {}
  /\ loop' = "saving"
  /\ worker' = [t \in Task |-> "idle"]
  /\ UNCHANGED <<queue, disk, packages, dispatched, checks, stale, stop, history>>

\* cancel_all cancels the next task, in the order of _all_tasks, which is any
\* order (upsert_task moves a task to the end of tasks.json).  A task that failed
\* with an earlier one is still cancelled when its turn comes.  If mark_cancelled
\* raises so does cancel_all, and a run that is closing saves nothing.
CancelNext(t) ==
  /\ t \in sweep
  /\ \E o \in MarkCancelled(queue, t) :
       /\ queue' = o.q
       /\ sweep' = IF o.ok THEN sweep \ {t} ELSE {}
       /\ loop' = IF ~o.ok /\ loop = "saving" THEN "ended" ELSE loop
  /\ UNCHANGED <<disk, packages, dispatched, worker, checks, stale, stop, history>>

\* The end of the finally clause.
Save ==
  /\ loop = "saving"
  /\ sweep = {}
  /\ disk' = queue.task
  /\ loop' = "ended"
  /\ UNCHANGED <<queue, packages, dispatched, worker, checks, stale, stop, sweep, history>>

Loop ==
  \/ Pop \/ Wait \/ GiveUp \/ Reap \/ Close \/ Save
  \/ \E t \in Task : EscalateUnrunnable(t) \/ CancelNext(t)

-----------------------------------------------------------------------------
(* The inner coroutine *)

\* The inner coroutine of t leaves the queue as one of the outcomes says, and
\* returns or raises.
Settle(t, outcomes) ==
  \E o \in outcomes :
    /\ queue' = o.q
    /\ worker' = [worker EXCEPT ![t] = IF o.ok THEN "settled" ELSE "broken"]

\* The inner coroutine moves t by way of the state via to the state status and
\* goes on to stage; it raises where the state machine refuses via.
Advance(t, via, status, stage) ==
  IF CanMove(StatusOf(queue, t), via)
  THEN /\ queue' = Put(queue, t, status)
       /\ worker' = [worker EXCEPT ![t] = stage]
  ELSE Settle(t, {Raise(queue)})

InStage(t, stage) == Yielded /\ worker[t] = stage

Inner == <<disk, dispatched, loop, stale, stop, sweep, history>>

\* Any await of the inner coroutine may raise something that is not a
\* cancellation.
Break(t) ==
  /\ Yielded
  /\ worker[t] \in Executing
  /\ Settle(t, {Raise(queue)})
  /\ UNCHANGED <<Inner, packages, checks>>

\* The executor has returned a candidate.
Produced(t) ==
  /\ InStage(t, "produce")
  /\ IF CheckCancelled(t) THEN Settle(t, MarkCancelled(queue, t))
     ELSE Advance(t, "VALIDATING", "VALIDATING", "verify")
  /\ UNCHANGED <<Inner, packages, checks>>

\* The candidate passed the gate: READY_FOR_MASTER, MASTER_REVIEW.
Passed(t) ==
  /\ InStage(t, "verify")
  /\ Advance(t, "QUALITY_GATE", "MASTER_REVIEW", "review")
  /\ UNCHANGED <<Inner, packages, checks>>

\* The validators did not run: validate again, or escalate.
NotValidated(t) ==
  /\ InStage(t, "verify")
  /\ IF ~CanMove(StatusOf(queue, t), "QUALITY_GATE")
     THEN Settle(t, {Raise(queue)}) /\ UNCHANGED checks
     ELSE IF checks[t] < MaxValidation /\ ~stop
     THEN /\ checks' = [checks EXCEPT ![t] = @ + 1]
          /\ UNCHANGED <<queue, worker>>
     ELSE /\ Settle(t, MarkEscalated(Put(queue, t, "QUALITY_GATE"), t))
          /\ UNCHANGED checks
  /\ UNCHANGED <<Inner, packages>>

\* A rejected candidate is repaired, unless the rounds are used up or the same
\* rejection came back (it can from the second round on); then t is escalated.
Reject(t, q) ==
  LET round == q.task[t].repairs + 1
      counted == [q EXCEPT !.task[t].repairs = round]
  IN \/ /\ round > MaxRepair
        /\ Settle(t, MarkEscalated(counted, t))
     \/ /\ round > 1
        /\ Settle(t, MarkEscalated(q, t))
     \/ /\ round <= MaxRepair
        /\ IF CanMove(StatusOf(q, t), "REPAIRING")
           THEN /\ queue' = Put(counted, t, "REPAIRING")
                /\ worker' = [worker EXCEPT ![t] = "repair"]
           ELSE Settle(t, {Raise(counted)})

\* The gate rejects the candidate.
Rejected(t) ==
  /\ InStage(t, "verify")
  /\ IF CanMove(StatusOf(queue, t), "QUALITY_GATE")
     THEN Reject(t, Put(queue, t, "QUALITY_GATE"))
     ELSE Settle(t, {Raise(queue)})
  /\ UNCHANGED <<Inner, packages, checks>>

\* The repair agent has returned another candidate.
Repaired(t) ==
  /\ InStage(t, "repair")
  /\ IF CheckCancelled(t) THEN Settle(t, MarkCancelled(queue, t))
     ELSE Advance(t, "VALIDATING", "VALIDATING", "verify")
  /\ UNCHANGED <<Inner, packages, checks>>

\* (Mutant: the package is recorded as soon as the master approves.)
ApprovedRecords(t) ==
  /\ InStage(t, "review")
  /\ IF CheckCancelled(t) THEN Settle(t, MarkCancelled(queue, t)) /\ UNCHANGED packages
     ELSE /\ worker' = [worker EXCEPT ![t] = "integrate"]
          /\ packages' = [packages EXCEPT ![t] = @ + 1]
          /\ UNCHANGED queue
  /\ UNCHANGED <<Inner, checks>>

\* The master approves; the candidate goes to the integration coordinator.
Approved(t) ==
  /\ InStage(t, "review")
  /\ IF CheckCancelled(t) THEN Settle(t, MarkCancelled(queue, t))
     ELSE UNCHANGED queue /\ worker' = [worker EXCEPT ![t] = "integrate"]
  /\ UNCHANGED <<Inner, packages, checks>>

\* The master rejects, or its review is blocked.
ReviewRejected(t) ==
  /\ InStage(t, "review")
  /\ Reject(t, queue)
  /\ UNCHANGED <<Inner, packages, checks>>

ReviewBlocked(t) ==
  /\ InStage(t, "review")
  /\ Settle(t, MarkEscalated(queue, t))
  /\ UNCHANGED <<Inner, packages, checks>>

\* The patch is applied: the package is written and the task completed.
Integrated(t) ==
  /\ InStage(t, "integrate")
  /\ packages' = [packages EXCEPT ![t] = @ + 1]
  /\ Settle(t, MarkCompleted(queue, t))
  /\ UNCHANGED <<Inner, checks>>

\* The coordinator refuses: lease busy, stale base, moved workspace.
NotIntegrated(t) ==
  /\ InStage(t, "integrate")
  /\ Settle(t, MarkFailed(queue, t, TRUE))
  /\ UNCHANGED <<Inner, packages, checks>>

Work(t) ==
  \/ Break(t) \/ Produced(t) \/ Passed(t) \/ NotValidated(t) \/ Rejected(t) \/ Repaired(t)
  \/ Approved(t) \/ ReviewRejected(t) \/ ReviewBlocked(t) \/ Integrated(t) \/ NotIntegrated(t)

-----------------------------------------------------------------------------
(* The outer coroutine *)

Outer == <<packages, dispatched, loop, stale, stop, sweep, history>>

\* The coroutines start.  upsert_task writes the task to tasks.json; if it
\* fails the engine goes on.
Start(t) ==
  /\ InStage(t, "spawned")
  /\ checks' = [checks EXCEPT ![t] = 0]
  /\ IF CheckCancelled(t)
     THEN Settle(t, MarkCancelled(queue, t)) /\ UNCHANGED disk
     ELSE /\ worker' = [worker EXCEPT ![t] = "produce"]
          /\ \/ disk' = [disk EXCEPT ![t] = queue.task[t]]
             \/ UpsertMayFail /\ UNCHANGED disk
          /\ UNCHANGED queue
  /\ UNCHANGED Outer

\* What process_task does with an outcome of its own: an exception makes it
\* call mark_failed, and if that raises too the future raises.  tasks.json is
\* written in every case.
Finish(t, outcomes) ==
  \E o \in outcomes : \E f \in IF o.ok THEN {o} ELSE MarkFailed(o.q, t, FALSE) :
    /\ queue' = f.q
    /\ disk' = f.q.task
    /\ worker' = [worker EXCEPT ![t] = IF f.ok THEN "done" ELSE "raised"]
    /\ UNCHANGED <<Outer, checks>>

Return(t) == InStage(t, "settled") /\ Finish(t, {Ok(queue)})
Catch(t)  == InStage(t, "broken") /\ Finish(t, {Raise(queue)})

\* (Mutant: the deadline does not cover the review.)
DeadlineBeforeReview(t) ==
  /\ Yielded
  /\ worker[t] \in Executing \ {"review"}
  /\ queue' = [queue EXCEPT !.task[t].uncertain = TRUE]
  /\ worker' = [worker EXCEPT ![t] = "expired"]
  /\ UNCHANGED <<Outer, disk, checks>>

\* The deadline passes: the task is marked uncertain and the inner coroutine
\* cancelled.
Deadline(t) ==
  /\ Yielded
  /\ worker[t] \in Executing
  /\ queue' = [queue EXCEPT !.task[t].uncertain = TRUE]
  /\ worker' = [worker EXCEPT ![t] = "expired"]
  /\ UNCHANGED <<Outer, disk, checks>>

\* The inner coroutine is gone: escalate.
Expire(t) == InStage(t, "expired") /\ Finish(t, MarkEscalated(queue, t))

\* The future is cancelled, by request_cancel or by run() on its way out.  A
\* coroutine that never started is dropped.
Interrupt(t) ==
  /\ Yielded
  /\ stop \/ loop = "closing"
  /\ worker[t] \in Executing \union {"spawned", "settled", "broken", "expired"}
  /\ worker' = [worker EXCEPT ![t] = "raised"]
  /\ IF worker[t] = "spawned" THEN UNCHANGED <<queue, disk>>
     ELSE \E o \in MarkCancelled(queue, t) : queue' = o.q /\ disk' = o.q.task
  /\ UNCHANGED <<Outer, checks>>

Keep(t) == Start(t) \/ Return(t) \/ Catch(t) \/ Deadline(t) \/ Expire(t) \/ Interrupt(t)

-----------------------------------------------------------------------------
(* Operators, other runs, crashes *)

\* cancel_task, from outside.
CancelTask(t) ==
  /\ Operators
  /\ Yielded
  /\ StatusOf(queue, t) \notin {"COMPLETED", "CANCELLED"}
  /\ \E o \in MarkCancelled(queue, t) : queue' = o.q
  /\ asked' = asked \union {t}
  /\ UNCHANGED <<disk, packages, dispatched, worker, checks, loop, stale, stop, sweep,
                 lost, crashes>>

\* cancel_run: the flag, the futures (Interrupt), then every task (CancelNext).
CancelRun ==
  /\ Operators
  /\ Yielded
  /\ ~stop
  /\ stop' = TRUE
  /\ sweep' = Unfinished(queue)
  /\ UNCHANGED <<queue, disk, packages, dispatched, worker, checks, loop, stale, history>>

\* Another run of the workspace takes or gives back a lease.
ForeignLease(r) ==
  /\ r \in Foreign
  /\ queue.lease[r] \in {Free, Elsewhere}
  /\ queue' = [queue EXCEPT !.lease[r] = IF @ = Free THEN Elsewhere ELSE Free]
  /\ UNCHANGED <<disk, packages, dispatched, worker, checks, loop, stale, stop, sweep, history>>

\* A lease that nobody gave back runs out.
Lapse(r) ==
  /\ queue.lease[r] \in Task
  /\ r \notin queue.held[queue.lease[r]]
  /\ queue' = [queue EXCEPT !.lease[r] = Free]
  /\ UNCHANGED <<disk, packages, dispatched, worker, checks, loop, stale, stop, sweep, history>>

\* The process dies.
Die(q) ==
  /\ loop \notin {"ended", "down"}
  /\ crashes < MaxCrashes
  /\ crashes' = crashes + 1
  /\ loop' = "down"
  /\ lost' = lost \union {t \in Task : worker[t] \in Executing \union {"expired", "broken"}}
  /\ queue' = Forget(q, disk)
  /\ worker' = [t \in Task |-> "idle"]
  /\ checks' = [t \in Task |-> 0]
  /\ stale' = 0
  /\ stop' = FALSE
  /\ sweep' = {}
  /\ UNCHANGED <<disk, dispatched, asked>>

Crash == Die(queue) /\ UNCHANGED packages

\* It dies after writing packages.json and before mark_completed.
CrashInIntegration(t) ==
  /\ InStage(t, "integrate")
  /\ packages' = [packages EXCEPT ![t] = @ + 1]
  /\ Die(queue)

\* _has_usable_tasks: otherwise the run is planned anew, which is another run.
Usable == \E t \in Task : disk[t].status \notin Dead

\* A new engine resumes the run: load_and_recover.
Resume ==
  /\ loop = "down"
  /\ Usable
  /\ queue' = Recovered(queue)
  /\ disk' = Recovered(queue).task
  /\ loop' = IF Pending(Recovered(queue)) THEN "dispatch" ELSE "closing"
  /\ UNCHANGED <<packages, dispatched, worker, checks, stale, stop, sweep, history>>

\* The run is over.
Over ==
  /\ loop = "ended" \/ (loop = "down" /\ ~Usable)
  /\ UNCHANGED vars

Next ==
  \/ Loop
  \/ \E t \in Task : Work(t) \/ Keep(t) \/ CancelTask(t) \/ CrashInIntegration(t)
  \/ CancelRun
  \/ \E r \in Resource : ForeignLease(r) \/ Lapse(r)
  \/ Crash
  \/ Resume
  \/ Over

Spec == Init /\ [][Next]_vars

\* The event loop runs every coroutine that can run, and a deadline passes in
\* the end; nothing is assumed of executors, validators and reviewers.
FairSpec == Spec /\ WF_vars(Loop) /\ \A t \in Task : WF_vars(Keep(t))

-----------------------------------------------------------------------------
(* Properties *)

\* Tasks somebody works on: the inner coroutine runs or is being cancelled.
Active(t) == worker[t] \in Executing \union {"expired"}

\* Two tasks that write the same thing, or of which one wants to be alone.
Clash(t, u) ==
  LET R == Resources(t)
      S == Resources(u)
      covers(A, B) == Workspace \in A /\ B \intersect Writes # {}
  IN \/ R \intersect S # {}
     \/ covers(R, S) \/ covers(S, R)
     \/ R # {} /\ S # {} /\ Exclusive \in R \union S

\* Tasks that clash are never active together, whatever was retried, escalated
\* or recovered before (queue.py, _resource_conflict_locked).
Exclusion == \A t, u \in Task : t # u /\ Active(t) /\ Active(u) => ~Clash(t, u)

\* A task is active only when all it depends on has completed.
DependenciesFirst ==
  \A t \in Task : Active(t) => \A d \in Deps[t] : StatusOf(queue, d) = "COMPLETED"

\* The indexes agree with the states: a QUEUED task is ready, a PENDING one
\* blocked, a task in an active state running, a finished one nowhere, and only
\* running tasks hold resources, which are leased to them.
Indexed ==
  loop # "down" => \A t \in Task :
    LET s == StatusOf(queue, t) IN
    /\ t \in queue.ready <=> s = "QUEUED"
    /\ t \in Blocked(queue) <=> s = "PENDING"
    /\ t \in queue.running <=> s \in Status \ (Terminal \union {"QUEUED", "PENDING"})
    /\ queue.held[t] # {} => t \in queue.running
    /\ \A r \in queue.held[t] : queue.lease[r] = t

\* What every step of a run maintains: types and indexes (queue.py keeps four
\* of them by hand and updates them in each operation).
QueueInvariant == TypeOK /\ Indexed

\* When run() has returned every task has a final state.
EveryTaskEnds == loop = "ended" => \A t \in Task : StatusOf(queue, t) \in Terminal

\* The failure of one task does not take its siblings along (engine.py, run):
\* unfinished work is cancelled only if somebody asked for it or the dispatches
\* are used up.
Isolation ==
  [][\A t \in Task :
       /\ StatusOf(queue, t) \notin Terminal
       /\ StatusOf(queue', t) = "CANCELLED"
       => t \in asked' \/ stop' \/ dispatched >= MaxRounds]_vars

\* A package is delivered by a completed task.
PackagesAreCompleted ==
  \A t \in Task : packages[t] > 0 => StatusOf(queue, t) = "COMPLETED"

\* A task that has completed for the ledger is never dispatched again, even if
\* the crash came before tasks.json was written (task_ledger.py, sync).
CompletedNeverReruns ==
  [][\A t \in Task : queue.ledger[t] = "COMPLETED"
                      => worker'[t] \notin Executing \union {"spawned"}]_vars

\* A task that may have acted outside when the process died is not executed
\* again without reconciliation (queue.py, recover_incomplete_tasks).
NoReplay ==
  [][\A t \in lost : Scope[t] \in {"EXTERNAL", "EXCLUSIVE"} => worker'[t] \notin Executing]_vars

\* A task an operator cancelled is not started any more.
CancelHolds ==
  [][\A t \in asked : worker[t] = "spawned" => worker'[t] # "produce"]_vars

\* A run ends although executors and reviewers may hang, and leaves no task
\* without a final state.
RunEnds == (loop \in {"dispatch", "wait", "closing"}) ~> (loop = "ended" /\ EveryTaskEnds)
=============================================================================
