---------------------------- MODULE MachineEffect ----------------------------
(***************************************************************************)
(* One physical effect from submission to answer, across processes:        *)
(*   DurableOperationGate.submit         (durable_admission.py),           *)
(*   CentralDurableIntentAuthority       (central_authority.py),           *)
(*   CentralEffectContext, _ResourceLock (effect_boundary.py), and         *)
(*   the runs, operations and machine leases of DurableRunService          *)
(*                                       (sentra_mcp/services/durable.py). *)
(*                                                                         *)
(* A waiter (the coroutine in submit) reserves and admits an operation, a  *)
(* worker (the thread of the effect context) takes the machine's OS lock,  *)
(* marks the effect as started, performs it and returns; the waiter may    *)
(* leave earlier.  Operators, reconciliation and crashes interfere.        *)
(*                                                                         *)
(* reserve_operation_intent and begin_machine_effect are BEGIN IMMEDIATE   *)
(* transactions, one step each.  The other service calls read rows, decide *)
(* and later write; call[s] is the call between its read and its commit    *)
(* under lock s (one lock per process on SQLite, one for all processes on  *)
(* PostgreSQL, see DurableLease).                                          *)
(*                                                                         *)
(* The clock is abstract: a lease may run out at any step.  A reservation  *)
(* writes one new fencing token to the operation and to the lease, so the  *)
(* operation itself stands for its token: lease[k] = o.                    *)
(***************************************************************************)
EXTENDS Naturals

CONSTANTS
  Op,           \* operations
  Process,      \* processes that share the state directory
  Scope,        \* locks of the durable service
  ScopeOf,      \* ScopeOf[p]: the lock under which process p calls
  Machine,      \* machines, each with one OS lock
  MachineOf,    \* MachineOf[o]
  Observation,  \* operations the authority classifies as read-only
  Cleanup,      \* operations admitted in a run that is not RUNNING
  Outcome,      \* result states an effect may return
  Request,      \* operation states an operator asks for
  RunRequest,   \* run states an operator asks for
  ReleaseOnTerminal,  \* the authority's release_on_terminal
  NoOp, NoProcess, NoCall

OpState == {"STARTING", "RUNNING", "WAITING_EXTERNAL", "CANCEL_REQUESTED",
            "UNCERTAIN", "SUCCEEDED", "FAILED", "CANCELLED"}
Terminal == {"SUCCEEDED", "FAILED", "CANCELLED"}

RunState == {"RUNNING", "PAUSED", "RECOVERING", "BLOCKED",
             "SUCCEEDED", "FAILED", "CANCELLED"}

ASSUME EffectAssumption ==
  /\ NoOp \notin Op
  /\ NoProcess \notin Process
  /\ ScopeOf \in [Process -> Scope]
  /\ MachineOf \in [Op -> Machine]
  /\ Observation \subseteq Op
  /\ Cleanup \subseteq Op \ Observation
  /\ Outcome \subseteq Terminal \union {"UNCERTAIN"}
  /\ Request \subseteq OpState
  /\ RunRequest \subseteq RunState
  /\ ReleaseOnTerminal \in BOOLEAN

VARIABLES
  op,           \* op[o]: row of table operations
  run,          \* state of the run of all operations
  lease,        \* lease[k]: the operation in the row of table leases, or NoOp
  live,         \* live[k]: that row has not run out
  call,         \* call[s]: the call that holds lock s, or NoCall
  home,         \* home[o]: the process that reserved o
  waiter,       \* waiter[o]: where submit is
  worker,       \* worker[o]: where the physical worker is
  res,          \* res[o]: the result state submit is about to record
  answer,       \* answer[o]: terminal states told to submitters of o
  begun,        \* operations whose worker passed the durable mark
  sent          \* sent[o]: how often the effect of o was performed

db == <<op, run, lease>>
vars == <<op, run, lease, live, call, home, waiter, worker, res, answer, begun, sent>>

-----------------------------------------------------------------------------
\* An operation's lease key: observations of a machine have a key of their own.
Key(o) == <<MachineOf[o], o \in Observation>>
Keys == Machine \X BOOLEAN

Row == [state: OpState \union {"ABSENT"}, started: BOOLEAN]

WaiterStage == {"none", "reserved", "waiting", "answering", "releasing",
                "answered", "left", "gone"}
WorkerStage == {"none", "locking", "holding", "checked", "begun", "io",
                "returned", "noting", "noted", "done", "failed", "gone"}

CallKind == {"admit", "result", "release", "late", "update", "drop", "run", "reconcile"}
Call == [kind: CallKind, proc: Process, op: Op \union {NoOp},
         row: Row, to: OpState \union RunState, run: RunState, hit: SUBSET Op]

TypeOK ==
  /\ op \in [Op -> Row]
  /\ run \in RunState
  /\ lease \in [Keys -> Op \union {NoOp}]
  /\ live \in [Keys -> BOOLEAN]
  /\ call \in [Scope -> Call \union {NoCall}]
  /\ home \in [Op -> Process \union {NoProcess}]
  /\ waiter \in [Op -> WaiterStage]
  /\ worker \in [Op -> WorkerStage]
  /\ res \in [Op -> OpState]
  /\ answer \in [Op -> SUBSET Terminal]
  /\ begun \subseteq Op
  /\ sent \in [Op -> Nat]

Init ==
  /\ op = [o \in Op |-> [state |-> "ABSENT", started |-> FALSE]]
  /\ run = "RUNNING"
  /\ lease = [k \in Keys |-> NoOp]
  /\ live = [k \in Keys |-> FALSE]
  /\ call = [s \in Scope |-> NoCall]
  /\ home = [o \in Op |-> NoProcess]
  /\ waiter = [o \in Op |-> "none"]
  /\ worker = [o \in Op |-> "none"]
  /\ res = [o \in Op |-> "UNCERTAIN"]
  /\ answer = [o \in Op |-> {}]
  /\ begun = {}
  /\ sent = [o \in Op |-> 0]

-----------------------------------------------------------------------------
\* OPERATION_TRANSITIONS and RUN_TRANSITIONS; staying put is always legal.
OpMoves(s) ==
  {s} \union
  CASE s = "STARTING" -> {"RUNNING", "WAITING_EXTERNAL", "FAILED", "UNCERTAIN",
                          "CANCEL_REQUESTED", "CANCELLED"}
    [] s \in {"RUNNING", "WAITING_EXTERNAL"} -> OpState \ {"STARTING"}
    [] s = "CANCEL_REQUESTED" -> Terminal \union {"UNCERTAIN"}
    [] s = "UNCERTAIN" -> Terminal
    [] OTHER -> {}

RunMoves(s) ==
  {s} \union
  CASE s = "RUNNING" -> RunState
    [] s = "PAUSED" -> RunState \ {"SUCCEEDED"}
    [] s = "RECOVERING" -> {"RUNNING", "BLOCKED", "FAILED", "CANCELLED"}
    [] s = "BLOCKED" -> {"RUNNING", "RECOVERING", "FAILED", "CANCELLED"}
    [] OTHER -> {}

\* The service lock of process p is free.
Free(p) == call[ScopeOf[p]] = NoCall

\* A call of process p has read and keeps the lock until it commits.
Hold(p, kind, o, to) ==
  call' = [call EXCEPT ![ScopeOf[p]] =
    [kind |-> kind, proc |-> p, op |-> o, row |-> op[o], to |-> to, run |-> run, hit |-> {}]]

\* The call that process p is about to commit for operation o.
Committing(p, kind, o) ==
  LET k == call[ScopeOf[p]] IN
  k # NoCall /\ k.proc = p /\ k.kind = kind /\ k.op = o

Done(p) == call' = [call EXCEPT ![ScopeOf[p]] = NoCall]

\* update_operation writes state and the whole progress_json it computed from
\* the row it read.
WriteRow(p, o) ==
  op' = [op EXCEPT ![o] = [state |-> call[ScopeOf[p]].to,
                           started |-> call[ScopeOf[p]].row.started]]

\* (Mutant: the lease is not compared with the generation of o.)
FencedByAnyone(o) == live[Key(o)]

\* The fence of o: its generation holds the lease and has time left.
Fenced(o) == lease[Key(o)] = o /\ live[Key(o)]

RunAllows(o) == run = "RUNNING" \/ o \in Cleanup

-----------------------------------------------------------------------------
(***************************************************************************)
(* The waiter: DurableOperationGate.submit.                                *)
(***************************************************************************)

\* (Mutant: an uncertain outcome counts as settled.)
UnresolvedButUncertain(o) ==
  {q \in Op \ Observation : /\ Key(q) = Key(o) /\ op[q].started
                            /\ op[q].state \notin Terminal \union {"ABSENT", "UNCERTAIN"}}

\* Operations of the lease key of o whose effect started and whose outcome is
\* unknown; observations never count.
Unresolved(o) ==
  {q \in Op \ Observation : /\ Key(q) = Key(o) /\ op[q].started
                            /\ op[q].state \notin Terminal \union {"ABSENT"}}

\* (Mutant: a reservation starts like create_operation does.)
ReservedStateQueued == "QUEUED"

ReservedState == "STARTING"

\* reserve_operation_intent: one transaction inserts the operation and takes the
\* lease, unless the run, an unresolved effect or a live lease forbids it.
Reserve(p, o) ==
  /\ Free(p)
  /\ op[o].state = "ABSENT"
  /\ RunAllows(o)
  /\ Unresolved(o) = {}
  /\ lease[Key(o)] = NoOp \/ ~live[Key(o)]
  /\ op' = [op EXCEPT ![o].state = ReservedState]
  /\ lease' = [lease EXCEPT ![Key(o)] = o]
  /\ live' = [live EXCEPT ![Key(o)] = TRUE]
  /\ home' = [home EXCEPT ![o] = p]
  /\ waiter' = [waiter EXCEPT ![o] = "reserved"]
  /\ UNCHANGED <<run, call, worker, res, answer, begun, sent>>

\* (Mutant: an existing reservation is taken for a new one.)
ResubmitSends(p, o) ==
  /\ Free(p)
  /\ op[o].state # "ABSENT"
  /\ RunAllows(o)
  /\ waiter[o] \in {"answered", "left", "gone"}
  /\ waiter' = [waiter EXCEPT ![o] = "reserved"]
  /\ home' = [home EXCEPT ![o] = p]
  /\ UNCHANGED <<op, run, lease, live, call, worker, res, answer, begun, sent>>

\* A later submission of the same operation finds it EXISTING: it answers with
\* the recorded result or with UNCERTAIN and never sends again.
Resubmit(p, o) ==
  /\ Free(p)
  /\ op[o].state # "ABSENT"
  /\ RunAllows(o)
  /\ answer' = [answer EXCEPT ![o] = @ \union ({op[o].state} \intersect Terminal)]
  /\ UNCHANGED <<op, run, lease, live, call, home, waiter, worker, res, begun, sent>>

\* submit leaves without an effect: the grant was revoked after the reservation
\* or the fence is not current.  The lease stays until it runs out.
Leave(o) ==
  /\ waiter[o] = "reserved"
  /\ Free(home[o])
  /\ waiter' = [waiter EXCEPT ![o] = "left"]
  /\ UNCHANGED <<op, run, lease, live, call, home, worker, res, answer, begun, sent>>

\* fence_active: asked by submit before the effect and by the worker's checkpoint.
Asking(o) == waiter[o] = "reserved" \/ worker[o] = "holding"

Admissible(o) == Fenced(o) /\ RunAllows(o) /\ op[o].state \in {"STARTING", "RUNNING"}

\* A true answer hands the effect to a worker, or lets the worker go on.
Pass(o) ==
  \/ /\ waiter[o] = "reserved"
     /\ waiter' = [waiter EXCEPT ![o] = "waiting"]
     /\ worker' = [worker EXCEPT ![o] = "locking"]
  \/ /\ worker[o] = "holding"
     /\ worker' = [worker EXCEPT ![o] = "checked"]
     /\ UNCHANGED waiter

\* A RUNNING operation is admitted at once, a STARTING one is updated to RUNNING.
AdmitRunning(o) ==
  /\ Asking(o)
  /\ Free(home[o])
  /\ Admissible(o)
  /\ op[o].state = "RUNNING"
  /\ Pass(o)
  /\ UNCHANGED <<op, run, lease, live, call, home, res, answer, begun, sent>>

AdmitRead(o) ==
  /\ Asking(o)
  /\ Free(home[o])
  /\ Admissible(o)
  /\ op[o].state = "STARTING"
  /\ Hold(home[o], "admit", o, "RUNNING")
  /\ UNCHANGED <<op, run, lease, live, home, waiter, worker, res, answer, begun, sent>>

AdmitCommit(o) ==
  /\ Asking(o)
  /\ Committing(home[o], "admit", o)
  /\ WriteRow(home[o], o)
  /\ Done(home[o])
  /\ Pass(o)
  /\ UNCHANGED <<run, lease, live, home, res, answer, begun, sent>>

\* The worker returned and submit goes on to record its outcome (res[o] was set
\* by the worker); a grant revoked meanwhile makes it UNCERTAIN.
Hear(o) ==
  /\ waiter[o] = "waiting"
  /\ worker[o] = "done"
  /\ waiter' = [waiter EXCEPT ![o] = "answering"]
  /\ \E r \in {res[o], "UNCERTAIN"} : res' = [res EXCEPT ![o] = r]
  /\ UNCHANGED <<op, run, lease, live, call, home, worker, answer, begun, sent>>

\* The adapter denies the request before its thread runs: nothing was done.
Deny(o) ==
  /\ waiter[o] = "waiting"
  /\ worker[o] = "locking"
  /\ waiter' = [waiter EXCEPT ![o] = "answering"]
  /\ worker' = [worker EXCEPT ![o] = "failed"]
  /\ res' = [res EXCEPT ![o] = "FAILED"]
  /\ UNCHANGED <<op, run, lease, live, call, home, answer, begun, sent>>

\* (Mutant: submit waits for its worker without a timeout.)
GiveUpOnFailure(o) ==
  /\ waiter[o] = "waiting"
  /\ worker[o] = "failed"
  /\ waiter' = [waiter EXCEPT ![o] = "answering"]
  /\ res' = [res EXCEPT ![o] = "UNCERTAIN"]
  /\ UNCHANGED <<op, run, lease, live, call, home, worker, answer, begun, sent>>

\* submit is cancelled, times out, or its worker failed: the outcome is
\* UNCERTAIN.  A worker that got the OS lock goes on by itself.
GiveUp(o) ==
  /\ waiter[o] = "waiting"
  /\ waiter' = [waiter EXCEPT ![o] = "answering"]
  /\ res' = [res EXCEPT ![o] = "UNCERTAIN"]
  /\ UNCHANGED <<op, run, lease, live, call, home, worker, answer, begun, sent>>

\* record_result: update_operation under the fence of o.
Recordable(o) == Fenced(o) /\ res[o] \in OpMoves(op[o].state)

RecordRead(o) ==
  /\ waiter[o] = "answering"
  /\ Free(home[o])
  /\ Recordable(o)
  /\ Hold(home[o], "result", o, res[o])
  /\ UNCHANGED <<op, run, lease, live, home, waiter, worker, res, answer, begun, sent>>

\* submit answers with the recorded result.
Tell(o) ==
  /\ waiter' = [waiter EXCEPT ![o] = "answered"]
  /\ answer' = [answer EXCEPT ![o] = @ \union ({res[o]} \intersect Terminal)]

\* (Mutant: submit returns its result although it was not recorded.)
RecordRefusedTold(o) ==
  /\ waiter[o] = "answering"
  /\ Free(home[o])
  /\ ~Recordable(o)
  /\ Tell(o)
  /\ UNCHANGED <<op, run, lease, live, call, home, worker, res, begun, sent>>

\* A refused record is answered UNCERTAIN.
RecordRefused(o) ==
  /\ waiter[o] = "answering"
  /\ Free(home[o])
  /\ ~Recordable(o)
  /\ waiter' = [waiter EXCEPT ![o] = "answered"]
  /\ UNCHANGED <<op, run, lease, live, call, home, worker, res, answer, begun, sent>>

\* A result that ends the operation also gives its lease back.
Releases(o) ==
  ReleaseOnTerminal /\ (res[o] \in Terminal \/ o \in Observation)

RecordCommit(o) ==
  /\ waiter[o] = "answering"
  /\ Committing(home[o], "result", o)
  /\ WriteRow(home[o], o)
  /\ Done(home[o])
  /\ \/ Releases(o) /\ waiter' = [waiter EXCEPT ![o] = "releasing"] /\ UNCHANGED answer
     \/ ~Releases(o) /\ Tell(o)
  /\ UNCHANGED <<run, lease, live, home, worker, res, begun, sent>>

\* release_lease reads the row: another generation's row is a stale fence, which
\* record_result turns into an unconfirmed result; an absent row is released.
ReleaseRead(o) ==
  /\ waiter[o] = "releasing"
  /\ Free(home[o])
  /\ lease[Key(o)] = o
  /\ Hold(home[o], "release", o, res[o])
  /\ UNCHANGED <<op, run, lease, live, home, waiter, worker, res, answer, begun, sent>>

ReleaseRefused(o) ==
  /\ waiter[o] = "releasing"
  /\ Free(home[o])
  /\ lease[Key(o)] # o
  /\ \/ lease[Key(o)] = NoOp /\ Tell(o)
     \/ lease[Key(o)] # NoOp /\ waiter' = [waiter EXCEPT ![o] = "answered"] /\ UNCHANGED answer
  /\ UNCHANGED <<op, run, lease, live, call, home, worker, res, begun, sent>>

ReleaseCommit(o) ==
  /\ waiter[o] = "releasing"
  /\ Committing(home[o], "release", o)
  /\ lease' = [lease EXCEPT ![Key(o)] = NoOp]
  /\ live' = [live EXCEPT ![Key(o)] = FALSE]
  /\ Done(home[o])
  /\ Tell(o)
  /\ UNCHANGED <<op, run, home, worker, res, begun, sent>>

Submit(o) ==
  \/ \E p \in Process : Reserve(p, o) \/ Resubmit(p, o)
  \/ Leave(o) \/ AdmitRunning(o) \/ AdmitRead(o) \/ AdmitCommit(o)
  \/ Hear(o) \/ Deny(o) \/ GiveUp(o)
  \/ RecordRead(o) \/ RecordRefused(o) \/ RecordCommit(o)
  \/ ReleaseRead(o) \/ ReleaseRefused(o) \/ ReleaseCommit(o)

-----------------------------------------------------------------------------
(***************************************************************************)
(* The worker: CentralEffectContext.run_sync and run_async.                *)
(***************************************************************************)

\* (Mutant: a waiter that leaves takes the OS lock with it.)
HoldingWhileAwaited(o) ==
  /\ worker[o] \in {"holding", "checked", "begun", "io", "returned", "noting", "noted"}
  /\ waiter[o] = "waiting"

\* A worker holds the OS lock of its machine in these stages.
Holding(o) == worker[o] \in {"holding", "checked", "begun", "io", "returned", "noting", "noted"}

\* (Mutant: the OS lock is named after the lease key.)
FlockFreeOfKey(o) == \A q \in Op : Key(q) = Key(o) => ~Holding(q)

FlockFree(o) == \A q \in Op : MachineOf[q] = MachineOf[o] => ~Holding(q)

Become(o, stage) == worker' = [worker EXCEPT ![o] = stage]

Lock(o) ==
  /\ worker[o] = "locking"
  /\ FlockFree(o)
  /\ Become(o, "holding")
  /\ UNCHANGED <<op, run, lease, live, call, home, waiter, res, answer, begun, sent>>

\* The lock timed out, the grant was revoked, the fence is not current or the
\* budget is exhausted: the worker frees the OS lock and the effect never starts.
Refuse(o) ==
  /\ worker[o] \in {"locking", "holding", "checked"}
  /\ Free(home[o])
  /\ Become(o, "failed")
  /\ UNCHANGED <<op, run, lease, live, call, home, waiter, res, answer, begun, sent>>

\* begin_machine_effect: one transaction checks fence, operation and run again
\* and marks the effect as started.
Begin(o) ==
  /\ worker[o] = "checked"
  /\ Free(home[o])
  /\ Fenced(o) /\ RunAllows(o) /\ op[o].state = "RUNNING"
  /\ op' = [op EXCEPT ![o].started = TRUE]
  /\ begun' = begun \union {o}
  /\ Become(o, "begun")
  /\ UNCHANGED <<run, lease, live, call, home, waiter, res, answer, sent>>

\* run_async whose waiter was cancelled while it began frees the lock unused.
Abandon(o) ==
  /\ worker[o] = "begun"
  /\ waiter[o] # "waiting"
  /\ Become(o, "failed")
  /\ UNCHANGED <<op, run, lease, live, call, home, waiter, res, answer, begun, sent>>

\* The provider is called.
Dispatch(o) ==
  /\ worker[o] = "begun"
  /\ sent' = [sent EXCEPT ![o] = @ + 1]
  /\ Become(o, "io")
  /\ UNCHANGED <<op, run, lease, live, call, home, waiter, res, answer, begun>>

\* The provider returns, whether or not anybody still waits for it.
Return(o) ==
  /\ worker[o] = "io"
  /\ Become(o, "returned")
  /\ IF waiter[o] = "waiting" THEN \E r \in Outcome : res' = [res EXCEPT ![o] = r]
                              ELSE UNCHANGED res
  /\ UNCHANGED <<op, run, lease, live, call, home, waiter, answer, begun, sent>>

\* record_late_return annotates the progress of an operation it found unsettled.
LateCheck(o) ==
  /\ worker[o] = "returned"
  /\ Free(home[o])
  /\ op[o].state \in {"RUNNING", "UNCERTAIN", "CANCEL_REQUESTED"}
  /\ Become(o, "noting")
  /\ UNCHANGED <<op, run, lease, live, call, home, waiter, res, answer, begun, sent>>

\* Its update_operation is a call of its own: the operation may have been settled.
LateRead(o) ==
  /\ worker[o] = "noting"
  /\ Free(home[o])
  /\ op[o].state # "ABSENT"
  /\ Hold(home[o], "late", o, op[o].state)
  /\ UNCHANGED <<op, run, lease, live, home, waiter, worker, res, answer, begun, sent>>

LateCommit(o) ==
  /\ worker[o] = "noting"
  /\ Committing(home[o], "late", o)
  /\ WriteRow(home[o], o)
  /\ Done(home[o])
  /\ Become(o, "noted")
  /\ UNCHANGED <<run, lease, live, home, waiter, res, answer, begun, sent>>

\* The annotation is best effort; then the OS lock is freed.
End(o) ==
  /\ worker[o] \in {"returned", "noting", "noted"}
  /\ ~Committing(home[o], "late", o)
  /\ Become(o, "done")
  /\ UNCHANGED <<op, run, lease, live, call, home, waiter, res, answer, begun, sent>>

Work(o) ==
  \/ Lock(o) \/ Refuse(o) \/ Begin(o) \/ Abandon(o) \/ Dispatch(o)
  \/ Return(o) \/ LateCheck(o) \/ LateRead(o) \/ LateCommit(o) \/ End(o)

-----------------------------------------------------------------------------
(***************************************************************************)
(* Everybody else: operators, reconciliation, time and crashes.            *)
(***************************************************************************)

\* update_operation and request_cancel without a fence, from any process.
UpdateRead(p, o, to) ==
  /\ Free(p)
  /\ op[o].state # "ABSENT"
  /\ to \in OpMoves(op[o].state)
  /\ Hold(p, "update", o, to)
  /\ UNCHANGED <<op, run, lease, live, home, waiter, worker, res, answer, begun, sent>>

UpdateCommit(p, o) ==
  /\ Committing(p, "update", o)
  /\ WriteRow(p, o)
  /\ Done(p)
  /\ UNCHANGED <<run, lease, live, home, waiter, worker, res, answer, begun, sent>>

\* release_lease of the generation of o by an operator (lease_release).
DropRead(p, o) ==
  /\ Free(p)
  /\ lease[Key(o)] = o
  /\ Hold(p, "drop", o, res[o])
  /\ UNCHANGED <<op, run, lease, live, home, waiter, worker, res, answer, begun, sent>>

DropCommit(p, o) ==
  /\ Committing(p, "drop", o)
  /\ lease' = [lease EXCEPT ![Key(o)] = NoOp]
  /\ live' = [live EXCEPT ![Key(o)] = FALSE]
  /\ Done(p)
  /\ UNCHANGED <<op, run, home, waiter, worker, res, answer, begun, sent>>

\* transition_run.
RunRead(p, to) ==
  /\ Free(p)
  /\ to \in RunMoves(run)
  /\ call' = [call EXCEPT ![ScopeOf[p]] =
       [kind |-> "run", proc |-> p, op |-> NoOp, row |-> [state |-> "ABSENT", started |-> FALSE],
        to |-> to, run |-> run, hit |-> {}]]
  /\ UNCHANGED <<op, run, lease, live, home, waiter, worker, res, answer, begun, sent>>

RunCommit(p) ==
  /\ Committing(p, "run", NoOp)
  /\ run' = call[ScopeOf[p]].to
  /\ Done(p)
  /\ UNCHANGED <<op, lease, live, home, waiter, worker, res, answer, begun, sent>>

\* (Mutant: reconcile does not skip terminal operations.)
StallableEver == {o \in Op : op[o].state \notin {"ABSENT", "UNCERTAIN"}}

\* reconcile reads every operation and finds some stale and without evidence of
\* progress; which ones is up to the clock.
Stallable == {o \in Op : op[o].state \notin Terminal \union {"ABSENT", "UNCERTAIN"}}

ReconcileRead(p) ==
  /\ Free(p)
  /\ \E S \in (SUBSET Stallable) \ {{}} :
       call' = [call EXCEPT ![ScopeOf[p]] =
         [kind |-> "reconcile", proc |-> p, op |-> NoOp, row |-> [state |-> "ABSENT", started |-> FALSE],
          to |-> "UNCERTAIN", run |-> run, hit |-> S]]
  /\ UNCHANGED <<op, run, lease, live, home, waiter, worker, res, answer, begun, sent>>

\* It writes only the state column, and moves a running or paused run.
ReconcileCommit(p) ==
  LET k == call[ScopeOf[p]] IN
  /\ Committing(p, "reconcile", NoOp)
  /\ op' = [o \in Op |-> IF o \in k.hit THEN [op[o] EXCEPT !.state = "UNCERTAIN"] ELSE op[o]]
  /\ run' = IF k.run \in {"RUNNING", "PAUSED"} THEN "RECOVERING" ELSE run
  /\ Done(p)
  /\ UNCHANGED <<lease, live, home, waiter, worker, res, answer, begun, sent>>

Operator(p) ==
  \/ \E o \in Op, to \in Request : UpdateRead(p, o, to)
  \/ \E o \in Op : UpdateCommit(p, o) \/ DropRead(p, o) \/ DropCommit(p, o)
  \/ \E to \in RunRequest : RunRead(p, to)
  \/ RunCommit(p) \/ ReconcileRead(p) \/ ReconcileCommit(p)

\* The lease runs out: its holder stalled, crashed or was not renewed in time.
Expire(k) ==
  /\ live[k]
  /\ live' = [live EXCEPT ![k] = FALSE]
  /\ UNCHANGED <<op, run, lease, call, home, waiter, worker, res, answer, begun, sent>>

\* Process p dies: its OS locks are free, its call is rolled back, its callers
\* get no answer; the durable state stays.
Crash(p) ==
  LET lost == {o \in Op : home[o] = p}
      ends == {"none", "answered", "left", "done", "failed"}
      after(at) == [o \in Op |-> IF o \in lost /\ at[o] \notin ends THEN "gone" ELSE at[o]]
  IN
  /\ waiter' = after(waiter)
  /\ worker' = after(worker)
  /\ call' = [s \in Scope |-> IF call[s] # NoCall /\ call[s].proc = p THEN NoCall ELSE call[s]]
  /\ UNCHANGED <<op, run, lease, live, home, res, answer, begun, sent>>

Next ==
  \/ \E o \in Op : Submit(o) \/ Work(o)
  \/ \E p \in Process : Operator(p) \/ Crash(p)
  \/ \E k \in Keys : Expire(k)

Spec == Init /\ [][Next]_vars

\* Steps of submit, and the commits of calls that hold the service lock.
Progress(o) ==
  \/ Leave(o) \/ AdmitRunning(o) \/ AdmitRead(o) \/ Hear(o) \/ GiveUp(o)
  \/ RecordRead(o) \/ RecordRefused(o) \/ ReleaseRead(o) \/ ReleaseRefused(o)

Commits ==
  \/ \E o \in Op : AdmitCommit(o) \/ RecordCommit(o) \/ ReleaseCommit(o) \/ LateCommit(o)
  \/ \E p \in Process : RunCommit(p) \/ ReconcileCommit(p)
  \/ \E p \in Process, o \in Op : UpdateCommit(p, o) \/ DropCommit(p, o)

\* A call that has the lock commits, and no submitter is passed over forever
\* when the lock becomes free.  Nothing is assumed of providers or workers.
Fairness == WF_vars(Commits) /\ \A o \in Op : SF_vars(Progress(o))

FairSpec == Spec /\ Fairness

-----------------------------------------------------------------------------
\* Every service call runs under one lock.
OneScope == \A p, q \in Process : ScopeOf[p] = ScopeOf[q]

Settled(o) == op[o].state \in Terminal

Rivals == {pair \in Op \X Op :
             /\ pair[1] # pair[2]
             /\ Key(pair[1]) = Key(pair[2])
             /\ pair[1] \notin Observation}

(***************************************************************************)
(* Two effects on one machine never have an unknown outcome together: once *)
(* an effect began, the next one begins only after somebody settled the    *)
(* first, although leases run out, processes die and waiters leave         *)
(* (reserve_operation_intent, "An expired lease does not prove that an     *)
(* admitted physical effect stopped").                                     *)
(***************************************************************************)
Quarantine ==
  \A pair \in Rivals :
    {pair[1], pair[2]} \subseteq begun => Settled(pair[1]) \/ Settled(pair[2])

(***************************************************************************)
(* An operation is performed at most once, whatever is resubmitted, timed  *)
(* out, reconciled or crashed ("Ambiguous side effects are never silently  *)
(* replayed").                                                             *)
(***************************************************************************)
AtMostOnce == \A o \in Op : sent[o] <= 1

(***************************************************************************)
(* One machine performs one effect at a time, also when an operator        *)
(* settled an operation whose worker is still inside the provider, and     *)
(* also between an observation and an effect, which hold different leases. *)
(***************************************************************************)
OneInFlight ==
  \A o, q \in Op :
    o # q /\ MachineOf[o] = MachineOf[q] => ~(worker[o] = "io" /\ worker[q] = "io")

(***************************************************************************)
(* Terminal states of operations and of the run are final, whatever calls  *)
(* were in progress when they were reached.                                *)
(***************************************************************************)
TerminalIsFinal ==
  [][/\ \A o \in Op : Settled(o) => op'[o].state = op[o].state
     /\ run \in Terminal => run' = run]_vars

(***************************************************************************)
(* A submitter that is told an operation ended is told what the durable    *)
(* record says, then and ever after.                                       *)
(***************************************************************************)
AnswerIsDurable == \A o \in Op : \A r \in answer[o] : op[o].state = r

(***************************************************************************)
(* Every reserved submission ends, with an answer, an error or the death   *)
(* of its process, even when a provider never returns and keeps the OS     *)
(* lock of its machine.                                                    *)
(***************************************************************************)
SubmitEnds ==
  \A o \in Op : waiter[o] = "reserved" ~> waiter[o] \in {"answered", "left", "gone"}

\* The abstract machine: an operation is open while its row is not terminal.
Exclusive == INSTANCE ExclusiveEffect WITH
  Rival <- Rivals,
  phase <- [o \in Op |-> IF op[o].state = "ABSENT" THEN "new"
                         ELSE IF Settled(o) THEN "settled" ELSE "open"],
  sent  <- {o \in Op : sent[o] > 0}

(***************************************************************************)
(* Under one lock, submission, workers, operators and crashes implement    *)
(* the abstract exclusive effect.                                          *)
(***************************************************************************)
ImplementsExclusiveEffect == Exclusive!Spec
=============================================================================
