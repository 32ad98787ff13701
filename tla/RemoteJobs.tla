------------------------------ MODULE RemoteJobs ------------------------------
(***************************************************************************)
(* A tool call on a remote device, from the client to the effect:          *)
(*   RemoteGatewayService (sentra_remote/gateway.py): a durable operation  *)
(*                        per idempotency key, submission, projection,     *)
(*   RemoteStore          (sentra_remote/store.py): the leased jobs,       *)
(*   AgentRuntime         (sentra_remote/agent.py): the agent processes of *)
(*                        the device (an old one may outlive a restart).   *)
(*                                                                         *)
(* An idempotency key has one operation and one job; Job names all three.  *)
(* The requests of an agent travel through net: one may be lost, and may   *)
(* arrive after the agent gave up on it.  Every call of the store but      *)
(* progress, complete_job and cancel_job first ends or requeues the jobs   *)
(* whose time is up.  A step of the gateway is one call of a store: other  *)
(* calls for the same key come between two of them.                        *)
(*                                                                         *)
(* The phase of a row is not kept: poll_job sets "leased", so a leased row *)
(* is in PRE_EXEC_PHASES until a phase of EXEC_PHASES latches              *)
(* may_have_started.  late[j] is the latest limit of j that has passed.    *)
(***************************************************************************)
EXTENDS Naturals, FiniteSets

CONSTANTS
  Job,          \* idempotency keys, one tool call each
  Client,       \* threads of the gateway, one call each at a time
  Agent,        \* agent processes of the device
  MaxRequeues,  \* the store's max_requeues
  MaxCrashes,   \* bound on deaths of agents and of the gateway
  Nobody        \* no job

ASSUME RemoteAssumption ==
  /\ MaxRequeues \in Nat
  /\ MaxCrashes \in Nat
  /\ Nobody \notin Job

VARIABLES
  job,          \* rows of the table jobs
  late,         \* late[j]: "none", "lease" or "deadline"
  revoked,      \* devices.revoked
  op,           \* op[j]: state of the durable operation of j
  call,         \* call[c]: where the gateway's thread c is
  agent,        \* agent[p]: what the agent process p does
  net,          \* requests of agents on their way to the relay
  effects,      \* effects[j]: how often the tool of j was called
  crashes       \* deaths so far

store == <<job, late>>
vars == <<job, late, revoked, op, call, agent, net, effects, crashes>>

Terminal == {"COMPLETED", "FAILED", "UNCERTAIN", "CANCELLED"}
Lease == 0 .. MaxRequeues + 1

\* Bound: calls of one tool (two requeues of a started job are not needed to
\* show that one is too many).
MaxEffects == 2

Row == [state : {"none", "QUEUED", "LEASED"} \union Terminal,
        lease : Lease, started : BOOLEAN, requeues : 0 .. MaxRequeues]
NoRow == [state |-> "none", lease |-> 0, started |-> FALSE, requeues |-> 0]

Limit == {"none", "lease", "deadline"}

Operation == {"none", "QUEUED", "STARTING", "WAITING_EXTERNAL", "RUNNING",
              "SUCCEEDED", "FAILED", "UNCERTAIN", "CANCELLED"}

\* OPERATION_TRANSITIONS of services/durable.py, and no change.
Legal(from, to) ==
  \/ from = to
  \/ from = "QUEUED" /\ to \in {"STARTING", "RUNNING", "FAILED", "CANCELLED"}
  \/ from = "STARTING" /\ to \in {"RUNNING", "WAITING_EXTERNAL", "FAILED", "UNCERTAIN", "CANCELLED"}
  \/ /\ from \in {"RUNNING", "WAITING_EXTERNAL"}
     /\ to \in {"RUNNING", "WAITING_EXTERNAL", "SUCCEEDED", "FAILED", "UNCERTAIN", "CANCELLED"}
  \/ from = "UNCERTAIN" /\ to \in {"SUCCEEDED", "FAILED", "CANCELLED"}

\* _project_remote maps the state of a job to the state of its operation.
Mapped(state) ==
  CASE state = "QUEUED" -> "WAITING_EXTERNAL"
    [] state = "LEASED" -> "RUNNING"
    [] state = "COMPLETED" -> "SUCCEEDED"
    [] OTHER -> state

\* The steps of submit (created .. failing), of a
\* replay (replay, lost) and of job_result and its projection (check, read).
Call == [step : {"idle", "missing", "created", "starting", "queued", "failing",
                 "replay", "lost", "check", "read"},
         job : Job \union {Nobody},
         seen : {"none", "QUEUED", "LEASED"} \union Terminal]
NoCall == [step |-> "idle", job |-> Nobody, seen |-> "none"]

\* "asking" waits for the answer to "executing", "reporting" for the answer to
\* the result and "retrying" for the answer to the last attempt to report.
Process == [step : {"idle", "leased", "prepared", "asking", "running", "ran",
                    "reporting", "retrying"},
            job : Job \union {Nobody}, lease : Lease]
Free == [step |-> "idle", job |-> Nobody, lease |-> 0]

Request == [kind : {"executing", "COMPLETED", "FAILED"}, job : Job, agent : Agent, lease : Lease]

\* Every variable has its type.
TypeOK ==
  /\ job \in [Job -> Row]
  /\ late \in [Job -> Limit]
  /\ revoked \in BOOLEAN
  /\ op \in [Job -> Operation]
  /\ call \in [Client -> Call]
  /\ agent \in [Agent -> Process]
  /\ net \subseteq Request
  /\ effects \in [Job -> 0 .. MaxEffects]
  /\ crashes \in 0 .. MaxCrashes

Init ==
  /\ job = [j \in Job |-> NoRow]
  /\ late = [j \in Job |-> "none"]
  /\ revoked = FALSE
  /\ op = [j \in Job |-> "none"]
  /\ call = [c \in Client |-> NoCall]
  /\ agent = [p \in Agent |-> Free]
  /\ net = {}
  /\ effects = [j \in Job |-> 0]
  /\ crashes = 0

-----------------------------------------------------------------------------
(* The store.                                                              *)

\* (Mutant: a job that was never polled has no deadline.)
ExpiredLeased(j) == job[j].state = "LEASED" /\ late[j] # "none"

Expired(j) ==
  \/ job[j].state \in {"QUEUED", "LEASED"} /\ late[j] = "deadline"
  \/ job[j].state = "LEASED" /\ late[j] = "lease"

Requeued(j) ==
  /\ job[j].state = "LEASED" /\ late[j] = "lease"
  /\ ~job[j].started /\ job[j].requeues < MaxRequeues

\* _expire_jobs.
Swept ==
  [j \in Job |->
     IF ~Expired(j) THEN job[j]
     ELSE IF Requeued(j)
       THEN [job[j] EXCEPT !.state = "QUEUED", !.lease = 0, !.requeues = @ + 1]
       ELSE [job[j] EXCEPT !.state = IF job[j].started THEN "UNCERTAIN" ELSE "FAILED"]]

SweptLate == [j \in Job |-> IF Requeued(j) THEN "none" ELSE late[j]]

Sweep == job' = Swept /\ late' = SweptLate

\* poll_job: the device has one leased job at most; the reply may be lost.
Poll(p) ==
  /\ agent[p] = Free /\ ~revoked
  /\ \A j \in Job : Swept[j].state # "LEASED"
  /\ \E j \in Job :
       LET n == Swept[j].requeues + 1 IN
       /\ Swept[j].state = "QUEUED"
       /\ job' = [Swept EXCEPT ![j].state = "LEASED", ![j].lease = n]
       /\ late' = [SweptLate EXCEPT ![j] = "none"]
       /\ agent' \in {agent, [agent EXCEPT ![p] = [step |-> "leased", job |-> j, lease |-> n]]}
  /\ UNCHANGED <<revoked, op, call, net, effects, crashes>>

\* A poll that leases nothing, or any other call that only looks.
Look ==
  /\ \E j \in Job : Expired(j)
  /\ Sweep
  /\ UNCHANGED <<revoked, op, call, agent, net, effects, crashes>>

\* (Mutant: only new requests of a revoked device are refused.)
HoldsRevoked(j, n) == job[j].state = "LEASED" /\ job[j].lease = n

\* _leased_row: progress and results need the live lease, not its time.
Holds(j, n) == job[j].state = "LEASED" /\ job[j].lease = n /\ ~revoked

\* progress renews the lease up to the deadline.
Renews(j) == late' = [late EXCEPT ![j] = IF @ = "deadline" THEN @ ELSE "none"]

Revoke ==
  /\ ~revoked
  /\ revoked' = TRUE
  /\ job' = [j \in Job |-> IF job[j].state = "QUEUED" THEN [job[j] EXCEPT !.state = "CANCELLED"]
                           ELSE job[j]]
  /\ UNCHANGED <<late, op, call, agent, net, effects, crashes>>

Lapse(j, limit) ==
  /\ \/ limit = "lease" /\ job[j].state = "LEASED" /\ late[j] = "none"
     \/ limit = "deadline" /\ job[j].state \in {"QUEUED", "LEASED"} /\ late[j] # "deadline"
  /\ late' = [late EXCEPT ![j] = limit]
  /\ UNCHANGED <<job, revoked, op, call, agent, net, effects, crashes>>

-----------------------------------------------------------------------------
(* The agent: AgentRuntime._execute.                                       *)

Moves(p, step) == agent' = [agent EXCEPT ![p].step = step]
Leaves(p) == agent' = [agent EXCEPT ![p] = Free]

\* progress("preparing"); refused or unanswered, the agent drops the job.
Prepare(p) ==
  LET j == agent[p].job IN
  /\ agent[p].step = "leased"
  /\ IF Holds(j, agent[p].lease)
       THEN Renews(j) /\ UNCHANGED job /\ (Moves(p, "prepared") \/ Leaves(p))
       ELSE Leaves(p) /\ UNCHANGED store
  /\ UNCHANGED <<revoked, op, call, net, effects, crashes>>

Post(p, kind) ==
  net' = net \union {[kind |-> kind, job |-> agent[p].job, agent |-> p, lease |-> agent[p].lease]}

\* The fence: the tool is called only after the relay accepted "executing".
AskToRun(p) ==
  /\ agent[p].step = "prepared"
  /\ Post(p, "executing")
  /\ Moves(p, "asking")
  /\ UNCHANGED <<store, revoked, op, call, effects, crashes>>

\* Tools an agent never runs are answered at once: refused, or shut down.
Decline(p) ==
  /\ agent[p].step = "prepared"
  /\ Post(p, "FAILED") \/ Post(p, "COMPLETED")
  /\ Moves(p, "retrying")
  /\ UNCHANGED <<store, revoked, op, call, effects, crashes>>

Waits(m, steps) ==
  /\ agent[m.agent].step \in steps
  /\ agent[m.agent].job = m.job /\ agent[m.agent].lease = m.lease

\* (Mutant: the phase is stored, may_have_started is not latched.)
DeliverExecutingUnlatched(m) ==
  /\ m \in net /\ m.kind = "executing"
  /\ net' = net \ {m}
  /\ UNCHANGED job
  /\ IF Holds(m.job, m.lease)
       THEN /\ Renews(m.job)
            /\ \/ UNCHANGED agent
               \/ Waits(m, {"asking"}) /\ Moves(m.agent, "running")
       ELSE /\ UNCHANGED late
            /\ IF Waits(m, {"asking"}) THEN Leaves(m.agent) ELSE UNCHANGED agent
  /\ UNCHANGED <<revoked, op, call, effects, crashes>>

DeliverExecuting(m) ==
  /\ m \in net /\ m.kind = "executing"
  /\ net' = net \ {m}
  /\ IF Holds(m.job, m.lease)
       THEN /\ job' = [job EXCEPT ![m.job].started = TRUE]
            /\ Renews(m.job)
            /\ \/ UNCHANGED agent
               \/ Waits(m, {"asking"}) /\ Moves(m.agent, "running")
       ELSE /\ UNCHANGED store
            /\ IF Waits(m, {"asking"}) THEN Leaves(m.agent) ELSE UNCHANGED agent
  /\ UNCHANGED <<revoked, op, call, effects, crashes>>

\* _lease_heartbeat, every 5 s while the tool runs and the result is sent.
Beat(p) ==
  /\ agent[p].step \in {"running", "ran", "reporting", "retrying"}
  /\ job[agent[p].job].started /\ Holds(agent[p].job, agent[p].lease)
  /\ Renews(agent[p].job)
  /\ UNCHANGED <<job, revoked, op, call, agent, net, effects, crashes>>

\* call_tool returns or raises, after its effect or before it.
CallTool(p) ==
  LET j == agent[p].job IN
  /\ agent[p].step = "running" /\ effects[j] < MaxEffects
  /\ effects' \in {effects, [effects EXCEPT ![j] = @ + 1]}
  /\ Moves(p, "ran")
  /\ UNCHANGED <<store, revoked, op, call, net, crashes>>

Report(p) ==
  /\ agent[p].step = "ran"
  /\ \/ Post(p, "COMPLETED") /\ Moves(p, "reporting")
     \/ Post(p, "FAILED") /\ Moves(p, "reporting")
     \/ Post(p, "FAILED") /\ Moves(p, "retrying")
  /\ UNCHANGED <<store, revoked, op, call, effects, crashes>>

\* Any error of the first report is reported as the failure of the tool.
ReportAgain(p) ==
  /\ agent[p].step = "reporting"
  /\ Post(p, "FAILED")
  /\ Moves(p, "retrying")
  /\ UNCHANGED <<store, revoked, op, call, effects, crashes>>

\* complete_job, and finalize_chunks after the chunks of a long result.
DeliverResult(m) ==
  /\ m \in net /\ m.kind # "executing"
  /\ Holds(m.job, m.lease)
  /\ net' = net \ {m}
  /\ job' = [job EXCEPT ![m.job].state = m.kind]
  /\ \/ UNCHANGED agent
     \/ Waits(m, {"reporting", "retrying"}) /\ Leaves(m.agent)
  /\ UNCHANGED <<late, revoked, op, call, effects, crashes>>

\* Lost, or a result that was refused: the agent sees an error in both cases.
Lose(m) ==
  /\ m \in net
  /\ net' = net \ {m}
  /\ UNCHANGED <<store, revoked, op, call, agent, effects, crashes>>

GiveUp(p) ==
  /\ agent[p].step \in {"asking", "retrying"}
  /\ Leaves(p)
  /\ UNCHANGED <<store, revoked, op, call, net, effects, crashes>>

AgentDies(p) ==
  /\ agent[p] # Free /\ crashes < MaxCrashes
  /\ crashes' = crashes + 1
  /\ Leaves(p)
  /\ UNCHANGED <<store, revoked, op, call, net, effects>>

-----------------------------------------------------------------------------
(* The gateway: submit, result, cancel.                                    *)

Goes(c, step) == call' = [call EXCEPT ![c].step = step]
Returns(c) == call' = [call EXCEPT ![c] = NoCall]

\* update_operation refuses what OPERATION_TRANSITIONS does not list.
Updates(j, state) == op' = IF Legal(op[j], state) THEN [op EXCEPT ![j] = state] ELSE op

\* job_for_idempotency; the job of a replay is read and projected.
Submit(c, j) ==
  /\ call[c] = NoCall
  /\ Sweep
  /\ call' = [call EXCEPT ![c] =
       IF job'[j].state = "none" THEN [step |-> "missing", job |-> j, seen |-> "none"]
       ELSE [step |-> "read", job |-> j, seen |-> job'[j].state]]
  /\ UNCHANGED <<revoked, op, agent, net, effects, crashes>>

\* create_operation is idempotent.
Create(c) ==
  LET j == call[c].job IN
  /\ call[c].step = "missing"
  /\ IF op[j] = "none"
       THEN op' = [op EXCEPT ![j] = "QUEUED"] /\ Goes(c, "created")
       ELSE UNCHANGED op /\ Goes(c, "replay")
  /\ UNCHANGED <<store, revoked, agent, net, effects, crashes>>

Start(c) ==
  /\ call[c].step = "created"
  /\ Updates(call[c].job, "STARTING")
  /\ Goes(c, "starting")
  /\ UNCHANGED <<store, revoked, agent, net, effects, crashes>>

\* submit_job: a revoked device raises, a known key returns its job.
SubmitJob(c) ==
  LET j == call[c].job IN
  /\ call[c].step = "starting"
  /\ IF revoked THEN Goes(c, "failing") ELSE Goes(c, "queued")
  /\ job' = IF revoked \/ job[j].state # "none" THEN Swept
            ELSE [Swept EXCEPT ![j].state = "QUEUED"]
  /\ late' = SweptLate
  /\ UNCHANGED <<revoked, op, agent, net, effects, crashes>>

\* WAITING_EXTERNAL; refused, the submission is taken for failed.
Queue(c) ==
  LET j == call[c].job IN
  /\ call[c].step = "queued"
  /\ Updates(j, "WAITING_EXTERNAL")
  /\ IF Legal(op[j], "WAITING_EXTERNAL") THEN Goes(c, "check") ELSE Goes(c, "failing")
  /\ UNCHANGED <<store, revoked, agent, net, effects, crashes>>

FailSubmission(c) ==
  /\ call[c].step = "failing"
  /\ Updates(call[c].job, "FAILED")
  /\ Returns(c)
  /\ UNCHANGED <<store, revoked, agent, net, effects, crashes>>

\* A replay of an operation whose job is not there: correlation lost.
Correlate(c) ==
  LET j == call[c].job IN
  /\ call[c].step = "replay"
  /\ IF job[j].state = "none" THEN Goes(c, "lost") ELSE Goes(c, "check")
  /\ UNCHANGED <<store, revoked, op, agent, net, effects, crashes>>

LoseCorrelation(c) ==
  /\ call[c].step = "lost"
  /\ Updates(call[c].job, "UNCERTAIN")
  /\ Returns(c)
  /\ UNCHANGED <<store, revoked, agent, net, effects, crashes>>

\* result and invoke's polling: job_result, then its projection.
Ask(c, j) ==
  /\ call[c] = NoCall /\ job[j].state # "none"
  /\ call' = [call EXCEPT ![c] = [step |-> "check", job |-> j, seen |-> "none"]]
  /\ UNCHANGED <<store, revoked, op, agent, net, effects, crashes>>

JobResult(c) ==
  /\ call[c].step = "check"
  /\ Sweep
  /\ call' = [call EXCEPT ![c].step = "read", ![c].seen = job'[call[c].job].state]
  /\ UNCHANGED <<revoked, op, agent, net, effects, crashes>>

Project(c) ==
  LET j == call[c].job IN
  /\ call[c].step = "read"
  /\ IF op[j] \in {"SUCCEEDED", "FAILED", "CANCELLED"} THEN UNCHANGED op
     ELSE Updates(j, Mapped(call[c].seen))
  /\ Returns(c)
  /\ UNCHANGED <<store, revoked, agent, net, effects, crashes>>

\* (Mutant: a started job is cancelled like any other.)
CancelStarted(c, j) ==
  /\ call[c] = NoCall /\ job[j].state \in {"QUEUED", "LEASED"}
  /\ job' = [job EXCEPT ![j].state = "CANCELLED"]
  /\ call' = [call EXCEPT ![c] = [step |-> "check", job |-> j, seen |-> "none"]]
  /\ UNCHANGED <<late, revoked, op, agent, net, effects, crashes>>

\* cancel_job, then result.
Cancel(c, j) ==
  /\ call[c] = NoCall /\ job[j].state \in {"QUEUED", "LEASED"}
  /\ job' = [job EXCEPT ![j].state = IF job[j].started THEN "UNCERTAIN" ELSE "CANCELLED"]
  /\ call' = [call EXCEPT ![c] = [step |-> "check", job |-> j, seen |-> "none"]]
  /\ UNCHANGED <<late, revoked, op, agent, net, effects, crashes>>

GatewayDies ==
  /\ \E c \in Client : call[c] # NoCall
  /\ crashes < MaxCrashes
  /\ crashes' = crashes + 1
  /\ call' = [c \in Client |-> NoCall]
  /\ UNCHANGED <<store, revoked, op, agent, net, effects>>

-----------------------------------------------------------------------------
Relay ==
  \/ \E p \in Agent : Poll(p) \/ Prepare(p) \/ Beat(p)
  \/ \E m \in net : DeliverExecuting(m) \/ DeliverResult(m) \/ Lose(m)
  \/ Look \/ Revoke
  \/ \E j \in Job : Lapse(j, "lease") \/ Lapse(j, "deadline")

Device ==
  \E p \in Agent :
    \/ AskToRun(p) \/ Decline(p) \/ CallTool(p) \/ Report(p) \/ ReportAgain(p)
    \/ GiveUp(p) \/ AgentDies(p)

Gateway ==
  \/ \E c \in Client :
       \/ \E j \in Job : Submit(c, j) \/ Ask(c, j) \/ Cancel(c, j)
       \/ Create(c) \/ Start(c) \/ SubmitJob(c) \/ Queue(c) \/ FailSubmission(c)
       \/ Correlate(c) \/ LoseCorrelation(c) \/ JobResult(c) \/ Project(c)
  \/ GatewayDies

Next == Relay \/ Device \/ Gateway

Spec == Init /\ [][Next]_vars

\* Time passes, and agents that poll twice a second and clients that wait for
\* their result keep sweeping the store.
FairSpec ==
  /\ Spec
  /\ WF_vars(Look)
  /\ \A j \in Job : WF_vars(Lapse(j, "deadline"))

-----------------------------------------------------------------------------
(* What a remote call promises.                                            *)

\* A leased job is requeued only when the agent never reported an execution
\* phase (store.py:52-54): whatever is lost, late, repeated or restarted, the
\* tool of a job is called at most once.
RunsOnce == \A j \in Job : effects[j] <= 1

\* The durable operation never claims what the device did not do: SUCCEEDED is
\* backed by the result of the job, CANCELLED means the tool was not called
\* and will not be (gateway.py:222-285, store.py:964-979).
OperationsTellTheTruth ==
  \A j \in Job :
    /\ op[j] = "SUCCEEDED" => job[j].state = "COMPLETED"
    /\ op[j] = "CANCELLED" => (job[j].state = "CANCELLED" /\ effects[j] = 0)

\* What every step maintains: types, one call of the tool, true operations.
RemoteInvariant == TypeOK /\ RunsOnce /\ OperationsTellTheTruth

\* A device that was revoked is given no further job: from then on no row is
\* leased and no tool is allowed to start (store.py:562-578, 776-783).
RevokedStartsNothing ==
  [][\A j \in Job : revoked =>
       /\ job'[j].started = job[j].started
       /\ job'[j].state = "LEASED" => job[j].state = "LEASED"]_vars

\* Every submitted job reaches a terminal state, whatever happens to the agent,
\* to the gateway or to the device.
EveryJobEnds ==
  \A j \in Job : (job[j].state \in {"QUEUED", "LEASED"}) ~> (job[j].state \in Terminal)

\* The store and the agents implement AtMostOnce: a job that ended FAILED or
\* CANCELLED without a mark of execution is safe to submit again.
Verdict(j) ==
  CASE job[j].state = "COMPLETED" -> "yes"
    [] job[j].state = "UNCERTAIN" -> "unknown"
    [] job[j].state = "FAILED" -> IF job[j].started THEN "unknown" ELSE "no"
    [] job[j].state = "CANCELLED" -> "no"
    [] OTHER -> "open"

Promise == INSTANCE AtMostOnce WITH verdict <- [j \in Job |-> Verdict(j)]

ImplementsAtMostOnce == Promise!Spec
=============================================================================
