--------------------------- MODULE RemoteJobsProofs ---------------------------
(***************************************************************************)
(* Proofs about RemoteJobs, for every set of keys, threads and agents and  *)
(* every number of requeues: the tool of a remote job is called at most    *)
(* once, the durable operation tells the truth, a revoked device starts    *)
(* nothing, and the store implements AtMostOnce.                           *)
(*                                                                         *)
(* The argument.  Every lease of a job has a number of its own             *)
(* (LeasesGiven), one agent at most holds it (OneHolder), and that agent   *)
(* asks once for leave to call the tool (AskedOnce, NotYetAsked).  The     *)
(* store marks the row as it gives that leave, and a marked row is never   *)
(* leased again (Marked); so the agent that has the leave is alone, and    *)
(* the tool has not been called yet (Running).                             *)
(***************************************************************************)
EXTENDS RemoteJobs, TLAPS

Idle(p) == agent[p].step = "idle"

\* The leases of j handed out so far; the next one has a larger number.
Given(j) ==
  IF job[j].state \in {"none", "QUEUED"} THEN job[j].requeues ELSE job[j].requeues + 1

\* Agent p serves the lease the request m was posted under.
Serves(p, m) == ~Idle(p) /\ agent[p].job = m.job /\ agent[p].lease = m.lease

\* A busy agent and a call in progress have a job.
Busy == \A p \in Agent : IF Idle(p) THEN agent[p] = Free ELSE agent[p].job \in Job
Calling == \A c \in Client : call[c].step # "idle" => call[c].job \in Job

\* No agent and no request has a lease that was not given.
LeasesGiven ==
  /\ \A j \in Job : job[j].state = "LEASED" => job[j].lease = job[j].requeues + 1
  /\ \A p \in Agent : ~Idle(p) => agent[p].lease <= Given(agent[p].job)
  /\ \A m \in net : m.lease <= Given(m.job)

\* A lease belongs to one agent, and so do the requests posted under it.
OneHolder ==
  /\ \A p, q \in Agent :
       (~Idle(p) /\ ~Idle(q) /\ agent[p].job = agent[q].job /\ agent[p].lease = agent[q].lease)
         => p = q
  /\ \A p \in Agent, m \in net : Serves(p, m) => m.agent = p
  /\ \A m, k \in net : (m.job = k.job /\ m.lease = k.lease) => m.agent = k.agent

\* A lease asks once to execute: while the request is on its way its agent, if
\* it is still there, waits for the answer, and the job has not started under
\* this lease.
AskedOnce ==
  \A m \in net : m.kind = "executing" =>
    /\ \A p \in Agent : Serves(p, m) => agent[p].step = "asking"
    /\ m.lease = job[m.job].lease => ~job[m.job].started

NotYetAsked ==
  \A p \in Agent :
    (agent[p].step \in {"leased", "prepared"} /\ agent[p].lease = job[agent[p].job].lease)
      => ~job[agent[p].job].started

\* The mark of a started job: nothing happens without it, it is never queued or
\* cancelled again.
Marked ==
  \A j \in Job :
    /\ job[j].started => job[j].state \notin {"none", "QUEUED", "CANCELLED"}
    /\ ~job[j].started => effects[j] = 0

\* The tool is about to be called for the first time, under the present lease.
Running ==
  \A p \in Agent : agent[p].step = "running" =>
    /\ job[agent[p].job].started
    /\ agent[p].lease = job[agent[p].job].lease
    /\ effects[agent[p].job] = 0

\* The end of a job that a call has read is still its end.
SeenIsFinal ==
  \A c \in Client :
    (call[c].step # "idle" /\ call[c].seen \in Terminal) => job[call[c].job].state = call[c].seen

Typed == TypeOK /\ Busy /\ Calling
Leases == LeasesGiven /\ OneHolder /\ AskedOnce /\ NotYetAsked
Started == Marked /\ Running /\ RunsOnce
Answers == SeenIsFinal /\ OperationsTellTheTruth

IInv == Typed /\ Leases /\ Started /\ Answers

-----------------------------------------------------------------------------
(* The rows of the store.                                                  *)

\* What every step but Poll and DeliverExecuting does to a row: no lease is
\* given, no mark is set, an end is final.
RowKeeps(j) ==
  /\ job'[j].started = job[j].started
  /\ job[j].state \in Terminal => job'[j] = job[j]
  /\ job'[j].state = "LEASED" => job'[j] = job[j]
  /\ job[j].started => /\ job'[j].lease = job[j].lease
                       /\ job'[j].state \notin {"none", "QUEUED", "CANCELLED"}
  /\ Given(j)' >= Given(j)

\* _expire_jobs keeps the types, the marks and the ends.
LEMMA SweptTypes ==
  ASSUME TypeOK
  PROVE  Swept \in [Job -> Row] /\ SweptLate \in [Job -> Limit]
<1>1. ASSUME NEW j \in Job
      PROVE  (IF ~Expired(j) THEN job[j]
              ELSE IF Requeued(j)
                THEN [job[j] EXCEPT !.state = "QUEUED", !.lease = 0, !.requeues = @ + 1]
                ELSE [job[j] EXCEPT !.state = IF job[j].started THEN "UNCERTAIN" ELSE "FAILED"]) \in Row
  <2>1. job[j] \in Row
    BY DEF TypeOK
  <2>2. CASE ~Expired(j)
    BY <2>1, <2>2
  <2>3. CASE Expired(j) /\ Requeued(j)
    <3> DEFINE r == [job[j] EXCEPT !.state = "QUEUED", !.lease = 0, !.requeues = @ + 1]
    <3>1. job[j].requeues + 1 \in 0 .. MaxRequeues /\ 0 \in Lease
      BY <2>1, <2>3, RemoteAssumption DEF Requeued, Row, Lease
    <3>2. r \in Row
      BY <2>1, <3>1 DEF Row
    <3> QED
      BY <2>3, <3>2
  <2>4. CASE Expired(j) /\ ~Requeued(j)
    BY <2>1, <2>4 DEF Row, Lease, Terminal
  <2> QED
    BY <2>2, <2>3, <2>4
<1>2. Swept \in [Job -> Row]
  BY <1>1 DEF Swept
<1>3. SweptLate \in [Job -> Limit]
  BY DEF TypeOK, SweptLate, Limit
<1> QED
  BY <1>2, <1>3

\* A sweep never leases, never touches an ended row, and requeues only without the mark.
LEMMA SweptRow ==
  ASSUME TypeOK, NEW j \in Job
  PROVE  /\ Swept[j].started = job[j].started
         /\ job[j].state \in Terminal \union {"none"} => Swept[j] = job[j]
         /\ Swept[j].state = "LEASED" => Swept[j] = job[j]
         /\ Swept[j].state = "none" => job[j].state = "none"
         /\ job[j].started => /\ Swept[j].lease = job[j].lease
                              /\ Swept[j].state \in {job[j].state, "FAILED", "UNCERTAIN"}
         /\ (IF Swept[j].state \in {"none", "QUEUED"} THEN Swept[j].requeues
             ELSE Swept[j].requeues + 1) >= Given(j)
<1>1. job[j] \in Row
  BY DEF TypeOK
<1>2. Swept[j] = IF ~Expired(j) THEN job[j]
                 ELSE IF Requeued(j)
                   THEN [job[j] EXCEPT !.state = "QUEUED", !.lease = 0, !.requeues = @ + 1]
                   ELSE [job[j] EXCEPT !.state = IF job[j].started THEN "UNCERTAIN" ELSE "FAILED"]
  BY DEF Swept
<1>3. CASE ~Expired(j)
  BY <1>1, <1>2, <1>3, RemoteAssumption DEF Row, Given
<1>4. CASE Expired(j) /\ Requeued(j)
  BY <1>1, <1>2, <1>4, RemoteAssumption DEF Row, Lease, Given, Requeued, Terminal
<1>5. CASE Expired(j) /\ ~Requeued(j)
  BY <1>1, <1>2, <1>5, RemoteAssumption DEF Row, Lease, Given, Expired, Terminal
<1> QED
  BY <1>3, <1>4, <1>5

\* A swept row is kept in the sense of RowKeeps.
LEMMA SweepKeeps ==
  ASSUME TypeOK, Marked, NEW j \in Job, job'[j] = Swept[j]
  PROVE  RowKeeps(j)
<1>1. job[j].started => job[j].state \notin {"none", "QUEUED", "CANCELLED"}
  BY DEF Marked
<1> QED
  BY <1>1, SweptRow DEF RowKeeps, Given, Terminal

\* A step that leaves the rows alone keeps them.
LEMMA SameRowKeeps ==
  ASSUME TypeOK, Marked, NEW j \in Job, job'[j] = job[j]
  PROVE  RowKeeps(j)
<1>1. job[j] \in Row /\ MaxRequeues \in Nat
  BY RemoteAssumption DEF TypeOK
<1> QED
  BY <1>1 DEF RowKeeps, Given, Marked, Row

-----------------------------------------------------------------------------
(* Agents and their requests.                                              *)

\* An agent keeps its lease or leaves it.
AgentStays(p) ==
  \/ agent'[p] = Free
  \/ /\ ~Idle(p) /\ agent'[p].step # "idle"
     /\ agent'[p].job = agent[p].job /\ agent'[p].lease = agent[p].lease

\* A new request is posted under the lease its agent serves.
NetStays(m) == m \in net \/ (m.agent \in Agent /\ Serves(m.agent, m))

RowGives(j) ==
  /\ job'[j].state = "LEASED" => job'[j].lease = job'[j].requeues + 1
  /\ Given(j)' >= Given(j)

\* A step that hands out no lease leaves each lease to its holder.
LEMMA HoldersStay ==
  ASSUME TypeOK, Busy, LeasesGiven, OneHolder, TypeOK',
         \A j \in Job : RowGives(j), \A p \in Agent : AgentStays(p), \A m \in net' : NetStays(m)
  PROVE  LeasesGiven' /\ OneHolder'
<1>1. ASSUME NEW p \in Agent, ~Idle(p)'
      PROVE  /\ ~Idle(p) /\ agent[p].job \in Job
             /\ agent'[p].job = agent[p].job /\ agent'[p].lease = agent[p].lease
  BY <1>1 DEF AgentStays, Idle, Free, Busy
<1>2. ASSUME NEW m \in net'
      PROVE  m \in net \/ (m.agent \in Agent /\ Serves(m.agent, m))
  BY DEF NetStays
<1>3. ASSUME NEW j \in Job
      PROVE  Given(j) \in Nat /\ Given(j)' \in Nat /\ Given(j)' >= Given(j)
  <2>1. job[j] \in Row /\ job'[j] \in Row /\ MaxRequeues \in Nat
    BY RemoteAssumption DEF TypeOK
  <2> QED
    BY <2>1 DEF Given, Row, RowGives
<1>4. \A p \in Agent : agent[p].lease \in Nat
  BY RemoteAssumption DEF TypeOK, Process, Lease
<1>5. \A m \in net \union net' : m.lease \in Nat /\ m.job \in Job /\ m.agent \in Agent
  BY RemoteAssumption DEF TypeOK, Request, Lease
<1>6. LeasesGiven'
  <2>1. ASSUME NEW p \in Agent, ~Idle(p)'
        PROVE  (agent[p].lease <= Given(agent[p].job))'
    <3>1. /\ ~Idle(p) /\ agent[p].job \in Job
          /\ agent'[p].job = agent[p].job /\ agent'[p].lease = agent[p].lease
      BY <1>1, <2>1
    <3>2. agent[p].lease <= Given(agent[p].job)
      BY <3>1 DEF LeasesGiven
    <3> DEFINE j == agent[p].job
               n == agent[p].lease
    <3>3. ASSUME NEW i \in Job, i = agent'[p].job
          PROVE  n <= (Given(i))'
      BY <1>3, <1>4, <3>1, <3>2, <3>3
    <3> QED
      BY <3>1, <3>3 DEF Given
  <2>2. ASSUME NEW m \in net'
        PROVE  m.lease <= Given(m.job)'
    <3>1. m.lease <= Given(m.job)
      BY <1>2, <1>5 DEF LeasesGiven, Serves
    <3> QED
      BY <1>3, <1>5, <3>1
  <2>3. \A j \in Job : job'[j].state = "LEASED" => job'[j].lease = job'[j].requeues + 1
    BY DEF RowGives
  <2> QED
    BY <2>1, <2>2, <2>3 DEF LeasesGiven
<1>7. OneHolder'
  <2>1. ASSUME NEW p \in Agent, NEW q \in Agent, ~Idle(p)', ~Idle(q)',
               agent'[p].job = agent'[q].job, agent'[p].lease = agent'[q].lease
        PROVE  p = q
    <3>1. /\ ~Idle(p) /\ agent'[p].job = agent[p].job /\ agent'[p].lease = agent[p].lease
          /\ ~Idle(q) /\ agent'[q].job = agent[q].job /\ agent'[q].lease = agent[q].lease
      BY <1>1, <2>1
    <3> QED
      BY <2>1, <3>1 DEF OneHolder
  <2>2. ASSUME NEW p \in Agent, NEW m \in net', Serves(p, m)'
        PROVE  m.agent = p
    <3>1. ~Idle(p) /\ Serves(p, m)
      BY <1>1, <2>2 DEF Serves
    <3> QED
      BY <1>2, <3>1 DEF OneHolder, Serves
  <2>3. ASSUME NEW m \in net', NEW k \in net', m.job = k.job, m.lease = k.lease
        PROVE  m.agent = k.agent
    <3>1. /\ m \in net \/ (m.agent \in Agent /\ Serves(m.agent, m))
          /\ k \in net \/ (k.agent \in Agent /\ Serves(k.agent, k))
      BY <1>2
    <3>2. CASE m \in net /\ k \in net
      BY <2>3, <3>2 DEF OneHolder
    <3>3. CASE m \in net /\ k.agent \in Agent /\ Serves(k.agent, k)
      BY <2>3, <3>3 DEF OneHolder, Serves
    <3>4. CASE k \in net /\ m.agent \in Agent /\ Serves(m.agent, m)
      BY <2>3, <3>4 DEF OneHolder, Serves
    <3>5. CASE /\ k.agent \in Agent /\ Serves(k.agent, k)
               /\ m.agent \in Agent /\ Serves(m.agent, m)
      BY <2>3, <3>5 DEF OneHolder, Serves
    <3> QED
      BY <3>1, <3>2, <3>3, <3>4, <3>5
  <2> QED
    BY <2>1, <2>2, <2>3 DEF OneHolder
<1> QED
  BY <1>6, <1>7

\* What every step but Poll, AskToRun and DeliverExecuting does to an agent:
\* one that waits for leave waits on, none gets leave.
AgentKeeps(p) ==
  \/ agent'[p] = Free
  \/ /\ ~Idle(p) /\ agent'[p].step # "idle"
     /\ agent'[p].job = agent[p].job /\ agent'[p].lease = agent[p].lease
     /\ \/ agent'[p].step = agent[p].step
        \/ agent'[p].step = "prepared" /\ agent[p].step = "leased"
        \/ agent[p].step # "asking" /\ agent'[p].step \in {"ran", "reporting", "retrying"}

NetKeeps(m) == m \in net \/ (m.kind # "executing" /\ m.agent \in Agent /\ Serves(m.agent, m))

\* A step that gives no leave keeps what is known of the leases.
LEMMA LeasesStay ==
  ASSUME TypeOK, Busy, Leases, TypeOK',
         \A j \in Job : RowKeeps(j), \A p \in Agent : AgentKeeps(p), \A m \in net' : NetKeeps(m)
  PROVE  Leases'
<1>1. LeasesGiven' /\ OneHolder'
  <2>1. \A j \in Job : RowGives(j)
    BY DEF RowKeeps, RowGives, Leases, LeasesGiven
  <2>2. \A p \in Agent : AgentStays(p)
    BY DEF AgentKeeps, AgentStays
  <2>3. \A m \in net' : NetStays(m)
    BY DEF NetKeeps, NetStays
  <2> QED
    BY <2>1, <2>2, <2>3, HoldersStay DEF Leases
<1>2. ASSUME NEW j \in Job
      PROVE  /\ job'[j].started = job[j].started
             /\ job[j].started => job'[j].lease = job[j].lease
  BY DEF RowKeeps
<1>3. AskedOnce'
  <2> SUFFICES ASSUME NEW m \in net', m.kind = "executing"
               PROVE  /\ \A p \in Agent : Serves(p, m)' => agent'[p].step = "asking"
                      /\ m.lease = job'[m.job].lease => ~job'[m.job].started
    BY DEF AskedOnce
  <2>1. m \in net /\ m.job \in Job
    BY DEF NetKeeps, TypeOK, Request
  <2>2. ASSUME NEW p \in Agent, Serves(p, m)'
        PROVE  agent'[p].step = "asking"
    <3>1. Serves(p, m)
      BY <2>2 DEF Serves, AgentKeeps, Idle, Free
    <3>2. agent[p].step = "asking"
      BY <2>1, <3>1 DEF Leases, AskedOnce
    <3> QED
      BY <2>2, <3>2 DEF Serves, AgentKeeps, Idle, Free
  <2>3. m.lease = job'[m.job].lease => ~job'[m.job].started
    BY <1>2, <2>1 DEF Leases, AskedOnce
  <2> QED
    BY <2>2, <2>3
<1>4. NotYetAsked'
  <2> SUFFICES ASSUME NEW p \in Agent, agent'[p].step \in {"leased", "prepared"},
                      agent'[p].lease = job'[agent'[p].job].lease
               PROVE  ~job'[agent'[p].job].started
    BY DEF NotYetAsked
  <2>1. /\ agent[p].step \in {"leased", "prepared"} /\ agent[p].job \in Job
        /\ agent'[p].job = agent[p].job /\ agent'[p].lease = agent[p].lease
    BY DEF AgentKeeps, Free, Busy, Idle
  <2> QED
    BY <1>2, <2>1 DEF Leases, NotYetAsked
<1> QED
  BY <1>1, <1>3, <1>4 DEF Leases

\* If no tool is called either, what is known of the effects stays true.
LEMMA StartedStays ==
  ASSUME TypeOK, Busy, Started, TypeOK', effects' = effects,
         \A j \in Job : RowKeeps(j), \A p \in Agent : AgentKeeps(p)
  PROVE  Started'
<1>1. Marked'
  BY DEF RowKeeps, Started, Marked
<1>2. Running'
  <2> SUFFICES ASSUME NEW p \in Agent, agent'[p].step = "running"
               PROVE  /\ job'[agent'[p].job].started
                      /\ agent'[p].lease = job'[agent'[p].job].lease
                      /\ effects[agent'[p].job] = 0
    BY DEF Running
  <2>1. /\ agent[p].step = "running" /\ agent[p].job \in Job
        /\ agent'[p].job = agent[p].job /\ agent'[p].lease = agent[p].lease
    BY DEF AgentKeeps, Free, Busy, Idle
  <2> QED
    BY <2>1 DEF RowKeeps, Started, Running
<1>3. RunsOnce'
  BY DEF Started, RunsOnce
<1> QED
  BY <1>1, <1>2, <1>3 DEF Started

-----------------------------------------------------------------------------
(* Types.                                                                  *)

Steps == {"leased", "prepared", "asking", "running", "ran", "reporting", "retrying"}

\* An agent goes on to its next step, or leaves its job.
LEMMA MovesTypes ==
  ASSUME TypeOK, Busy, NEW p \in Agent, ~Idle(p), NEW step \in Steps, Moves(p, step)
  PROVE  /\ agent' \in [Agent -> Process] /\ Busy'
         /\ \A q \in Agent \ {p} : agent'[q] = agent[q]
         /\ agent'[p].step = step /\ agent'[p].job = agent[p].job /\ agent'[p].lease = agent[p].lease
<1>1. agent \in [Agent -> Process] /\ agent[p] \in Process
  BY DEF TypeOK
<1>2. [agent[p] EXCEPT !.step = step] \in Process
  BY <1>1 DEF Process, Steps
<1>3. agent' = [agent EXCEPT ![p] = [agent[p] EXCEPT !.step = step]]
  BY <1>1 DEF Moves
<1>4. /\ \A q \in Agent \ {p} : agent'[q] = agent[q]
      /\ agent'[p].step = step /\ agent'[p].job = agent[p].job /\ agent'[p].lease = agent[p].lease
  BY <1>1, <1>3 DEF Process
<1>5. agent' \in [Agent -> Process]
  BY <1>1, <1>2, <1>3
<1>6. Busy'
  BY <1>4 DEF Busy, Idle, Steps
<1> QED
  BY <1>4, <1>5, <1>6

\* An agent leaves its job.
LEMMA LeavesTypes ==
  ASSUME TypeOK, Busy, NEW p \in Agent, Leaves(p)
  PROVE  /\ agent' \in [Agent -> Process] /\ Busy'
         /\ \A q \in Agent \ {p} : agent'[q] = agent[q]
         /\ agent'[p] = Free
<1>1. agent \in [Agent -> Process] /\ Free \in Process
  BY RemoteAssumption DEF TypeOK, Free, Process, Lease
<1>2. /\ \A q \in Agent \ {p} : agent'[q] = agent[q]
      /\ agent'[p] = Free /\ agent' \in [Agent -> Process]
  BY <1>1 DEF Leaves
<1>3. Busy'
  BY <1>2 DEF Busy, Idle, Free
<1> QED
  BY <1>2, <1>3

\* A request names the agent that posts it and the lease it serves.
LEMMA PostTypes ==
  ASSUME TypeOK, Busy, NEW p \in Agent, ~Idle(p),
         NEW kind \in {"executing", "COMPLETED", "FAILED"}, Post(p, kind)
  PROVE  /\ net' \subseteq Request
         /\ \A m \in net' : m \in net \/ (m.kind = kind /\ m.agent = p /\ Serves(p, m))
<1>1. agent[p].job \in Job /\ agent[p].lease \in Lease
  BY DEF Busy, TypeOK, Process
<1> DEFINE r == [kind |-> kind, job |-> agent[p].job, agent |-> p, lease |-> agent[p].lease]
<1>2. r \in Request
  BY <1>1 DEF Request
<1>3. net' = net \union {r}
  BY DEF Post
<1>4. r.kind = kind /\ r.agent = p /\ Serves(p, r)
  BY DEF Serves
<1> QED
  BY <1>2, <1>3, <1>4 DEF TypeOK

CallSteps == {"missing", "created", "starting", "queued", "failing", "replay", "lost",
              "check", "read"}

\* A thread of the gateway goes on to the next step of its call.
LEMMA GoesTypes ==
  ASSUME TypeOK, Calling, NEW c \in Client, call[c].step # "idle",
         NEW step \in CallSteps, Goes(c, step)
  PROVE  /\ call' \in [Client -> Call] /\ Calling'
         /\ \A d \in Client \ {c} : call'[d] = call[d]
         /\ call'[c].job = call[c].job /\ call'[c].seen = call[c].seen
<1>1. call \in [Client -> Call] /\ call[c] \in Call
  BY DEF TypeOK
<1>2. [call[c] EXCEPT !.step = step] \in Call
  BY <1>1 DEF Call, CallSteps
<1>3. call' = [call EXCEPT ![c] = [call[c] EXCEPT !.step = step]]
  BY <1>1 DEF Goes
<1>4. /\ \A d \in Client \ {c} : call'[d] = call[d]
      /\ call'[c].job = call[c].job /\ call'[c].seen = call[c].seen
  BY <1>1, <1>3 DEF Call
<1>5. call' \in [Client -> Call]
  BY <1>1, <1>2, <1>3
<1>6. Calling'
  BY <1>4 DEF Calling
<1> QED
  BY <1>4, <1>5, <1>6

\* A thread ends its call.
LEMMA ReturnsTypes ==
  ASSUME TypeOK, Calling, NEW c \in Client, Returns(c)
  PROVE  /\ call' \in [Client -> Call] /\ Calling'
         /\ \A d \in Client \ {c} : call'[d] = call[d]
         /\ call'[c] = NoCall
<1>1. call \in [Client -> Call] /\ NoCall \in Call
  BY DEF TypeOK, NoCall, Call
<1>2. /\ \A d \in Client \ {c} : call'[d] = call[d]
      /\ call'[c] = NoCall /\ call' \in [Client -> Call]
  BY <1>1 DEF Returns
<1> QED
  BY <1>2 DEF Calling, NoCall

\* A thread begins a call for the job j.
LEMMA EntersTypes ==
  ASSUME TypeOK, Calling, NEW c \in Client, NEW r \in Call, r.job \in Job,
         call' = [call EXCEPT ![c] = r]
  PROVE  /\ call' \in [Client -> Call] /\ Calling'
         /\ \A d \in Client \ {c} : call'[d] = call[d]
         /\ call'[c] = r
<1>1. call \in [Client -> Call]
  BY DEF TypeOK
<1>2. /\ \A d \in Client \ {c} : call'[d] = call[d]
      /\ call'[c] = r /\ call' \in [Client -> Call]
  BY <1>1
<1> QED
  BY <1>2 DEF Calling

\* update_operation writes one operation, or refuses.
LEMMA UpdatesTypes ==
  ASSUME TypeOK, NEW j \in Job, NEW state \in Operation, Updates(j, state)
  PROVE  /\ op' \in [Job -> Operation]
         /\ \A i \in Job : op'[i] = op[i] \/ (i = j /\ op'[i] = state)
<1>1. op \in [Job -> Operation]
  BY DEF TypeOK
<1> QED
  BY <1>1 DEF Updates

\* progress renews one lease.
LEMMA RenewsTypes ==
  ASSUME TypeOK, NEW j \in Job, Renews(j)
  PROVE  late' \in [Job -> Limit]
BY DEF TypeOK, Renews, Limit

-----------------------------------------------------------------------------
(* The steps that give no lease, no leave and call no tool.                *)

Rows == \A j \in Job : RowKeeps(j)
Agents == \A p \in Agent : AgentKeeps(p)
Requests == \A m \in net' : NetKeeps(m)
Quiet == Rows /\ Agents /\ Requests /\ effects' = effects

\* An agent that does not move keeps its lease.
LEMMA SameAgentKeeps ==
  ASSUME Busy, NEW p \in Agent, agent'[p] = agent[p]
  PROVE  AgentKeeps(p)
BY DEF Busy, AgentKeeps, Idle

\* An agent that leaves gets nothing.
LEMMA LeaverKeeps ==
  ASSUME TypeOK, Busy, NEW p \in Agent, Leaves(p)
  PROVE  Agents
BY LeavesTypes, SameAgentKeeps DEF Agents, AgentKeeps

\* An agent that goes on to report gets no lease and no leave.
LEMMA MoverKeeps ==
  ASSUME TypeOK, Busy, NEW p \in Agent, ~Idle(p), agent[p].step # "asking",
         NEW step \in {"ran", "reporting", "retrying"}, Moves(p, step)
  PROVE  agent' \in [Agent -> Process] /\ Busy' /\ Agents
<1>1. step \in Steps
  BY DEF Steps
<1>2. /\ agent' \in [Agent -> Process] /\ Busy'
      /\ \A q \in Agent \ {p} : agent'[q] = agent[q]
      /\ agent'[p].step = step /\ agent'[p].job = agent[p].job /\ agent'[p].lease = agent[p].lease
  BY <1>1, MovesTypes
<1>3. ASSUME NEW q \in Agent PROVE AgentKeeps(q)
  <2>1. CASE q = p
    BY <1>2, <2>1 DEF AgentKeeps
  <2>2. CASE q # p
    BY <1>2, <2>2, SameAgentKeeps
  <2> QED
    BY <2>1, <2>2
<1> QED
  BY <1>2, <1>3 DEF Agents

\* A report asks for no leave.
LEMMA PosterKeeps ==
  ASSUME TypeOK, Busy, NEW p \in Agent, ~Idle(p), NEW kind \in {"COMPLETED", "FAILED"}, Post(p, kind)
  PROVE  net' \subseteq Request /\ Requests
BY PostTypes DEF Requests, NetKeeps

\* The calls of the relay but Poll and DeliverExecuting.
LEMMA RelayIsQuiet ==
  ASSUME Typed, Marked,
         \/ \E p \in Agent : Prepare(p) \/ Beat(p)
         \/ \E m \in net : DeliverResult(m) \/ Lose(m)
         \/ Look \/ Revoke
         \/ \E j \in Job : Lapse(j, "lease") \/ Lapse(j, "deadline")
  PROVE  Typed' /\ Quiet
<1> USE DEF Typed
<1>1. ASSUME NEW p \in Agent, Prepare(p) PROVE Typed' /\ Quiet
  <2>1. ~Idle(p) /\ agent[p].job \in Job
    BY <1>1 DEF Prepare, Idle, Busy
  <2>2. job' = job /\ late' \in [Job -> Limit]
    BY <1>1, <2>1, RenewsTypes DEF Prepare, store, TypeOK
  <2>3. agent' \in [Agent -> Process] /\ Busy' /\ Agents
    <3>1. CASE Leaves(p)
      BY <3>1, LeavesTypes, LeaverKeeps
    <3>2. CASE Moves(p, "prepared")
      <4>1. "prepared" \in Steps
        BY DEF Steps
      <4>2. /\ agent' \in [Agent -> Process] /\ Busy'
            /\ \A q \in Agent \ {p} : agent'[q] = agent[q]
            /\ agent'[p].step = "prepared" /\ agent'[p].job = agent[p].job
            /\ agent'[p].lease = agent[p].lease
        BY <2>1, <3>2, <4>1, MovesTypes
      <4>3. AgentKeeps(p)
        BY <1>1, <2>1, <4>2 DEF Prepare, AgentKeeps
      <4>4. \A q \in Agent \ {p} : AgentKeeps(q)
        BY <4>2, SameAgentKeeps
      <4> QED
        BY <4>2, <4>3, <4>4 DEF Agents
    <3> QED
      BY <1>1, <3>1, <3>2 DEF Prepare
  <2>4. UNCHANGED <<revoked, op, call, net, effects, crashes>>
    BY <1>1 DEF Prepare
  <2>5. Rows
    BY <2>2, SameRowKeeps DEF Rows
  <2> QED
    BY <2>2, <2>3, <2>4, <2>5 DEF TypeOK, Calling, Quiet, Requests, NetKeeps
<1>2. ASSUME NEW p \in Agent, Beat(p) PROVE Typed' /\ Quiet
  <2>1. agent[p].job \in Job
    BY <1>2 DEF Beat, Idle, Busy
  <2>2. late' \in [Job -> Limit]
    BY <1>2, <2>1, RenewsTypes DEF Beat
  <2>3. UNCHANGED <<job, revoked, op, call, agent, net, effects, crashes>>
    BY <1>2 DEF Beat
  <2>4. Rows /\ Agents
    BY <2>3, SameRowKeeps, SameAgentKeeps DEF Rows, Agents
  <2> QED
    BY <2>2, <2>3, <2>4 DEF TypeOK, Busy, Idle, Calling, Quiet, Requests, NetKeeps
<1>3. ASSUME NEW m \in net, DeliverResult(m) PROVE Typed' /\ Quiet
  <2>1. m \in Request /\ job[m.job] \in Row /\ job[m.job].state = "LEASED"
    BY <1>3 DEF DeliverResult, TypeOK, Request, Holds
  <2>2. m.kind \in {"COMPLETED", "FAILED"} /\ m.agent \in Agent /\ m.job \in Job
    BY <1>3, <2>1 DEF DeliverResult, Request
  <2>3. job' = [job EXCEPT ![m.job] = [job[m.job] EXCEPT !.state = m.kind]]
    BY <1>3, <2>2 DEF DeliverResult, TypeOK
  <2>4. job' \in [Job -> Row]
    BY <2>1, <2>2, <2>3 DEF TypeOK, Row, Terminal
  <2>5. Rows
    <3> SUFFICES ASSUME NEW j \in Job PROVE RowKeeps(j)
      BY DEF Rows
    <3>1. CASE j # m.job
      BY <2>3, <3>1, SameRowKeeps DEF TypeOK
    <3>2. CASE j = m.job
      <4>1. /\ job'[j].state = m.kind /\ job'[j].started = job[j].started
            /\ job'[j].lease = job[j].lease /\ job'[j].requeues = job[j].requeues
        BY <2>1, <2>2, <2>3, <3>2 DEF TypeOK, Row
      <4>2. job[j].requeues \in Nat
        BY <2>1, <3>2, RemoteAssumption DEF Row
      <4> QED
        BY <2>1, <2>2, <3>2, <4>1, <4>2 DEF RowKeeps, Given, Terminal
    <3> QED
      BY <3>1, <3>2
  <2>6. agent' \in [Agent -> Process] /\ Busy' /\ Agents
    <3>1. CASE UNCHANGED agent
      BY <3>1, SameAgentKeeps DEF TypeOK, Busy, Idle, Agents
    <3>2. CASE Leaves(m.agent)
      BY <2>2, <3>2, LeavesTypes, LeaverKeeps
    <3> QED
      BY <1>3, <3>1, <3>2 DEF DeliverResult
  <2>7. UNCHANGED <<late, revoked, op, call, effects, crashes>> /\ net' \subseteq net
    BY <1>3 DEF DeliverResult
  <2> QED
    BY <2>4, <2>5, <2>6, <2>7 DEF TypeOK, Calling, Quiet, Requests, NetKeeps
<1>4. ASSUME NEW m \in net, Lose(m) PROVE Typed' /\ Quiet
  <2>1. UNCHANGED <<job, late, revoked, op, call, agent, effects, crashes>> /\ net' \subseteq net
    BY <1>4 DEF Lose, store
  <2>2. Rows /\ Agents
    BY <2>1, SameRowKeeps, SameAgentKeeps DEF Rows, Agents
  <2> QED
    BY <2>1, <2>2 DEF TypeOK, Busy, Idle, Calling, Quiet, Requests, NetKeeps
<1>5. CASE Look
  <2>1. UNCHANGED <<revoked, op, call, agent, net, effects, crashes>>
    BY <1>5 DEF Look
  <2>2. job' = Swept /\ late' = SweptLate
    BY <1>5 DEF Look, Sweep
  <2>3. Rows /\ Agents
    BY <2>1, <2>2, SweepKeeps, SameAgentKeeps DEF Rows, Agents
  <2> QED
    BY <2>1, <2>2, <2>3, SweptTypes DEF TypeOK, Busy, Idle, Calling, Quiet, Requests, NetKeeps
<1>6. CASE Revoke
  <2>1. UNCHANGED <<late, op, call, agent, net, effects, crashes>> /\ revoked' = TRUE
    BY <1>6 DEF Revoke
  <2>2. ASSUME NEW j \in Job PROVE job'[j] \in Row /\ RowKeeps(j)
    <3>1. job[j] \in Row
      BY DEF TypeOK
    <3>2. job'[j] = IF job[j].state = "QUEUED" THEN [job[j] EXCEPT !.state = "CANCELLED"] ELSE job[j]
      BY <1>6 DEF Revoke
    <3>3. CASE job[j].state # "QUEUED"
      BY <3>1, <3>2, <3>3, SameRowKeeps
    <3>4. CASE job[j].state = "QUEUED"
      <4>1. job'[j] \in Row /\ job'[j].state = "CANCELLED" /\ job'[j].started = job[j].started
            /\ job'[j].requeues = job[j].requeues
        BY <3>1, <3>2, <3>4 DEF Row, Terminal
      <4>2. ~job[j].started
        BY <3>4 DEF Marked
      <4>3. job[j].requeues \in Nat
        BY <3>1, RemoteAssumption DEF Row
      <4> QED
        BY <3>4, <4>1, <4>2, <4>3 DEF RowKeeps, Given, Terminal
    <3> QED
      BY <3>3, <3>4
  <2>3. job' \in [Job -> Row]
    BY <1>6, <2>2 DEF Revoke
  <2>4. Rows /\ Agents
    BY <2>1, <2>2, SameAgentKeeps DEF Rows, Agents
  <2> QED
    BY <2>1, <2>3, <2>4 DEF TypeOK, Busy, Idle, Calling, Quiet, Requests, NetKeeps
<1>7. ASSUME NEW j \in Job, NEW limit \in {"lease", "deadline"}, Lapse(j, limit)
      PROVE  Typed' /\ Quiet
  <2>1. UNCHANGED <<job, revoked, op, call, agent, net, effects, crashes>>
    BY <1>7 DEF Lapse
  <2>2. late' \in [Job -> Limit]
    BY <1>7 DEF Lapse, TypeOK, Limit
  <2>3. Rows /\ Agents
    BY <2>1, SameRowKeeps, SameAgentKeeps DEF Rows, Agents
  <2> QED
    BY <2>1, <2>2, <2>3 DEF TypeOK, Busy, Idle, Calling, Quiet, Requests, NetKeeps
<1> QED
  BY <1>1, <1>2, <1>3, <1>4, <1>5, <1>6, <1>7

\* The steps of an agent but AskToRun and CallTool.
LEMMA DeviceIsQuiet ==
  ASSUME Typed, Marked, NEW p \in Agent,
         Decline(p) \/ Report(p) \/ ReportAgain(p) \/ GiveUp(p) \/ AgentDies(p)
  PROVE  Typed' /\ Quiet
<1> USE DEF Typed
<1>1. UNCHANGED <<job, late, revoked, op, call, effects>> /\ crashes' \in 0 .. MaxCrashes
  <2>1. CASE AgentDies(p)
    BY <2>1, RemoteAssumption DEF AgentDies, TypeOK, store
  <2>2. CASE ~AgentDies(p)
    BY <2>2 DEF Decline, Report, ReportAgain, GiveUp, TypeOK, store
  <2> QED
    BY <2>1, <2>2
<1>2. agent' \in [Agent -> Process] /\ Busy' /\ Agents /\ net' \subseteq Request /\ Requests
  <2>1. CASE Leaves(p) /\ net' = net
    BY <2>1, LeavesTypes, LeaverKeeps DEF TypeOK, Requests, NetKeeps
  <2>2. ASSUME NEW step \in {"reporting", "retrying"}, NEW kind \in {"COMPLETED", "FAILED"},
               ~Idle(p), agent[p].step # "asking", Moves(p, step), Post(p, kind)
        PROVE  agent' \in [Agent -> Process] /\ Busy' /\ Agents /\ net' \subseteq Request /\ Requests
    <3>1. step \in {"ran", "reporting", "retrying"}
      OBVIOUS
    <3> QED
      BY <2>2, <3>1, MoverKeeps, PosterKeeps
  <2>3. CASE Decline(p)
    BY <2>2, <2>3 DEF Decline, Idle
  <2>4. CASE Report(p)
    BY <2>2, <2>4 DEF Report, Idle
  <2>5. CASE ReportAgain(p)
    BY <2>2, <2>5 DEF ReportAgain, Idle
  <2>6. CASE GiveUp(p)
    BY <2>1, <2>6 DEF GiveUp
  <2>7. CASE AgentDies(p)
    BY <2>1, <2>7 DEF AgentDies
  <2> QED
    BY <2>3, <2>4, <2>5, <2>6, <2>7
<1>3. Rows
  BY <1>1, SameRowKeeps DEF Rows
<1> QED
  BY <1>1, <1>2, <1>3 DEF TypeOK, Calling, Quiet

-----------------------------------------------------------------------------
(* The gateway: what its calls read and what they write.                   *)

\* What a call has read of an ended job is the end of that job.
CallKeeps(c) ==
  \/ call'[c].step = "idle"
  \/ call[c].step # "idle" /\ call'[c].job = call[c].job /\ call'[c].seen = call[c].seen
  \/ call'[c].seen = "none"
  \/ call'[c].seen = job'[call'[c].job].state

\* An operation ends SUCCEEDED or CANCELLED only as its job did.
OpKeeps(j) ==
  \/ op'[j] = op[j]
  \/ op'[j] \notin {"SUCCEEDED", "CANCELLED"}
  \/ op'[j] = "SUCCEEDED" /\ job[j].state = "COMPLETED"
  \/ op'[j] = "CANCELLED" /\ job[j].state = "CANCELLED"

Calls == \A c \in Client : CallKeeps(c)
Operations == \A j \in Job : OpKeeps(j)
Honest == Calls /\ Operations

Ends == \A j \in Job : job[j].state \in Terminal => job'[j] = job[j]

\* Honest calls keep the answers true.
LEMMA AnswersStay ==
  ASSUME Typed, Answers, Typed', Marked', Ends, Honest
  PROVE  Answers'
<1>1. SeenIsFinal'
  <2> SUFFICES ASSUME NEW c \in Client, call'[c].step # "idle", call'[c].seen \in Terminal
               PROVE  job'[call'[c].job].state = call'[c].seen
    BY DEF SeenIsFinal, Terminal
  <2>1. CASE call[c].step # "idle" /\ call'[c].job = call[c].job /\ call'[c].seen = call[c].seen
    <3>1. call[c].job \in Job /\ job[call[c].job].state = call[c].seen
      BY <2>1 DEF Answers, SeenIsFinal, Typed, Calling
    <3> QED
      BY <2>1, <3>1 DEF Ends
  <2> QED
    BY <2>1 DEF Honest, Calls, CallKeeps, Terminal
<1>2. OperationsTellTheTruth'
  <2> SUFFICES ASSUME NEW j \in Job
               PROVE  /\ op'[j] = "SUCCEEDED" => job'[j].state = "COMPLETED"
                      /\ op'[j] = "CANCELLED" => (job'[j].state = "CANCELLED" /\ effects'[j] = 0)
    BY DEF OperationsTellTheTruth
  <2>1. /\ op'[j] = "SUCCEEDED" => job[j].state = "COMPLETED"
        /\ op'[j] = "CANCELLED" => job[j].state = "CANCELLED"
    BY DEF Honest, Operations, OpKeeps, Answers, OperationsTellTheTruth
  <2>2. job[j].state \in {"COMPLETED", "CANCELLED"} => job'[j].state = job[j].state
    BY DEF Ends, Terminal
  <2>3. job'[j].state = "CANCELLED" => effects'[j] = 0
    BY DEF Marked, Typed, TypeOK, Row
  <2> QED
    BY <2>1, <2>2, <2>3
<1> QED
  BY <1>1, <1>2 DEF Answers

\* The relay and the agents leave calls and operations alone.
LEMMA OthersAreHonest ==
  ASSUME Calling, UNCHANGED <<op, call>>
  PROVE  Honest
BY DEF Honest, Calls, CallKeeps, Operations, OpKeeps

\* A call that only moves on.
LEMMA GoerIsHonest ==
  ASSUME Typed, NEW c \in Client, call[c].step # "idle",
         Returns(c) \/ \E step \in CallSteps : Goes(c, step)
  PROVE  call' \in [Client -> Call] /\ Calling' /\ Calls
<1>1. CASE Returns(c)
  BY <1>1, ReturnsTypes DEF Typed, Calls, CallKeeps, NoCall
<1>2. ASSUME NEW step \in CallSteps, Goes(c, step)
      PROVE  call' \in [Client -> Call] /\ Calling' /\ Calls
  BY <1>2, GoesTypes DEF Typed, Calls, CallKeeps
<1> QED
  BY <1>1, <1>2

\* A call that begins, or that has read its job.
LEMMA EntererIsHonest ==
  ASSUME Typed, NEW c \in Client, NEW r \in Call, r.job \in Job,
         call' = [call EXCEPT ![c] = r], r.seen \in {"none", job'[r.job].state}
  PROVE  call' \in [Client -> Call] /\ Calling' /\ Calls
BY EntersTypes DEF Typed, Calls, CallKeeps

\* An update that says no more than the job does.
LEMMA UpdaterIsHonest ==
  ASSUME Typed, NEW j \in Job, NEW state \in Operation, Updates(j, state),
         /\ state = "SUCCEEDED" => job[j].state = "COMPLETED"
         /\ state = "CANCELLED" => job[j].state = "CANCELLED"
  PROVE  op' \in [Job -> Operation] /\ Operations
<1>1. /\ op' \in [Job -> Operation]
      /\ \A i \in Job : op'[i] = op[i] \/ (i = j /\ op'[i] = state)
  BY UpdatesTypes DEF Typed
<1> QED
  BY <1>1 DEF Operations, OpKeeps

\* A thread that leaves the store alone.
LEMMA BystanderIsQuiet ==
  ASSUME Typed, Marked, UNCHANGED <<job, late, revoked, agent, net, effects, crashes>>,
         op' \in [Job -> Operation], call' \in [Client -> Call], Calling'
  PROVE  Typed' /\ Quiet
<1>1. Rows /\ Agents
  BY SameRowKeeps, SameAgentKeeps DEF Typed, Rows, Agents
<1> QED
  BY <1>1 DEF Typed, TypeOK, Busy, Idle, Quiet, Requests, NetKeeps

\* A thread that reads or writes the rows.
LEMMA WriterIsQuiet ==
  ASSUME Typed, UNCHANGED <<revoked, op, agent, net, effects, crashes>>,
         job' \in [Job -> Row], late' \in [Job -> Limit], Rows,
         call' \in [Client -> Call], Calling'
  PROVE  Typed' /\ Quiet
<1>1. Agents
  BY SameAgentKeeps DEF Typed, Agents
<1> QED
  BY <1>1 DEF Typed, TypeOK, Busy, Idle, Quiet, Requests, NetKeeps

\* A call that has read its job: two updates of one record.
LEMMA ReadCall ==
  ASSUME NEW k \in Call, NEW s
  PROVE  [[k EXCEPT !.step = "read"] EXCEPT !.seen = s] = [step |-> "read", job |-> k.job, seen |-> s]
<1>1. k = [step |-> k.step, job |-> k.job, seen |-> k.seen]
  BY DEF Call
<1> DEFINE x == k.job
           y == k.seen
           r == [step |-> "read", job |-> x, seen |-> y]
<1>2. [k EXCEPT !.step = "read"] = r
  <2>1. [[step |-> k.step, job |-> x, seen |-> y] EXCEPT !.step = "read"] = r
    OBVIOUS
  <2> QED
    BY <1>1, <2>1 
<1>3. [r EXCEPT !.seen = s] = [step |-> "read", job |-> x, seen |-> s]
  OBVIOUS
<1> QED
  BY <1>2, <1>3

\* Every step of the gateway: it starts nothing and claims nothing it did not read.
LEMMA GatewayIsQuiet ==
  ASSUME Typed, Marked, SeenIsFinal, Gateway
  PROVE  Typed' /\ Quiet /\ Honest
<1>1. ASSUME NEW c \in Client, NEW j \in Job, Submit(c, j)
      PROVE  Typed' /\ Quiet /\ Honest
  <2>1. UNCHANGED <<revoked, op, agent, net, effects, crashes>>
    BY <1>1 DEF Submit
  <2>2. job' = Swept /\ late' = SweptLate
    BY <1>1 DEF Submit, Sweep
  <2>3. job' \in [Job -> Row] /\ late' \in [Job -> Limit] /\ Rows
    BY <2>2, SweptTypes, SweepKeeps DEF Typed, Rows
  <2> DEFINE r == IF job'[j].state = "none" THEN [step |-> "missing", job |-> j, seen |-> "none"]
                  ELSE [step |-> "read", job |-> j, seen |-> job'[j].state]
  <2>4. r \in Call /\ r.job = j /\ r.seen = job'[j].state
    BY <2>3 DEF Call, Row
  <2>5. call' = [call EXCEPT ![c] = r]
    BY <1>1 DEF Submit
  <2>6. call' \in [Client -> Call] /\ Calling' /\ Calls
    <3> HIDE DEF r
    <3> QED
      BY <2>4, <2>5, EntererIsHonest
  <2>7. Operations
    BY <2>1 DEF Operations, OpKeeps
  <2> QED
    BY <2>1, <2>3, <2>6, <2>7, WriterIsQuiet DEF Honest
<1>2. ASSUME NEW c \in Client, NEW j \in Job, Ask(c, j)
      PROVE  Typed' /\ Quiet /\ Honest
  <2>1. UNCHANGED <<job, late, revoked, op, agent, net, effects, crashes>>
    BY <1>2 DEF Ask, store
  <2> DEFINE r == [step |-> "check", job |-> j, seen |-> "none"]
  <2>2. r \in Call /\ r.job = j /\ r.seen = "none"
    BY DEF Call
  <2>3. call' \in [Client -> Call] /\ Calling' /\ Calls
    BY <1>2, <2>2, EntererIsHonest DEF Ask
  <2>4. Operations /\ op' \in [Job -> Operation]
    BY <2>1 DEF Operations, OpKeeps, Typed, TypeOK
  <2> QED
    BY <2>1, <2>3, <2>4, BystanderIsQuiet DEF Honest
<1>3. ASSUME NEW c \in Client, NEW j \in Job, Cancel(c, j)
      PROVE  Typed' /\ Quiet /\ Honest
  <2>1. UNCHANGED <<late, revoked, op, agent, net, effects, crashes>>
    BY <1>3 DEF Cancel
  <2> DEFINE end == IF job[j].started THEN "UNCERTAIN" ELSE "CANCELLED"
  <2>2. job[j] \in Row /\ job[j].state \in {"QUEUED", "LEASED"} /\ MaxRequeues \in Nat
    BY <1>3, RemoteAssumption DEF Cancel, Typed, TypeOK
  <2>3. job' = [job EXCEPT ![j] = [job[j] EXCEPT !.state = end]]
    BY <1>3 DEF Cancel, Typed, TypeOK
  <2>4. job' \in [Job -> Row]
    BY <2>2, <2>3 DEF Typed, TypeOK, Row, Terminal
  <2>5. Rows
    <3> SUFFICES ASSUME NEW i \in Job PROVE RowKeeps(i)
      BY DEF Rows
    <3>1. CASE i # j
      BY <2>3, <3>1, SameRowKeeps DEF Typed, TypeOK
    <3>2. CASE i = j
      <4>1. /\ job'[j].state = end /\ job'[j].started = job[j].started
            /\ job'[j].lease = job[j].lease /\ job'[j].requeues = job[j].requeues
        BY <2>2, <2>3 DEF Typed, TypeOK, Row
      <4>2. job[j].requeues \in Nat
        BY <2>2 DEF Row
      <4> QED
        BY <2>2, <3>2, <4>1, <4>2 DEF RowKeeps, Given, Terminal
    <3> QED
      BY <3>1, <3>2
  <2> DEFINE r == [step |-> "check", job |-> j, seen |-> "none"]
  <2>6. r \in Call /\ r.job = j /\ r.seen = "none"
    BY DEF Call
  <2>7. call' \in [Client -> Call] /\ Calling' /\ Calls
    BY <1>3, <2>6, EntererIsHonest DEF Cancel
  <2>8. Operations /\ late' \in [Job -> Limit]
    BY <2>1 DEF Operations, OpKeeps, Typed, TypeOK
  <2> QED
    BY <2>1, <2>4, <2>5, <2>7, <2>8, WriterIsQuiet DEF Honest
<1>4. ASSUME NEW c \in Client, Create(c)
      PROVE  Typed' /\ Quiet /\ Honest
  <2>1. UNCHANGED <<job, late, revoked, agent, net, effects, crashes>> /\ call[c].step # "idle"
    BY <1>4 DEF Create, store
  <2>2. op' \in [Job -> Operation] /\ Operations
    <3>1. call[c].job \in Job
      BY <2>1 DEF Typed, Calling
    <3> QED
      BY <1>4, <3>1 DEF Create, Typed, TypeOK, Operation, Operations, OpKeeps
  <2>3. call' \in [Client -> Call] /\ Calling' /\ Calls
    BY <1>4, <2>1, GoerIsHonest DEF Create, CallSteps
  <2> QED
    BY <2>1, <2>2, <2>3, BystanderIsQuiet DEF Honest
<1>5. ASSUME NEW c \in Client, SubmitJob(c)
      PROVE  Typed' /\ Quiet /\ Honest
  <2> DEFINE j == call[c].job
  <2>1. UNCHANGED <<revoked, op, agent, net, effects, crashes>> /\ call[c].step # "idle"
    BY <1>5 DEF SubmitJob
  <2>2. late' = SweptLate
    BY <1>5 DEF SubmitJob
  <2>3. job' \in [Job -> Row] /\ Rows
    <3>1. CASE job' = Swept
      BY <3>1, SweptTypes, SweepKeeps DEF Typed, Rows
    <3>2. CASE j \in Job /\ job[j].state = "none" /\ job' = [Swept EXCEPT ![j].state = "QUEUED"]
      <4>1. Swept \in [Job -> Row] /\ Swept[j] = job[j] /\ job[j] \in Row
        BY <3>2, SweptTypes, SweptRow DEF Typed, TypeOK
      <4>2. job' = [Swept EXCEPT ![j] = [job[j] EXCEPT !.state = "QUEUED"]]
        BY <3>2, <4>1
      <4>3. job' \in [Job -> Row]
        BY <4>1, <4>2 DEF Row
      <4>4. ASSUME NEW i \in Job \ {j} PROVE RowKeeps(i)
        <5>1. job'[i] = Swept[i]
          BY <4>1, <4>2
        <5> QED
          BY <5>1, SweepKeeps DEF Typed
      <4>5. ASSUME NEW i \in Job, i = j PROVE RowKeeps(i)
        <5>1. job'[i].state = "QUEUED" /\ job'[i].started = job[i].started
              /\ job'[i].requeues = job[i].requeues
          BY <3>2, <4>1, <4>2, <4>5 DEF Row
        <5>2. ~job[i].started /\ job[i].requeues \in Nat /\ job[i].state = "none"
          BY <3>2, <4>1, <4>5, RemoteAssumption DEF Marked, Row
        <5> QED
          BY <5>1, <5>2 DEF RowKeeps, Given, Terminal
      <4> QED
        BY <4>3, <4>4, <4>5 DEF Rows
    <3>3. j \in Job
      BY <2>1 DEF Typed, Calling
    <3> QED
      BY <1>5, <3>1, <3>2, <3>3 DEF SubmitJob
  <2>4. call' \in [Client -> Call] /\ Calling' /\ Calls
    BY <1>5, <2>1, GoerIsHonest DEF SubmitJob, CallSteps
  <2>5. Operations /\ late' \in [Job -> Limit]
    BY <2>1, <2>2, SweptTypes DEF Operations, OpKeeps, Typed
  <2> QED
    BY <2>1, <2>3, <2>4, <2>5, WriterIsQuiet DEF Honest
<1>6. ASSUME NEW c \in Client, Start(c) \/ Queue(c) \/ FailSubmission(c) \/ LoseCorrelation(c)
      PROVE  Typed' /\ Quiet /\ Honest
  <2>1. UNCHANGED <<job, late, revoked, agent, net, effects, crashes>> /\ call[c].step # "idle"
    BY <1>6 DEF Start, Queue, FailSubmission, LoseCorrelation, store
  <2>2. op' \in [Job -> Operation] /\ Operations
    <3>1. call[c].job \in Job
      BY <2>1 DEF Typed, Calling
    <3>2. PICK state \in {"STARTING", "WAITING_EXTERNAL", "FAILED", "UNCERTAIN"} :
            Updates(call[c].job, state)
      BY <1>6 DEF Start, Queue, FailSubmission, LoseCorrelation
    <3> QED
      BY <3>1, <3>2, UpdaterIsHonest DEF Operation
  <2>3. call' \in [Client -> Call] /\ Calling' /\ Calls
    BY <1>6, <2>1, GoerIsHonest DEF Start, Queue, FailSubmission, LoseCorrelation, CallSteps
  <2> QED
    BY <2>1, <2>2, <2>3, BystanderIsQuiet DEF Honest
<1>7. ASSUME NEW c \in Client, Correlate(c)
      PROVE  Typed' /\ Quiet /\ Honest
  <2>1. UNCHANGED <<job, late, revoked, op, agent, net, effects, crashes>> /\ call[c].step # "idle"
    BY <1>7 DEF Correlate, store
  <2>2. call' \in [Client -> Call] /\ Calling' /\ Calls
    BY <1>7, <2>1, GoerIsHonest DEF Correlate, CallSteps
  <2>3. Operations /\ op' \in [Job -> Operation]
    BY <2>1 DEF Operations, OpKeeps, Typed, TypeOK
  <2> QED
    BY <2>1, <2>2, <2>3, BystanderIsQuiet DEF Honest
<1>8. ASSUME NEW c \in Client, JobResult(c)
      PROVE  Typed' /\ Quiet /\ Honest
  <2> DEFINE j == call[c].job
  <2>1. UNCHANGED <<revoked, op, agent, net, effects, crashes>> /\ j \in Job
    BY <1>8 DEF JobResult, Typed, Calling
  <2>2. job' = Swept /\ late' = SweptLate
    BY <1>8 DEF JobResult, Sweep
  <2>3. job' \in [Job -> Row] /\ late' \in [Job -> Limit] /\ Rows
    BY <2>2, SweptTypes, SweepKeeps DEF Typed, Rows
  <2> DEFINE r == [step |-> "read", job |-> j, seen |-> job'[j].state]
  <2>4. r \in Call /\ r.job = j /\ r.seen = job'[j].state
    BY <2>1, <2>3 DEF Call, Row
  <2>5. call' = [call EXCEPT ![c] = r]
    <3>1. call \in [Client -> Call] /\ call[c] \in Call
      BY DEF Typed, TypeOK
    <3>2. call' = [call EXCEPT ![c] = [[call[c] EXCEPT !.step = "read"] EXCEPT !.seen = job'[j].state]]
      BY <1>8, <3>1 DEF JobResult
    <3>3. [[call[c] EXCEPT !.step = "read"] EXCEPT !.seen = job'[j].state] = r
      BY <3>1, ReadCall
    <3> QED
      BY <3>2, <3>3
  <2>6. call' \in [Client -> Call] /\ Calling' /\ Calls
    <3> HIDE DEF r
    <3> QED
      BY <2>1, <2>4, <2>5, EntererIsHonest
  <2>7. Operations
    BY <2>1 DEF Operations, OpKeeps
  <2> QED
    BY <2>1, <2>3, <2>6, <2>7, WriterIsQuiet DEF Honest
<1>9. ASSUME NEW c \in Client, Project(c)
      PROVE  Typed' /\ Quiet /\ Honest
  <2> DEFINE j == call[c].job
             state == Mapped(call[c].seen)
  <2>1. /\ UNCHANGED <<job, late, revoked, agent, net, effects, crashes>>
        /\ call[c].step # "idle" /\ j \in Job
    BY <1>9 DEF Project, store, Typed, Calling
  <2>2. op' \in [Job -> Operation] /\ Operations
    <3>1. CASE UNCHANGED op
      BY <3>1 DEF Operations, OpKeeps, Typed, TypeOK
    <3>2. CASE Updates(j, state)
      <4>1. call[c].seen \in {"none", "QUEUED", "LEASED"} \union Terminal
        BY DEF Typed, TypeOK, Call
      <4>2. state \in Operation
        BY <4>1 DEF Mapped, Operation, Terminal
      <4>3. /\ state = "SUCCEEDED" => call[c].seen = "COMPLETED"
            /\ state = "CANCELLED" => call[c].seen = "CANCELLED"
        BY <4>1 DEF Mapped, Terminal
      <4>4. /\ state = "SUCCEEDED" => job[j].state = "COMPLETED"
            /\ state = "CANCELLED" => job[j].state = "CANCELLED"
        BY <2>1, <4>3 DEF SeenIsFinal, Terminal
      <4> HIDE DEF state, j
      <4> QED
        BY <2>1, <3>2, <4>2, <4>4, UpdaterIsHonest
    <3> QED
      BY <1>9, <3>1, <3>2 DEF Project
  <2>3. call' \in [Client -> Call] /\ Calling' /\ Calls
    BY <1>9, <2>1, GoerIsHonest DEF Project
  <2> QED
    BY <2>1, <2>2, <2>3, BystanderIsQuiet DEF Honest
<1>10. CASE GatewayDies
  <2>1. UNCHANGED <<job, late, revoked, op, agent, net, effects>>
    BY <1>10 DEF GatewayDies, store
  <2>2. /\ crashes' \in 0 .. MaxCrashes
        /\ call' \in [Client -> Call] /\ \A c \in Client : call'[c] = NoCall
    BY <1>10, RemoteAssumption DEF GatewayDies, NoCall, Call, Typed, TypeOK
  <2>3. Rows /\ Agents
    BY <2>1, SameRowKeeps, SameAgentKeeps DEF Typed, Rows, Agents
  <2>4. Typed'
    BY <2>1, <2>2 DEF Typed, TypeOK, Busy, Idle, Calling, NoCall
  <2> QED
    BY <2>1, <2>2, <2>3, <2>4 DEF Quiet, Requests, NetKeeps, Honest, Calls, CallKeeps, NoCall,
       Operations, OpKeeps
<1> QED
  BY <1>1, <1>2, <1>3, <1>4, <1>5, <1>6, <1>7, <1>8, <1>9, <1>10 DEF Gateway

-----------------------------------------------------------------------------
(* The four steps that matter.                                             *)

\* poll_job gives a lease that nobody has had.
LEMMA PollKeeps ==
  ASSUME Typed, Leases, Started, NEW p \in Agent, Poll(p)
  PROVE  Typed' /\ Leases' /\ Started' /\ Ends
<1> USE DEF Typed
<1>1. PICK j \in Job :
        LET n == Swept[j].requeues + 1 IN
        /\ Swept[j].state = "QUEUED"
        /\ job' = [Swept EXCEPT ![j].state = "LEASED", ![j].lease = n]
        /\ late' = [SweptLate EXCEPT ![j] = "none"]
        /\ agent' \in {agent, [agent EXCEPT ![p] = [step |-> "leased", job |-> j, lease |-> n]]}
  BY DEF Poll
<1>2. agent[p] = Free /\ Idle(p) /\ UNCHANGED <<revoked, op, call, net, effects, crashes>>
  BY DEF Poll, Free, Idle
<1>3. Swept \in [Job -> Row] /\ SweptLate \in [Job -> Limit] /\ Swept[j] \in Row
  BY SweptTypes
<1> DEFINE r == [Swept[j] EXCEPT !.state = "LEASED", !.lease = Swept[j].requeues + 1]
<1>4. /\ job' = [Swept EXCEPT ![j] = r]
      /\ r \in Row /\ r.state = "LEASED" /\ r.lease = Swept[j].requeues + 1
      /\ r.started = Swept[j].started /\ r.requeues = Swept[j].requeues
      /\ r.requeues \in Nat
  <2> DEFINE s == [Swept[j] EXCEPT !.state = "LEASED"]
             k == Swept[j].requeues + 1
  <2>1. k \in Lease /\ Swept[j].requeues \in Nat
    BY <1>3, RemoteAssumption DEF Row, Lease
  <2>2. s \in Row /\ s.state = "LEASED" /\ s.started = Swept[j].started
        /\ s.requeues = Swept[j].requeues
    BY <1>3 DEF Row
  <2>3. r = [s EXCEPT !.lease = k]
    BY <1>3 DEF Row
  <2>4. [s EXCEPT !.lease = k] \in Row
    <3> HIDE DEF s, k
    <3> QED
      BY <2>1, <2>2 DEF Row
  <2>5. r.state = "LEASED" /\ r.lease = k /\ r.started = Swept[j].started
        /\ r.requeues = Swept[j].requeues
    BY <1>3 DEF Row
  <2>6. job' = [Swept EXCEPT ![j] = r]
    BY <1>1, <1>3
  <2> HIDE DEF r, s
  <2> QED
    BY <2>1, <2>3, <2>4, <2>5, <2>6
<1> HIDE DEF r
<1> DEFINE n == r.lease
<1>5. ~job[j].started /\ job[j].state \notin Terminal /\ Swept[j].requeues >= Given(j)
  <2>1. job[j].started => job[j].state \notin {"none", "QUEUED", "CANCELLED"}
    BY DEF Started, Marked
  <2> QED
    BY <1>1, <2>1, SweptRow DEF Terminal
<1>6. /\ job'[j].state = "LEASED" /\ job'[j].lease = n /\ ~job'[j].started
      /\ job'[j].requeues + 1 = n /\ Given(j)' = n
  BY <1>3, <1>4, <1>5, SweptRow DEF Given
<1>7. ASSUME NEW i \in Job \ {j} PROVE RowKeeps(i)
  <2>1. job'[i] = Swept[i]
    BY <1>3, <1>4
  <2> QED
    BY <2>1, SweepKeeps DEF Started
<1>8. \A i \in Job : Given(i) \in Nat
  <2> SUFFICES ASSUME NEW i \in Job PROVE Given(i) \in Nat
    OBVIOUS
  <2>1. job[i] \in Row /\ MaxRequeues \in Nat
    BY RemoteAssumption DEF TypeOK
  <2> QED
    BY <2>1 DEF Given, Row
<1>9. /\ \A i \in Job : Given(i)' \in Nat /\ Given(i)' >= Given(i)
      /\ n \in Nat /\ n > Given(j)
  <2>1. n \in Nat /\ n > Given(j)
    BY <1>4, <1>5, <1>8
  <2>2. job' \in [Job -> Row]
    BY <1>3, <1>4
  <2>3. ASSUME NEW i \in Job PROVE Given(i)' \in Nat /\ Given(i)' >= Given(i)
    <3>1. job'[i] \in Row /\ MaxRequeues \in Nat
      BY <2>2, RemoteAssumption
    <3>2. Given(i)' \in Nat
      BY <3>1 DEF Given, Row
    <3>3. CASE i = j
      BY <1>6, <1>8, <2>1, <3>2, <3>3
    <3>4. CASE i # j
      BY <1>7, <3>2, <3>4 DEF RowKeeps
    <3> QED
      BY <3>2, <3>3, <3>4
  <2> QED
    BY <2>1, <2>3
<1> DEFINE held == [step |-> "leased", job |-> j, lease |-> n]
<1>10. /\ \A q \in Agent \ {p} : agent'[q] = agent[q]
       /\ agent'[p] \in {Free, held}
       /\ agent' \in [Agent -> Process]
  <2>1. held \in Process /\ agent \in [Agent -> Process]
    BY <1>4 DEF Process, Row, TypeOK
  <2>2. agent' \in {agent, [agent EXCEPT ![p] = held]}
    BY <1>1, <1>4
  <2> HIDE DEF held
  <2> QED
    BY <1>2, <2>1, <2>2
<1>11. Typed'
  <2>1. job' \in [Job -> Row] /\ late' \in [Job -> Limit]
    BY <1>1, <1>3, <1>4 DEF Limit
  <2>2. Busy'
    BY <1>10 DEF Busy, Idle, Free
  <2> QED
    BY <1>2, <1>10, <2>1, <2>2 DEF TypeOK, Calling
<1>12. \A m \in net : m.lease \in Nat /\ m.job \in Job /\ m.lease <= Given(m.job)
  BY RemoteAssumption DEF TypeOK, Request, Lease, Leases, LeasesGiven
<1>13. \A q \in Agent : ~Idle(q) =>
         agent[q].lease \in Nat /\ agent[q].job \in Job /\ agent[q].lease <= Given(agent[q].job)
  BY RemoteAssumption DEF TypeOK, Process, Lease, Leases, LeasesGiven, Busy
<1>14. /\ \A m \in net : ~(m.job = j /\ m.lease = n)
       /\ \A q \in Agent : ~Idle(q) => ~(agent[q].job = j /\ agent[q].lease = n)
  BY <1>8, <1>9, <1>12, <1>13
<1>15. LeasesGiven'
  <2>1. ASSUME NEW i \in Job, job'[i].state = "LEASED"
        PROVE  job'[i].lease = job'[i].requeues + 1
    BY <1>6, <1>7, <2>1 DEF RowKeeps, Leases, LeasesGiven
  <2>2. ASSUME NEW q \in Agent, ~Idle(q)'
        PROVE  (agent[q].lease <= Given(agent[q].job))'
    <3>1. CASE q = p
      <4>1. agent'[q].job = j /\ agent'[q].lease = n
        BY <1>10, <2>2, <3>1 DEF Idle, Free
      <4> QED
        BY <1>6, <1>9, <4>1 DEF Given
    <3>2. CASE q # p
      <4>1. agent'[q] = agent[q] /\ ~Idle(q)
        BY <1>10, <2>2, <3>2 DEF Idle
      <4>2. ASSUME NEW i \in Job, i = agent[q].job
            PROVE  agent[q].lease <= Given(i)'
        BY <1>8, <1>9, <1>13, <4>1, <4>2
      <4> QED
        BY <1>13, <4>1, <4>2 DEF Given
    <3> QED
      BY <3>1, <3>2
  <2>3. ASSUME NEW m \in net PROVE m.lease <= Given(m.job)'
    BY <1>8, <1>9, <1>12
  <2> QED
    BY <1>2, <2>1, <2>2, <2>3 DEF LeasesGiven
<1>16. OneHolder'
  <2>1. ASSUME NEW q \in Agent, NEW s \in Agent, ~Idle(q)', ~Idle(s)',
               agent'[q].job = agent'[s].job, agent'[q].lease = agent'[s].lease
        PROVE  q = s
    <3>1. CASE q # p /\ s # p
      BY <1>10, <2>1, <3>1 DEF Idle, Leases, OneHolder
    <3>2. CASE q = p /\ s # p
      BY <1>10, <1>14, <2>1, <3>2 DEF Idle, Free
    <3>3. CASE q # p /\ s = p
      BY <1>10, <1>14, <2>1, <3>3 DEF Idle, Free
    <3> QED
      BY <3>1, <3>2, <3>3
  <2>2. ASSUME NEW q \in Agent, NEW m \in net, Serves(q, m)' PROVE m.agent = q
    <3>1. q # p
      BY <1>10, <1>14, <2>2 DEF Serves, Idle, Free
    <3> QED
      BY <1>10, <2>2, <3>1 DEF Serves, Idle, Leases, OneHolder
  <2> QED
    BY <1>2, <2>1, <2>2 DEF Leases, OneHolder
<1>17. AskedOnce'
  <2> SUFFICES ASSUME NEW m \in net, m.kind = "executing"
               PROVE  /\ \A q \in Agent : Serves(q, m)' => agent'[q].step = "asking"
                      /\ m.lease = job'[m.job].lease => ~job'[m.job].started
    BY <1>2 DEF AskedOnce
  <2>1. ASSUME NEW q \in Agent, Serves(q, m)' PROVE agent'[q].step = "asking"
    <3>1. q # p
      BY <1>10, <1>14, <2>1 DEF Serves, Idle, Free
    <3> QED
      BY <1>10, <2>1, <3>1 DEF Serves, Idle, Leases, AskedOnce
  <2>2. m.lease = job'[m.job].lease => ~job'[m.job].started
    BY <1>6, <1>7, <1>12 DEF RowKeeps, Leases, AskedOnce
  <2> QED
    BY <2>1, <2>2
<1>18. NotYetAsked'
  <2> SUFFICES ASSUME NEW q \in Agent, agent'[q].step \in {"leased", "prepared"},
                      agent'[q].lease = job'[agent'[q].job].lease
               PROVE  ~job'[agent'[q].job].started
    BY DEF NotYetAsked
  <2>1. CASE q = p
    BY <1>6, <1>10, <2>1 DEF Free
  <2>2. CASE q # p
    <3>1. agent'[q] = agent[q] /\ agent[q].job \in Job
      BY <1>10, <1>13, <2>2 DEF Idle
    <3> QED
      BY <1>6, <1>7, <3>1 DEF RowKeeps, Leases, NotYetAsked
  <2> QED
    BY <2>1, <2>2
<1>19. Started'
  <2>1. Marked'
    <3> SUFFICES ASSUME NEW i \in Job
                 PROVE  /\ job'[i].started => job'[i].state \notin {"none", "QUEUED", "CANCELLED"}
                        /\ ~job'[i].started => effects[i] = 0
      BY <1>2 DEF Marked
    <3> QED
      BY <1>5, <1>6, <1>7 DEF RowKeeps, Started, Marked
  <2>2. Running'
    <3> SUFFICES ASSUME NEW q \in Agent, agent'[q].step = "running"
                 PROVE  /\ job'[agent'[q].job].started
                        /\ agent'[q].lease = job'[agent'[q].job].lease
                        /\ effects[agent'[q].job] = 0
      BY <1>2 DEF Running
    <3>1. agent'[q] = agent[q] /\ agent[q].job \in Job
      BY <1>10, <1>13 DEF Idle, Free
    <3> QED
      BY <1>5, <1>7, <3>1 DEF RowKeeps, Started, Running
  <2> QED
    BY <1>2, <2>1, <2>2 DEF Started, RunsOnce
<1>20. Ends
  BY <1>5, <1>7 DEF RowKeeps, Ends
<1> QED
  BY <1>11, <1>15, <1>16, <1>17, <1>18, <1>19, <1>20 DEF Leases

\* An agent asks for leave once, before the row is marked under its lease.
LEMMA AskKeeps ==
  ASSUME Typed, Leases, Started, NEW p \in Agent, AskToRun(p)
  PROVE  Typed' /\ Leases' /\ Started' /\ Ends
<1> USE DEF Typed
<1>1. agent[p].step = "prepared" /\ ~Idle(p) /\ agent[p].job \in Job
  BY DEF AskToRun, Idle, Busy
<1>2. UNCHANGED <<job, late, revoked, op, call, effects, crashes>>
  BY DEF AskToRun, store
<1>3. /\ agent' \in [Agent -> Process] /\ Busy'
      /\ \A q \in Agent \ {p} : agent'[q] = agent[q]
      /\ agent'[p].step = "asking" /\ agent'[p].job = agent[p].job /\ agent'[p].lease = agent[p].lease
  <2>1. "asking" \in Steps
    BY DEF Steps
  <2> QED
    BY <1>1, <2>1, MovesTypes DEF AskToRun
<1>4. /\ net' \subseteq Request
      /\ \A m \in net' : m \in net \/ (m.kind = "executing" /\ m.agent = p /\ Serves(p, m))
  BY <1>1, PostTypes DEF AskToRun
<1>5. Typed'
  BY <1>2, <1>3, <1>4 DEF TypeOK, Calling
<1>6. Rows
  BY <1>2, SameRowKeeps DEF Rows, Started
<1>7. LeasesGiven' /\ OneHolder'
  <2>1. \A j \in Job : RowGives(j)
    BY <1>6 DEF Rows, RowKeeps, RowGives, Leases, LeasesGiven
  <2>2. \A q \in Agent : AgentStays(q)
    BY <1>1, <1>3 DEF AgentStays, Busy, Idle
  <2>3. \A m \in net' : NetStays(m)
    BY <1>4 DEF NetStays
  <2> QED
    BY <1>5, <2>1, <2>2, <2>3, HoldersStay DEF Leases
<1>8. AskedOnce'
  <2> SUFFICES ASSUME NEW m \in net', m.kind = "executing"
               PROVE  /\ \A q \in Agent : Serves(q, m)' => agent'[q].step = "asking"
                      /\ m.lease = job[m.job].lease => ~job[m.job].started
    BY <1>2 DEF AskedOnce
  <2>1. \A q \in Agent : Serves(q, m)' => Serves(q, m)
    BY <1>1, <1>3 DEF Serves, Idle
  <2>2. CASE m \in net
    BY <1>1, <1>3, <2>1, <2>2 DEF Leases, AskedOnce
  <2>3. CASE m.agent = p /\ Serves(p, m)
    <3>1. m.lease = job[m.job].lease => ~job[m.job].started
      BY <1>1, <2>3 DEF Serves, Leases, NotYetAsked
    <3>2. ASSUME NEW q \in Agent, Serves(q, m) PROVE q = p
      BY <2>3, <3>2 DEF Serves, Leases, OneHolder
    <3> QED
      BY <1>3, <2>1, <3>1, <3>2
  <2> QED
    BY <1>4, <2>2, <2>3
<1>9. NotYetAsked'
  BY <1>2, <1>3 DEF Leases, NotYetAsked
<1>10. Started'
  BY <1>2, <1>3 DEF Started, Marked, Running, RunsOnce
<1>11. Ends
  BY <1>2 DEF Ends
<1> QED
  BY <1>5, <1>7, <1>8, <1>9, <1>10, <1>11 DEF Leases

\* The relay marks the row as it gives leave; a refusal gives none.
LEMMA DeliverKeeps ==
  ASSUME Typed, Leases, Started, NEW m \in net, DeliverExecuting(m)
  PROVE  Typed' /\ Leases' /\ Started' /\ Ends
<1> USE DEF Typed
<1> DEFINE j == m.job
<1>1. /\ m \in Request /\ m.kind = "executing"
      /\ j \in Job /\ m.agent \in Agent /\ job[j] \in Row
  BY DEF DeliverExecuting, TypeOK, Request
<1>2. UNCHANGED <<revoked, op, call, effects, crashes>> /\ net' = net \ {m}
  BY DEF DeliverExecuting
<1>3. CASE ~Holds(j, m.lease)
  <2>1. UNCHANGED <<job, late>> /\ (UNCHANGED agent \/ Leaves(m.agent))
    BY <1>3 DEF DeliverExecuting, store
  <2>2. Rows
    BY <2>1, SameRowKeeps DEF Rows, Started
  <2>3. agent' \in [Agent -> Process] /\ Busy' /\ Agents
    <3>1. CASE UNCHANGED agent
      BY <3>1, SameAgentKeeps DEF TypeOK, Busy, Idle, Agents
    <3>2. CASE Leaves(m.agent)
      BY <1>1, <3>2, LeavesTypes, LeaverKeeps
    <3> QED
      BY <2>1, <3>1, <3>2
  <2>4. Typed'
    BY <1>2, <2>1, <2>3 DEF TypeOK, Calling
  <2>5. Requests
    BY <1>2 DEF Requests, NetKeeps
  <2> QED
    BY <1>2, <2>1, <2>2, <2>3, <2>4, <2>5, LeasesStay, StartedStays DEF Rows, Agents, Requests, Ends
<1>4. CASE Holds(j, m.lease)
  <2>1. job[j].state = "LEASED" /\ job[j].lease = m.lease
    BY <1>4 DEF Holds
  <2>2. ~job[j].started /\ effects[j] = 0
    BY <1>1, <2>1 DEF Leases, AskedOnce, Started, Marked
  <2>3. job' = [job EXCEPT ![j] = [job[j] EXCEPT !.started = TRUE]]
    BY <1>1, <1>4 DEF DeliverExecuting, TypeOK
  <2>4. /\ \A i \in Job \ {j} : job'[i] = job[i]
        /\ job'[j].started /\ job'[j].state = "LEASED" /\ job'[j].lease = job[j].lease
        /\ job'[j].requeues = job[j].requeues
        /\ job' \in [Job -> Row]
    BY <1>1, <2>1, <2>3 DEF TypeOK, Row
  <2>5. late' \in [Job -> Limit]
    BY <1>1, <1>4, RenewsTypes DEF DeliverExecuting
  <2>6. \/ UNCHANGED agent
        \/ Waits(m, {"asking"}) /\ Moves(m.agent, "running")
    BY <1>4 DEF DeliverExecuting
  <2>7. Waits(m, {"asking"}) => Serves(m.agent, m)
    BY DEF Waits, Serves, Idle
  <2>8. /\ agent' \in [Agent -> Process] /\ Busy'
        /\ \A q \in Agent : \/ agent'[q] = agent[q]
                            \/ /\ q = m.agent /\ Serves(q, m) /\ agent[q].step = "asking"
                               /\ agent'[q].step = "running" /\ agent'[q].job = agent[q].job
                               /\ agent'[q].lease = agent[q].lease
    <3>1. CASE UNCHANGED agent
      BY <3>1 DEF TypeOK, Busy, Idle
    <3>2. CASE Waits(m, {"asking"}) /\ Moves(m.agent, "running")
      <4>1. "running" \in Steps /\ ~Idle(m.agent) /\ agent[m.agent].step = "asking"
        BY <3>2 DEF Steps, Waits, Idle
      <4>2. /\ agent' \in [Agent -> Process] /\ Busy'
            /\ \A q \in Agent \ {m.agent} : agent'[q] = agent[q]
            /\ agent'[m.agent].step = "running" /\ agent'[m.agent].job = agent[m.agent].job
            /\ agent'[m.agent].lease = agent[m.agent].lease
        BY <1>1, <3>2, <4>1, MovesTypes
      <4> QED
        BY <2>7, <3>2, <4>1, <4>2
    <3> QED
      BY <2>6, <3>1, <3>2
  <2>9. Typed'
    BY <1>2, <2>4, <2>5, <2>8 DEF TypeOK, Calling
  <2>10. LeasesGiven' /\ OneHolder'
    <3>1. ASSUME NEW i \in Job PROVE RowGives(i)
      <4>1. job[i] \in Row /\ MaxRequeues \in Nat
        BY RemoteAssumption DEF TypeOK
      <4>2. CASE i # j
        BY <2>4, <4>1, <4>2 DEF RowGives, Given, Row, Leases, LeasesGiven
      <4>3. ASSUME i = j PROVE RowGives(i)
        <5>1. job'[i].state = "LEASED" /\ job'[i].lease = job[i].lease
              /\ job'[i].requeues = job[i].requeues /\ job[i].state = "LEASED"
          BY <2>1, <2>4, <4>3
        <5> QED
          BY <4>1, <5>1 DEF RowGives, Given, Row, Leases, LeasesGiven
      <4> QED
        BY <4>2, <4>3
    <3>2. \A q \in Agent : AgentStays(q)
      BY <2>8 DEF AgentStays, Busy, Idle
    <3>3. \A k \in net' : NetStays(k)
      BY <1>2 DEF NetStays
    <3> QED
      BY <2>9, <3>1, <3>2, <3>3, HoldersStay DEF Leases
  <2>11. ASSUME NEW k \in net', k.kind = "executing", k.job = j, k.lease = m.lease
         PROVE  FALSE
    <3>1. k \in net /\ k # m
      BY <1>2
    <3>2. k.agent = m.agent /\ k \in Request
      BY <2>11, <3>1 DEF Leases, OneHolder, TypeOK
    <3> QED
      BY <1>1, <2>11, <3>1, <3>2 DEF Request
  <2>12. AskedOnce'
    <3> SUFFICES ASSUME NEW k \in net', k.kind = "executing"
                 PROVE  /\ \A q \in Agent : Serves(q, k)' => agent'[q].step = "asking"
                        /\ k.lease = job'[k.job].lease => ~job'[k.job].started
      BY DEF AskedOnce
    <3>1. k \in net /\ k.job \in Job
      BY <1>2 DEF TypeOK, Request
    <3>2. ASSUME NEW q \in Agent, Serves(q, k)' PROVE agent'[q].step = "asking"
      <4>1. CASE agent'[q] = agent[q]
        BY <3>1, <3>2, <4>1 DEF Serves, Idle, Leases, AskedOnce
      <4>2. CASE Serves(q, m) /\ agent'[q].job = agent[q].job /\ agent'[q].lease = agent[q].lease
        BY <2>11, <3>2, <4>2 DEF Serves
      <4> QED
        BY <2>8, <4>1, <4>2
    <3>3. k.lease = job'[k.job].lease => ~job'[k.job].started
      BY <2>1, <2>4, <2>11, <3>1 DEF Leases, AskedOnce
    <3> QED
      BY <3>2, <3>3
  <2>13. NotYetAsked'
    <3> SUFFICES ASSUME NEW q \in Agent, agent'[q].step \in {"leased", "prepared"},
                        agent'[q].lease = job'[agent'[q].job].lease
                 PROVE  ~job'[agent'[q].job].started
      BY DEF NotYetAsked
    <3>1. agent'[q] = agent[q] /\ ~Idle(q) /\ agent[q].job \in Job
      BY <2>8 DEF Busy, Idle
    <3>2. agent[q].job # j
      <4> SUFFICES ASSUME agent[q].job = j PROVE FALSE
        OBVIOUS
      <4>1. Serves(q, m)
        BY <2>1, <2>4, <3>1 DEF Serves
      <4> QED
        BY <1>1, <3>1, <4>1 DEF Leases, AskedOnce
    <3> QED
      BY <2>4, <3>1, <3>2 DEF Leases, NotYetAsked
  <2>14. Marked' /\ RunsOnce'
    BY <1>2, <2>4 DEF Started, Marked, RunsOnce
  <2>15. Running'
    <3> SUFFICES ASSUME NEW q \in Agent, agent'[q].step = "running"
                 PROVE  /\ job'[agent'[q].job].started
                        /\ agent'[q].lease = job'[agent'[q].job].lease
                        /\ effects[agent'[q].job] = 0
      BY <1>2 DEF Running
    <3>1. CASE agent'[q] = agent[q]
      <4>1. agent[q].job \in Job /\ agent[q].job # j
        BY <2>2, <3>1 DEF Busy, Idle, Started, Running
      <4> QED
        BY <2>4, <3>1, <4>1 DEF Started, Running
    <3>2. CASE Serves(q, m) /\ agent'[q].job = agent[q].job /\ agent'[q].lease = agent[q].lease
      BY <2>1, <2>2, <2>4, <3>2 DEF Serves
    <3> QED
      BY <2>8, <3>1, <3>2
  <2>16. Ends
    BY <2>1, <2>4 DEF Ends, Terminal
  <2> QED
    BY <2>9, <2>10, <2>12, <2>13, <2>14, <2>15, <2>16 DEF Leases, Started
<1> QED
  BY <1>3, <1>4

\* The tool is called by the one agent that has leave, for the first time.
LEMMA ToolKeeps ==
  ASSUME Typed, Leases, Started, NEW p \in Agent, CallTool(p)
  PROVE  /\ Typed' /\ Leases' /\ Started' /\ Ends
         /\ agent[p].job \in Job /\ job[agent[p].job].started /\ effects[agent[p].job] = 0
         /\ effects' \in {effects, [effects EXCEPT ![agent[p].job] = 1]}
<1> USE DEF Typed
<1> DEFINE j == agent[p].job
<1>1. agent[p].step = "running" /\ ~Idle(p) /\ j \in Job
  BY DEF CallTool, Idle, Busy
<1>2. UNCHANGED <<job, late, revoked, op, call, net, crashes>>
  BY DEF CallTool, store
<1>3. job[j].started /\ agent[p].lease = job[j].lease /\ effects[j] = 0
  BY <1>1 DEF Started, Running
<1>4. effects' \in {effects, [effects EXCEPT ![j] = 1]}
  BY <1>3 DEF CallTool
<1>5. /\ agent' \in [Agent -> Process] /\ Busy' /\ Agents
  <2>1. Moves(p, "ran") /\ agent[p].step # "asking"
    BY <1>1 DEF CallTool
  <2> QED
    BY <1>1, <2>1, MoverKeeps
<1>6. effects \in [Job -> 0 .. 2] /\ effects' \in [Job -> 0 .. 2]
  BY <1>4 DEF TypeOK, MaxEffects
<1>7. Typed'
  BY <1>2, <1>5, <1>6 DEF TypeOK, MaxEffects, Calling
<1>8. Rows /\ Requests
  BY <1>2, SameRowKeeps DEF Rows, Requests, NetKeeps, Started
<1>9. Leases'
  BY <1>5, <1>7, <1>8, LeasesStay DEF Rows, Agents, Requests
<1>10. \A i \in Job : effects'[i] = effects[i] \/ (i = j /\ effects'[i] = 1)
  BY <1>4, <1>6
<1>11. Marked' /\ RunsOnce'
  BY <1>2, <1>3, <1>10 DEF Started, Marked, RunsOnce
<1>12. Running'
  <2> SUFFICES ASSUME NEW q \in Agent, agent'[q].step = "running"
               PROVE  /\ job[agent'[q].job].started
                      /\ agent'[q].lease = job[agent'[q].job].lease
                      /\ effects'[agent'[q].job] = 0
    BY <1>2 DEF Running
  <2>1. /\ agent[q].step = "running" /\ ~Idle(q) /\ agent[q].job \in Job
        /\ agent'[q].job = agent[q].job /\ agent'[q].lease = agent[q].lease
    BY <1>5 DEF Agents, AgentKeeps, Free, Busy, Idle
  <2>2. q # p
    <3>1. agent'[p].step = "ran"
      BY <1>1, MovesTypes DEF CallTool, Steps
    <3> QED
      BY <3>1
  <2>3. agent[q].job # j
    BY <1>1, <1>3, <2>1, <2>2 DEF Started, Running, Leases, OneHolder
  <2> QED
    BY <1>10, <2>1, <2>3 DEF Started, Running
<1>13. Ends
  BY <1>2 DEF Ends
<1> QED
  BY <1>1, <1>3, <1>4, <1>7, <1>9, <1>11, <1>12, <1>13 DEF Started

-----------------------------------------------------------------------------
(* The theorems.                                                           *)

\* The invariant holds at the start.
LEMMA InitIInv == Init => IInv
<1> SUFFICES ASSUME Init PROVE IInv
  OBVIOUS
<1>1. NoRow \in Row /\ NoCall \in Call /\ Free \in Process /\ MaxCrashes \in Nat
  BY RemoteAssumption DEF NoRow, Row, Lease, NoCall, Call, Free, Process
<1>2. TypeOK
  <2>1. job \in [Job -> Row] /\ call \in [Client -> Call] /\ agent \in [Agent -> Process]
    BY <1>1 DEF Init
  <2>2. late \in [Job -> Limit] /\ op \in [Job -> Operation] /\ effects \in [Job -> 0 .. MaxEffects]
    BY DEF Init, Limit, Operation, MaxEffects
  <2>3. revoked \in BOOLEAN /\ net \subseteq Request /\ crashes \in 0 .. MaxCrashes
    <3>1. 0 \in 0 .. MaxCrashes
      BY <1>1
    <3> QED
      BY <3>1 DEF Init
  <2> QED
    BY <2>1, <2>2, <2>3 DEF TypeOK
<1>3. /\ \A p \in Agent : agent[p] = Free
      /\ \A c \in Client : call[c] = NoCall
      /\ \A j \in Job : job[j] = NoRow /\ op[j] = "none" /\ effects[j] = 0
      /\ net = {}
  BY DEF Init
<1>4. Busy /\ Calling
  BY <1>3 DEF Busy, Idle, Free, Calling, NoCall
<1>5. Leases
  BY <1>3 DEF Leases, LeasesGiven, OneHolder, AskedOnce, NotYetAsked, Serves, Idle, Free, NoRow
<1>6. Started
  BY <1>3 DEF Started, Marked, Running, RunsOnce, NoRow, Free
<1>7. Answers
  BY <1>3 DEF Answers, SeenIsFinal, OperationsTellTheTruth, NoCall
<1> QED
  BY <1>2, <1>4, <1>5, <1>6, <1>7 DEF IInv, Typed

\* The effects of a step: none, or the tool of a marked job is called for the
\* first time.
Effect ==
  \/ effects' = effects
  \/ \E j \in Job :
       /\ job' = job /\ job[j].started /\ effects[j] = 0
       /\ effects' = [effects EXCEPT ![j] = 1]

\* A step does not start a job of a revoked device.
Revoking ==
  revoked => \A j \in Job :
    job'[j].started = job[j].started /\ (job'[j].state = "LEASED" => job[j].state = "LEASED")

\* A quiet step keeps the invariant.
LEMMA QuietStep ==
  ASSUME IInv, Typed', Quiet, Honest
  PROVE  IInv' /\ Ends /\ Effect /\ Revoking
<1>1. Leases' /\ Started'
  BY LeasesStay, StartedStays DEF IInv, Typed, Quiet, Rows, Agents, Requests
<1>2. Ends /\ Effect /\ Revoking
  BY DEF Quiet, Rows, RowKeeps, Ends, Effect, Revoking
<1>3. Answers'
  BY <1>1, <1>2, AnswersStay DEF IInv, Started
<1> QED
  BY <1>1, <1>2, <1>3 DEF IInv

\* A step of the relay or of an agent keeps the answers.
LEMMA LoudStep ==
  ASSUME IInv, Typed', Leases', Started', Ends, UNCHANGED <<op, call>>
  PROVE  IInv'
<1>1. Answers'
  BY AnswersStay, OthersAreHonest DEF IInv, Typed, Started
<1> QED
  BY <1>1 DEF IInv

\* Every step keeps the invariant, ends nothing twice and calls a tool at most once.
LEMMA Step ==
  ASSUME IInv, [Next]_vars
  PROVE  IInv' /\ Ends /\ Effect /\ Revoking
<1> USE DEF IInv
<1>1. Typed /\ Leases /\ Started /\ Marked /\ SeenIsFinal /\ Calling
  BY DEF Typed, Started, Answers
<1>2. ASSUME NEW p \in Agent, Poll(p)
      PROVE  IInv' /\ Ends /\ Effect /\ Revoking
  <2>1. ~revoked /\ UNCHANGED <<op, call, effects>>
    BY <1>2 DEF Poll
  <2>2. IInv' /\ Ends
    BY <1>1, <1>2, <2>1, PollKeeps, LoudStep
  <2> QED
    BY <2>1, <2>2 DEF Effect, Revoking
<1>3. ASSUME NEW m \in net, DeliverExecuting(m)
      PROVE  IInv' /\ Ends /\ Effect /\ Revoking
  <2>1. (revoked => UNCHANGED job) /\ UNCHANGED <<op, call, effects>>
    BY <1>3 DEF DeliverExecuting, Holds, store
  <2>2. IInv' /\ Ends
    BY <1>1, <1>3, <2>1, DeliverKeeps, LoudStep
  <2> QED
    BY <2>1, <2>2 DEF Effect, Revoking
<1>4. ASSUME NEW p \in Agent, AskToRun(p)
      PROVE  IInv' /\ Ends /\ Effect /\ Revoking
  <2>1. UNCHANGED <<job, op, call, effects>>
    BY <1>4 DEF AskToRun, store
  <2>2. IInv' /\ Ends
    BY <1>1, <1>4, <2>1, AskKeeps, LoudStep
  <2> QED
    BY <2>1, <2>2 DEF Effect, Revoking
<1>5. ASSUME NEW p \in Agent, CallTool(p)
      PROVE  IInv' /\ Ends /\ Effect /\ Revoking
  <2>1. UNCHANGED <<job, op, call>>
    BY <1>5 DEF CallTool, store
  <2>2. /\ Typed' /\ Leases' /\ Started' /\ Ends
        /\ agent[p].job \in Job /\ job[agent[p].job].started /\ effects[agent[p].job] = 0
        /\ effects' \in {effects, [effects EXCEPT ![agent[p].job] = 1]}
    BY <1>1, <1>5, ToolKeeps
  <2>3. IInv'
    BY <2>1, <2>2, LoudStep
  <2> QED
    BY <2>1, <2>2, <2>3 DEF Effect, Revoking
<1>6. CASE \/ \E p \in Agent : Prepare(p) \/ Beat(p)
           \/ \E m \in net : DeliverResult(m) \/ Lose(m)
           \/ Look \/ Revoke
           \/ \E j \in Job : Lapse(j, "lease") \/ Lapse(j, "deadline")
  <2>1. UNCHANGED <<op, call>>
    BY <1>6 DEF Prepare, Beat, DeliverResult, Lose, Look, Revoke, Lapse
  <2>2. Typed' /\ Quiet
    BY <1>1, <1>6, RelayIsQuiet
  <2> QED
    BY <1>1, <2>1, <2>2, OthersAreHonest, QuietStep
<1>7. ASSUME NEW p \in Agent,
             Decline(p) \/ Report(p) \/ ReportAgain(p) \/ GiveUp(p) \/ AgentDies(p)
      PROVE  IInv' /\ Ends /\ Effect /\ Revoking
  <2>1. UNCHANGED <<op, call>>
    BY <1>7 DEF Decline, Report, ReportAgain, GiveUp, AgentDies
  <2>2. Typed' /\ Quiet
    BY <1>1, <1>7, DeviceIsQuiet
  <2> QED
    BY <1>1, <2>1, <2>2, OthersAreHonest, QuietStep
<1>8. CASE Gateway
  BY <1>1, <1>8, GatewayIsQuiet, QuietStep
<1>9. CASE UNCHANGED vars
  <2>1. UNCHANGED <<job, late, revoked, op, call, agent, net, effects, crashes>>
    BY <1>9 DEF vars
  <2>2. op' \in [Job -> Operation] /\ call' \in [Client -> Call] /\ Calling'
    BY <1>1, <2>1 DEF Typed, TypeOK, Calling
  <2> QED
    BY <1>1, <2>1, <2>2, BystanderIsQuiet, OthersAreHonest, QuietStep
<1> QED
  BY <1>2, <1>3, <1>4, <1>5, <1>6, <1>7, <1>8, <1>9 DEF Next, Relay, Device

\* The inductive invariant holds in every reachable state.
THEOREM Inductive == Spec => []IInv
<1>1. IInv /\ [Next]_vars => IInv'
  BY Step
<1> QED
  BY InitIInv, <1>1, PTL DEF Spec

\* The tool of a job is called at most once and the operation tells the truth,
\* whatever is lost, late, repeated, revoked or restarted.
THEOREM RemoteCorrect == Spec => []RemoteInvariant
<1>1. IInv => RemoteInvariant
  BY DEF IInv, Typed, Started, Answers, RemoteInvariant
<1> QED
  BY Inductive, <1>1, PTL

\* A revoked device is given no job and no leave to start one.
THEOREM Revocation == Spec => RevokedStartsNothing
<1> DEFINE A == \A j \in Job : revoked =>
                 /\ job'[j].started = job[j].started
                 /\ job'[j].state = "LEASED" => job[j].state = "LEASED"
<1>1. IInv /\ [Next]_vars => [A]_vars
  BY Step DEF Revoking
<1>2. Spec => [][A]_vars
  BY Inductive, <1>1, PTL DEF Spec
<1> QED
  BY <1>2 DEF RevokedStartsNothing

\* What a caller is told of an ended job is final, and "not done" is true.
LEMMA StepImplements ==
  ASSUME IInv, IInv', Ends, Effect
  PROVE  [Promise!Next]_(Promise!vars)
<1> DEFINE v == [j \in Job |-> Verdict(j)]
           w == [j \in Job |-> Verdict(j)']
<1>1. \A j \in Job : Verdict(j) \in Promise!Verdict /\ Verdict(j)' \in Promise!Verdict
  BY DEF Verdict, Promise!Verdict
<1>2. CASE effects' = effects
  <2>1. ASSUME NEW j \in Job
        PROVE  \/ w[j] = v[j]
               \/ v[j] = "open" /\ (w[j] = "no" => effects[j] = 0)
    <3>1. CASE job[j].state \in Terminal
      BY <3>1 DEF Ends, Verdict
    <3>2. CASE job[j].state \notin Terminal
      <4>1. v[j] = "open"
        BY <3>2 DEF Verdict, Terminal
      <4>2. w[j] = "no" => ~job'[j].started
        BY DEF Verdict, IInv, Started, Marked
      <4>3. ~job'[j].started => effects'[j] = 0
        BY DEF IInv, Started, Marked
      <4> QED
        BY <1>2, <4>1, <4>2, <4>3
    <3> QED
      BY <3>1, <3>2
  <2>2. w \in [Job -> Promise!Verdict]
    BY <1>1
  <2>3. Promise!Close
    <3> HIDE DEF v, w
    <3>1. v = [j \in Job |-> Verdict(j)] /\ w = [j \in Job |-> Verdict(j)]'
      BY DEF v, w
    <3> QED
      BY <1>2, <2>1, <2>2, <3>1 DEF Promise!Close
  <2> QED
    BY <2>3 DEF Promise!Next
<1>3. ASSUME NEW j \in Job, job' = job, job[j].started, effects[j] = 0,
             effects' = [effects EXCEPT ![j] = 1]
      PROVE  Promise!Perform(j)
  <2>1. v[j] # "no"
    BY <1>3 DEF Verdict, IInv, Started, Marked
  <2>2. [i \in Job |-> Verdict(i)]' = v
    BY <1>3 DEF Verdict
  <2> QED
    BY <1>3, <2>1, <2>2 DEF Promise!Perform
<1> QED
  BY <1>2, <1>3 DEF Effect, Promise!Next

\* The store and the agents implement AtMostOnce.
THEOREM Implementation == Spec => ImplementsAtMostOnce
<1>1. Init => Promise!Init
  <2> SUFFICES ASSUME Init PROVE Promise!Init
    OBVIOUS
  <2>1. \A j \in Job : Verdict(j) = "open"
    BY DEF Init, Verdict, NoRow
  <2> QED
    BY <2>1 DEF Init, Promise!Init
<1>2. IInv /\ [Next]_vars => [Promise!Next]_(Promise!vars)
  BY Step, StepImplements
<1> QED
  BY Inductive, <1>1, <1>2, PTL DEF Spec, ImplementsAtMostOnce, Promise!Spec
=============================================================================
