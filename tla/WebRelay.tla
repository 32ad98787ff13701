------------------------------- MODULE WebRelay -------------------------------
(***************************************************************************)
(* One Web message from submission to answer:                              *)
(*   JobStore            (native_bridge/job_store.py), the leased jobs,    *)
(*   WebDeliveryJournal  (native_bridge/web_delivery.py), what is known of *)
(*                       the message in the conversation, and              *)
(*   the Edge extension  (edge_extension/service-worker.js and             *)
(*                       content-script.js), one worker per browser tab.   *)
(*                                                                         *)
(* A tab polls a job, reports phases, posts the phase "sending" and waits  *)
(* for the answer before it clicks, waits for the model and posts the      *)
(* result through an outbox.  Requests and replies are lost, the request   *)
(* "sending" may arrive after the tab gave up, the service worker of the   *)
(* extension dies at any step and keeps only what is in chrome.storage.    *)
(*                                                                         *)
(* One host process: its lock makes every call of the store one step.      *)
(* Every call but cancel and delivery_receipt first ends the jobs whose    *)
(* time is up (SweptJob, SweptDelivery); a refused call is rolled back.    *)
(*                                                                         *)
(* The clock is abstract: late[j] is the latest limit of j that has        *)
(* passed.  Both windows last 900 s, and a report of progress renews the   *)
(* lease, so the lease of a job never passes before its progress window:   *)
(* _expire's two conditions are one.  A lease never outlives the deadline, *)
(* and timeout_s is 900 at most: with these constants the deadline passes  *)
(* first and nothing is requeued.  A store with shorter windows requeues,  *)
(* as the tests have it; the model admits both.                            *)
(***************************************************************************)
EXTENDS Naturals, FiniteSets

CONSTANTS
  Job,          \* jobs, one message each
  Tab,          \* browser tabs, the workers
  Chat,         \* Chat[j]: the conversation of j
  MaxRequeues,  \* the store's max_requeues
  Unfenced,     \* jobs of the provider that sends without the 200 of "sending"
  Reload,       \* whether a page may be replaced under an unanswered click
  MaxRestarts,  \* bound on deaths of the service worker
  Nobody        \* no tab, no record

ASSUME RelayAssumption ==
  /\ MaxRequeues \in Nat
  /\ MaxRestarts \in Nat
  /\ Unfenced \subseteq Job
  /\ Reload \in BOOLEAN
  /\ Nobody \notin Tab
  /\ Job # {} /\ IsFiniteSet(Job)

VARIABLES
  job,          \* rows of the table jobs
  delivery,     \* states of the table web_deliveries
  late,         \* late[j]: "none", "lease" or "deadline"
  net,          \* requests "sending" and "receipt" on their way to the host
  sw,           \* sw[t]: what the service worker does with tab t
  active,       \* active[t]: the record oma_active of t in chrome.storage
  outbox,       \* outbox[j]: the record oma_result of j in chrome.storage
  tried,        \* tried[t]: deliveries the page of t has been asked for
  typing,       \* typing[t]: those it is still about to send
  messages,     \* messages[j]: user messages of j in its conversation
  restarts      \* deaths of the service worker so far

store == <<job, delivery, late>>
page == <<tried, typing>>
browser == <<sw, active, outbox, page>>
vars == <<job, delivery, late, net, sw, active, outbox, page, messages, restarts>>

Ended == {"COMPLETED", "FAILED"}

\* Bound: messages of one job.
MaxMessages == 2

\* A lease is named by its number: every lease but the first follows a requeue.
Lease == 0 .. MaxRequeues + 1

Row == [state : {"none", "QUEUED", "LEASED"} \union Ended,
        worker : Tab \union {Nobody},
        lease : Lease,
        phase : {"", "pre", "post"},     \* PRE_SEND_PHASES and the others
        may_have_sent : BOOLEAN,
        requeues : 0 .. MaxRequeues]

\* "sending" and "receipt": the request is posted and unanswered; "asked":
\* SEND_MESSAGE is unanswered.
Step == {"idle", "preparing", "sending", "acked", "unacked", "asked", "receipt",
         "confirmed", "waiting", "posted"}

Worker == [step : Step, job : Job \union {Nobody}, lease : Lease]
Idle == [step |-> "idle", job |-> Nobody, lease |-> 0]

Active == [job : Job, lease : Lease, send_reserved : BOOLEAN, sent : BOOLEAN]
Request == [kind : {"sending", "receipt"}, job : Job, worker : Tab, lease : Lease]
Result == [worker : Tab, lease : Lease, status : Ended]

\* Every variable has its type.
TypeOK ==
  /\ job \in [Job -> Row]
  /\ delivery \in [Job -> {"absent", "not_sent", "pending", "unconfirmed", "sent"}]
  /\ late \in [Job -> {"none", "lease", "deadline"}]
  /\ net \subseteq Request
  /\ sw \in [Tab -> Worker]
  /\ active \in [Tab -> Active \union {Nobody}]
  /\ outbox \in [Job -> Result \union {Nobody}]
  /\ tried \in [Tab -> SUBSET Job]
  /\ typing \in [Tab -> SUBSET Job]
  /\ messages \in [Job -> Nat]
  /\ restarts \in 0 .. MaxRestarts

Init ==
  /\ job = [j \in Job |-> [state |-> "none", worker |-> Nobody, lease |-> 0, phase |-> "",
                           may_have_sent |-> FALSE, requeues |-> 0]]
  /\ delivery = [j \in Job |-> "absent"]
  /\ late = [j \in Job |-> "none"]
  /\ net = {}
  /\ sw = [t \in Tab |-> Idle]
  /\ active = [t \in Tab |-> Nobody]
  /\ outbox = [j \in Job |-> Nobody]
  /\ tried = [t \in Tab |-> {}]
  /\ typing = [t \in Tab |-> {}]
  /\ messages = [j \in Job |-> 0]
  /\ restarts = 0

-----------------------------------------------------------------------------
(* The host: JobStore and WebDeliveryJournal.                              *)

\* (Mutant: a job that was never polled has no deadline.)
ExpiredLeased(j) == job[j].state = "LEASED" /\ late[j] # "none"

Expired(j) ==
  \/ job[j].state = "QUEUED" /\ late[j] = "deadline"
  \/ job[j].state = "LEASED" /\ late[j] # "none"

\* The last worker provably sent nothing.
Requeued(j) ==
  /\ job[j].state = "LEASED" /\ late[j] = "lease"
  /\ ~job[j].may_have_sent /\ job[j].phase = "pre"
  /\ job[j].requeues < MaxRequeues

\* (Mutant: the end of the job takes back the receipt, too.)
UncertainSent(d) == IF d \in {"pending", "sent"} THEN "unconfirmed" ELSE d

Uncertain(d) == IF d = "pending" THEN "unconfirmed" ELSE d

SweptJob ==
  [j \in Job |->
     IF ~Expired(j) THEN job[j]
     ELSE IF Requeued(j)
       THEN [job[j] EXCEPT !.state = "QUEUED", !.worker = Nobody, !.lease = 0, !.requeues = @ + 1]
       ELSE [job[j] EXCEPT !.state = "FAILED"]]

SweptDelivery ==
  [j \in Job |-> IF Expired(j) /\ ~Requeued(j) THEN Uncertain(delivery[j]) ELSE delivery[j]]

SweptLate == [j \in Job |-> IF Requeued(j) THEN "none" ELSE late[j]]

Sweep == job' = SweptJob /\ delivery' = SweptDelivery /\ late' = SweptLate

Submit(j) ==
  /\ job[j].state = "none"
  /\ job' = [SweptJob EXCEPT ![j].state = "QUEUED"]
  /\ delivery' = [SweptDelivery EXCEPT ![j] = "not_sent"]
  /\ late' = SweptLate
  /\ UNCHANGED <<net, browser, messages, restarts>>

\* poll leases any queued job to a tab that holds none; the reply may be lost.
Poll(t) ==
  /\ sw[t].step = "idle" /\ active[t] = Nobody
  /\ \A j \in Job : ~(SweptJob[j].state = "LEASED" /\ SweptJob[j].worker = t)
  /\ \E j \in Job :
       LET n == SweptJob[j].requeues + 1 IN
       /\ SweptJob[j].state = "QUEUED"
       /\ job' = [SweptJob EXCEPT ![j].state = "LEASED", ![j].worker = t, ![j].lease = n]
       /\ delivery' = SweptDelivery
       /\ late' = [SweptLate EXCEPT ![j] = "none"]
       /\ \/ UNCHANGED <<sw, active>>
          \/ /\ sw' = [sw EXCEPT ![t] = [step |-> "preparing", job |-> j, lease |-> n]]
             /\ active' = [active EXCEPT ![t] = [job |-> j, lease |-> n,
                                                 send_reserved |-> FALSE, sent |-> FALSE]]
  /\ UNCHANGED <<net, outbox, page, messages, restarts>>

\* The row after expiry is leased to t under this lease.
Holds(t, j, n) ==
  SweptJob[j].state = "LEASED" /\ SweptJob[j].worker = t /\ SweptJob[j].lease = n

\* lease: the heartbeat of the record in chrome.storage.
RenewOK(t) ==
  /\ active[t] # Nobody
  /\ Holds(t, active[t].job, active[t].lease)
  /\ job' = SweptJob /\ delivery' = SweptDelivery
  /\ late' = [SweptLate EXCEPT ![active[t].job] = "none"]

RenewRefused(t) ==
  /\ active[t] # Nobody
  /\ ~Holds(t, active[t].job, active[t].lease)
  /\ Sweep

\* progress with a phase before or after the send; a refusal changes nothing.
Progress(t, phase) ==
  LET j == sw[t].job IN
  /\ Holds(t, j, sw[t].lease)
  /\ job' = [SweptJob EXCEPT ![j].phase = phase,
                             ![j].may_have_sent = @ \/ phase = "post"]
  /\ delivery' = SweptDelivery
  /\ late' = [SweptLate EXCEPT ![j] = "none"]

\* (Mutant: an unconfirmed delivery does not hold the conversation.)
BusyPending(j) ==
  \E k \in Job \ {j} : Chat[k] = Chat[j] /\ SweptDelivery[k] = "pending"

\* Another delivery of the conversation is pending or unconfirmed.
Busy(j) ==
  \E k \in Job \ {j} : Chat[k] = Chat[j] /\ SweptDelivery[k] \in {"pending", "unconfirmed"}

\* (Mutant: the worker and the lease of the request are not compared.)
SendingAcceptedAnyLease(m) ==
  /\ SweptJob[m.job].state = "LEASED"
  /\ SweptDelivery[m.job] \in {"not_sent", "pending"}
  /\ ~Busy(m.job)

SendingAccepted(m) ==
  /\ Holds(m.worker, m.job, m.lease)
  /\ SweptDelivery[m.job] \in {"not_sent", "pending"}
  /\ ~Busy(m.job)

\* The reply reaches a tab that still waits for it, or nobody.
Reply(m, step) ==
  \/ UNCHANGED sw
  \/ /\ sw[m.worker] = [step |-> m.kind, job |-> m.job, lease |-> m.lease]
     /\ sw' = [sw EXCEPT ![m.worker].step = step]

\* progress("sending"): the intent is durable before the tab may click.
DeliverSending(m) ==
  /\ m \in net /\ m.kind = "sending"
  /\ net' = net \ {m}
  /\ IF SendingAccepted(m)
       THEN /\ job' = [SweptJob EXCEPT ![m.job].phase = "post", ![m.job].may_have_sent = TRUE]
            /\ delivery' = [SweptDelivery EXCEPT ![m.job] = "pending"]
            /\ late' = [SweptLate EXCEPT ![m.job] = "none"]
            /\ Reply(m, "acked")
       ELSE Reply(m, "unacked") /\ UNCHANGED store
  /\ UNCHANGED <<active, outbox, page, messages, restarts>>

\* delivery_receipt knows the lease of the row even after the job has ended.
DeliverReceipt(m) ==
  /\ m \in net /\ m.kind = "receipt"
  /\ net' = net \ {m}
  /\ job[m.job].worker = m.worker /\ job[m.job].lease = m.lease
  /\ delivery[m.job] \notin {"absent", "not_sent"}
  /\ delivery' = [delivery EXCEPT ![m.job] = "sent"]
  /\ Reply(m, "confirmed")
  /\ UNCHANGED <<job, late, active, outbox, page, messages, restarts>>

\* Lost, or refused as a receipt.
Lose(m) ==
  /\ m \in net
  /\ net' = net \ {m}
  /\ UNCHANGED <<store, browser, messages, restarts>>

\* store_result, when the reply arrives the record leaves the outbox.
StoreResult(j) ==
  LET r == outbox[j] IN
  /\ r # Nobody
  /\ IF Holds(r.worker, j, r.lease)
       THEN /\ job' = [SweptJob EXCEPT ![j].state = r.status]
            /\ delivery' = [SweptDelivery EXCEPT ![j] = Uncertain(@)]
            /\ late' = SweptLate
       ELSE Sweep
  /\ outbox' \in {outbox, [outbox EXCEPT ![j] = Nobody]}
  /\ UNCHANGED <<net, sw, active, page, messages, restarts>>

Cancel(j) ==
  /\ job[j].state \in {"QUEUED", "LEASED"}
  /\ job' = [job EXCEPT ![j].state = "FAILED"]
  /\ delivery' = [delivery EXCEPT ![j] = Uncertain(@)]
  /\ UNCHANGED <<late, net, browser, messages, restarts>>

\* result, pending_status, counts: a caller looks and the store sweeps.
Look ==
  /\ \E j \in Job : Expired(j)
  /\ Sweep
  /\ UNCHANGED <<net, browser, messages, restarts>>

Lapse(j, limit) ==
  /\ \/ job[j].state = "LEASED" /\ limit = "lease" /\ late[j] = "none"
     \/ job[j].state \in {"QUEUED", "LEASED"} /\ limit = "deadline" /\ late[j] # "deadline"
  /\ late' = [late EXCEPT ![j] = limit]
  /\ UNCHANGED <<job, delivery, net, browser, messages, restarts>>

-----------------------------------------------------------------------------
(* The extension: omaProcessJob, omaResumeJob and their helpers.           *)

Moves(t, step) == sw' = [sw EXCEPT ![t].step = step]

\* omaProgressPhase never breaks the delivery: a lost report changes nothing.
Report(t) ==
  /\ \/ sw[t].step = "preparing" /\ Progress(t, "pre")
     \/ sw[t].step = "waiting" /\ Progress(t, "post")
  /\ UNCHANGED <<net, browser, messages, restarts>>

\* omaRenewActive: each slice, each ping of the tab and each alarm renews.
Renew(t) ==
  /\ RenewOK(t)
  /\ UNCHANGED <<net, browser, messages, restarts>>

\* (Mutant: the record stays.)
AlarmKeeps(t) ==
  /\ RenewRefused(t)
  /\ UNCHANGED <<net, browser, messages, restarts>>

\* omaRenewAllActive: a record whose lease the host refuses is dropped.
Alarm(t) ==
  /\ RenewRefused(t)
  /\ active' = [active EXCEPT ![t] = Nobody]
  /\ UNCHANGED <<net, sw, outbox, page, messages, restarts>>

\* omaSaveActive merges into the record; what it writes after the alarm dropped
\* the record has no job and is removed by the next omaRecoverActive.
Saved(t, field) ==
  IF active[t] = Nobody THEN active ELSE [active EXCEPT ![t] = [@ EXCEPT ![field] = TRUE]]

Post(t, kind) ==
  net' = net \union {[kind |-> kind, job |-> sw[t].job, worker |-> t, lease |-> sw[t].lease]}

\* send_reserved is stored before the request "sending" leaves.
Reserve(t) ==
  /\ sw[t].step = "preparing"
  /\ active' = Saved(t, "send_reserved")
  /\ Post(t, "sending")
  /\ Moves(t, "sending")
  /\ UNCHANGED <<store, outbox, page, messages, restarts>>

GiveUp(t) ==
  /\ sw[t].step = "sending"
  /\ Moves(t, "unacked")
  /\ UNCHANGED <<store, net, active, outbox, page, messages, restarts>>

\* SEND_MESSAGE.  A page attempts a delivery once, whoever asks again.
Ask(t) ==
  LET j == sw[t].job IN
  /\ \/ sw[t].step = "acked"
     \/ sw[t].step = "unacked" /\ j \in Unfenced
  /\ tried' = [tried EXCEPT ![t] = @ \union {j}]
  /\ typing' = [typing EXCEPT ![t] = @ \union ({j} \ tried[t])]
  /\ Moves(t, "asked")
  /\ UNCHANGED <<store, net, active, outbox, messages, restarts>>

\* The page sends, whatever has become of the service worker, or it fails.
Click(t, j) ==
  /\ j \in typing[t] /\ messages[j] < MaxMessages
  /\ typing' = [typing EXCEPT ![t] = @ \ {j}]
  /\ messages' \in {messages, [messages EXCEPT ![j] = @ + 1]}
  /\ UNCHANGED <<store, net, sw, active, outbox, tried, restarts>>

\* The page is replaced; the new one has no memory of what the old one tried.
Replace(t) ==
  /\ Reload /\ tried[t] # {}
  /\ tried' = [tried EXCEPT ![t] = {}]
  /\ typing' = [typing EXCEPT ![t] = {}]
  /\ UNCHANGED <<store, net, sw, active, outbox, messages, restarts>>

\* omaSendToTab injects the content script and repeats SEND_MESSAGE when no
\* reply came; only a new page takes it for a new delivery.
AskAgain(t) ==
  LET j == sw[t].job IN
  /\ sw[t].step = "asked" /\ j \notin tried[t]
  /\ tried' = [tried EXCEPT ![t] = @ \union {j}]
  /\ typing' = [typing EXCEPT ![t] = @ \union {j}]
  /\ UNCHANGED <<store, net, sw, active, outbox, messages, restarts>>

\* omaRecordDeliveryReceipt: the new user message was seen, its receipt is
\* posted once.  A page of the unfenced provider gives no receipt.
Record(t) ==
  LET j == sw[t].job IN
  /\ sw[t].step = "asked" /\ messages[j] > 0
  /\ IF j \in Unfenced
       THEN UNCHANGED net /\ Moves(t, "confirmed")
       ELSE Post(t, "receipt") /\ Moves(t, "receipt")
  /\ UNCHANGED <<store, active, outbox, page, messages, restarts>>

Sent(t) ==
  /\ sw[t].step = "confirmed"
  /\ active' = Saved(t, "sent")
  /\ Moves(t, "waiting")
  /\ UNCHANGED <<store, net, outbox, page, messages, restarts>>

Posts(t, status) ==
  /\ outbox' = [outbox EXCEPT ![sw[t].job] = [worker |-> t, lease |-> sw[t].lease,
                                              status |-> status]]
  /\ Moves(t, "posted")

\* Any error before or after the click ends the job as FAILED: a lost lease, a
\* request without answer, a send the page could not confirm, a time limit.
Abort(t) ==
  /\ \/ sw[t].step \in {"preparing", "acked", "asked", "receipt", "waiting"}
     \/ sw[t].step = "unacked" /\ sw[t].job \notin Unfenced
  /\ Posts(t, "FAILED")
  /\ UNCHANGED <<store, net, active, page, messages, restarts>>

Finish(t) ==
  /\ sw[t].step = "waiting"
  /\ Posts(t, "COMPLETED")
  /\ UNCHANGED <<store, net, active, page, messages, restarts>>

\* omaClearActive, in the finally clause after the result is in the outbox.
Release(t) ==
  /\ sw[t].step = "posted"
  /\ sw' = [sw EXCEPT ![t] = Idle]
  /\ active' = [active EXCEPT ![t] = Nobody]
  /\ UNCHANGED <<store, net, outbox, page, messages, restarts>>

\* The service worker dies: every tab forgets, chrome.storage stays.
Restart ==
  /\ restarts < MaxRestarts
  /\ restarts' = restarts + 1
  /\ sw' = [t \in Tab |-> Idle]
  /\ \E t \in Tab : sw[t] # Idle
  /\ UNCHANGED <<store, net, active, outbox, page, messages>>

\* omaRecoverActive resumes what may have been sent: it renews (or could not
\* ask) and waits, never sends.
Resume(t) ==
  /\ sw[t].step = "idle" /\ active[t] # Nobody
  /\ active[t].send_reserved \/ active[t].sent
  /\ RenewOK(t) \/ UNCHANGED store
  /\ sw' = [sw EXCEPT ![t] = [step |-> "waiting", job |-> active[t].job,
                              lease |-> active[t].lease]]
  /\ UNCHANGED <<net, active, outbox, page, messages, restarts>>

-----------------------------------------------------------------------------
Host ==
  \/ \E j \in Job : Submit(j) \/ StoreResult(j) \/ Cancel(j)
                    \/ Lapse(j, "lease") \/ Lapse(j, "deadline")
  \/ \E m \in net : DeliverSending(m) \/ DeliverReceipt(m) \/ Lose(m)
  \/ Look

Extension ==
  \/ \E t \in Tab :
       \/ Poll(t) \/ Report(t) \/ Renew(t) \/ Alarm(t) \/ Resume(t)
       \/ Reserve(t) \/ GiveUp(t) \/ Ask(t) \/ AskAgain(t) \/ Replace(t)
       \/ Record(t) \/ Sent(t) \/ Abort(t) \/ Finish(t) \/ Release(t)
       \/ \E j \in Job : Click(t, j)
  \/ Restart

Next == Host \/ Extension

Spec == Init /\ [][Next]_vars

\* Time passes and callers keep asking; every wait of the extension has a limit
\* (10 s for a request, the job's timeout for an answer), its alarm and its
\* recovery run on every tick and its outbox is posted until it is answered.
Settles(t) ==
  \/ GiveUp(t) \/ Abort(t) \/ Sent(t) \/ Release(t) \/ Resume(t) \/ Alarm(t)
  \/ sw[t].job \in Unfenced /\ Ask(t)

FairSpec ==
  /\ Spec
  /\ WF_vars(Look)
  /\ \A j \in Job : WF_vars(Lapse(j, "deadline"))
  /\ \A t \in Tab : WF_vars(Settles(t))

-----------------------------------------------------------------------------
(* What the relay promises.                                                *)

\* However leases, requests, replies and service workers are lost, the message
\* of a job is posted in its conversation at most once (job_store.py:1-11).
AtMostOneSend == \A j \in Job : messages[j] <= 1

\* A failed job whose evidence says it was not sent was not sent and never will
\* be: the caller may submit it again (job_store.py:512-516).
SafeToRetry ==
  \A j \in Job : (job[j].state = "FAILED" /\ ~job[j].may_have_sent) => messages[j] = 0

\* A conversation never holds two messages nobody has a receipt for: the second
\* one waits until the first is reconciled (web_delivery.py:27-28,76-80).
OneUnreconciled ==
  \A j, k \in Job :
    (j # k /\ Chat[j] = Chat[k] /\ messages[j] > 0 /\ messages[k] > 0)
      => (delivery[j] = "sent" \/ delivery[k] = "sent")

\* What every step maintains: types, and one unreconciled message.
RelayInvariant == TypeOK /\ OneUnreconciled

\* Only what is in the conversation has a receipt, and a receipt is never
\* taken back (web_delivery.py:86-88,90-137).
ReceiptsAreFinal ==
  [][\A j \in Job :
       /\ delivery'[j] = "sent" => (messages[j] > 0 /\ delivery[j] # "not_sent")
       /\ delivery[j] = "sent" => delivery'[j] = "sent"]_vars

\* Every submitted job ends, whatever its tab does with its lease.
EveryJobEnds ==
  \A j \in Job : (job[j].state \in {"QUEUED", "LEASED"}) ~> (job[j].state \in Ended)

\* No tab is kept forever by the record of a job it can no longer serve.
EveryTabIsFreed ==
  \A t \in Tab : (active[t] # Nobody) ~> (active[t] = Nobody)

\* The store and the extension implement AtMostOnce.
Verdict(j) ==
  CASE job[j].state = "COMPLETED" -> "yes"
    [] job[j].state = "FAILED" -> IF job[j].may_have_sent THEN "unknown" ELSE "no"
    [] OTHER -> "open"

Promise == INSTANCE AtMostOnce
             WITH effects <- messages, verdict <- [j \in Job |-> Verdict(j)]

ImplementsAtMostOnce == Promise!Spec
=============================================================================
