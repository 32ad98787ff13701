---------------------------- MODULE WebRelayProofs ----------------------------
(***************************************************************************)
(* Proofs about WebRelay, for every set of jobs, tabs and conversations    *)
(* and every number of requeues and restarts.  Fenced: no job is of the    *)
(* provider that sends without the 200 of "sending"; for that one the      *)
(* promise is broken, as the run of WebRelayGemini.cfg shows.              *)
(*                                                                         *)
(* The argument.  The 200 of "sending" marks the row and leaves a durable  *)
(* intent in the journal in one step, and only a tab that has it clicks    *)
(* (MayClick, Pages, Posted).  A marked row is never leased again, so its  *)
(* worker is the only tab that ever attempts the message (Cleared); while  *)
(* pages live, its page attempts it once (Once).  The journal lets one     *)
(* delivery of a conversation at a time have an open intent (OneIntent).   *)
(***************************************************************************)
EXTENDS WebRelay, TLAPS

Fenced == Unfenced = {}

\* A tab that works has a job.
Busied == \A t \in Tab : sw[t].step # "idle" => sw[t].job \in Job

Delivery == {"absent", "not_sent", "pending", "unconfirmed", "sent"}

\* A job that was not submitted has no delivery.
Fresh == \A j \in Job : job[j].state = "none" => delivery[j] = "absent"

\* The journal has an intent to send the message of j.
Intended(j) == delivery[j] \in {"pending", "unconfirmed", "sent"}

\* What a 200 of "sending" leaves behind: the intent, the mark, the worker.
Cleared(t, j) == Intended(j) /\ job[j].may_have_sent /\ job[j].worker = t

MayClick == \A t \in Tab : sw[t].step \in {"acked", "asked"} => Cleared(t, sw[t].job)

Pages ==
  \A t \in Tab : typing[t] \subseteq tried[t] /\ \A j \in tried[t] : Cleared(t, j)

Posted == \A j \in Job : messages[j] > 0 => (Intended(j) /\ job[j].may_have_sent)

\* A marked row is never queued again.
Marked == \A j \in Job : job[j].may_have_sent => job[j].state \notin {"none", "QUEUED"}

\* A receipt, on its way or recorded, is of a message in the conversation.
Receipts ==
  /\ \A m \in net : m.kind = "receipt" => messages[m.job] > 0
  /\ \A j \in Job : delivery[j] = "sent" => messages[j] > 0

\* A conversation has one open intent.
Open(j) == delivery[j] \in {"pending", "unconfirmed"}
OneIntent == \A j, k \in Job : (j # k /\ Chat[j] = Chat[k]) => ~(Open(j) /\ Open(k))

\* A page that lives as long as its click attempts a message once.
Once ==
  /\ \A t \in Tab : sw[t].step = "asked" => sw[t].job \in tried[t]
  /\ \A t \in Tab : \A j \in typing[t] : messages[j] = 0
  /\ \A j \in Job : messages[j] > 0 => (messages[j] = 1 /\ \E t \in Tab : j \in tried[t])

IInv ==
  /\ TypeOK /\ Busied /\ Fresh
  /\ MayClick /\ Pages /\ Posted /\ Marked /\ Receipts /\ OneIntent

\* What any step does to a row: the mark stays, with the worker it names, and
\* an ended row has ended.  A row that was not submitted has no delivery.
RowSteps(j) ==
  /\ job[j].may_have_sent => (job'[j].may_have_sent /\ job'[j].worker = job[j].worker)
  /\ job'[j].may_have_sent => job'[j].state \notin {"none", "QUEUED"}
  /\ job[j].state \in Ended => job'[j] = job[j]
  /\ job'[j].state = "none" => (job[j].state = "none" /\ delivery'[j] = delivery[j])

\* What most steps do to a delivery: at most its pending intent becomes uncertain.
Keeps(d, e) == e = d \/ (d = "pending" /\ e = "unconfirmed")
DeliveryKeeps(j) ==
  \/ Keeps(delivery[j], delivery'[j])
  \/ delivery[j] = "absent" /\ delivery'[j] = "not_sent"

\* What most steps do to a tab: it does not come nearer to a click.
TabKeeps(t) ==
  /\ sw'[t].step # "idle" => sw'[t].job \in Job
  /\ sw'[t].step \in {"acked", "asked"} => sw'[t] = sw[t]

Quiet ==
  /\ \A j \in Job : RowSteps(j) /\ DeliveryKeeps(j)
  /\ \A t \in Tab : TabKeeps(t)
  /\ \A m \in net' : m.kind = "receipt" => m \in net
  /\ UNCHANGED <<page, messages>>

-----------------------------------------------------------------------------
\* Quiet steps keep the invariant.
LEMMA QuietKeeps ==
  ASSUME IInv, TypeOK', Quiet
  PROVE  IInv' /\ (Once => Once')
  <1>1. Busied'
    BY DEF Busied, Quiet, TabKeeps
  <1>2. ASSUME NEW j \in Job, Intended(j)
        PROVE  Intended(j)'
    BY <1>2 DEF Intended, Quiet, DeliveryKeeps, Keeps
  <1>3. ASSUME NEW j \in Job, NEW t \in Tab, Cleared(t, j)
        PROVE  Cleared(t, j)'
    BY <1>2, <1>3 DEF Cleared, Quiet, RowSteps
  <1>4. MayClick'
    <2> SUFFICES ASSUME NEW t \in Tab, sw'[t].step \in {"acked", "asked"}
                 PROVE  Cleared(t, sw[t].job)' /\ sw'[t] = sw[t]
      BY DEF MayClick
    <2>1. sw'[t] = sw[t]
      BY DEF Quiet, TabKeeps
    <2>2. PICK j \in Job : j = sw[t].job
      BY <2>1 DEF IInv, Busied
    <2>3. Cleared(t, j)'
      BY <1>3, <2>1, <2>2 DEF IInv, MayClick
    <2> QED BY <2>1, <2>2, <2>3 DEF Cleared, Intended
  <1>5. Pages'
    BY <1>3 DEF IInv, Pages, Quiet, page, TypeOK
  <1>6. Posted'
    BY <1>2 DEF IInv, Posted, Quiet, RowSteps
  <1>7. Marked'
    BY DEF Marked, Quiet, RowSteps
  <1>8. Receipts'
    BY DEF IInv, Receipts, Quiet, DeliveryKeeps, Keeps
  <1>9. OneIntent'
    BY DEF IInv, OneIntent, Open, Quiet, DeliveryKeeps, Keeps
  <1>10. Once => Once'
    BY DEF Once, Quiet, TabKeeps, page
  <1>11. Fresh'
    BY DEF IInv, Fresh, Quiet, RowSteps
  <1> QED BY <1>11, <1>1, <1>4, <1>5, <1>6, <1>7, <1>8, <1>9, <1>10 DEF IInv

\* A row and a delivery after the sweep.
LEMMA SweptRow ==
  ASSUME TypeOK, Fresh, Marked, NEW j \in Job
  PROVE  /\ SweptJob[j] \in Row
         /\ SweptJob[j].may_have_sent = job[j].may_have_sent
         /\ job[j].may_have_sent =>
              /\ SweptJob[j].worker = job[j].worker
              /\ SweptJob[j].state \notin {"none", "QUEUED"}
         /\ job[j].state \in Ended => SweptJob[j] = job[j]
         /\ job[j].state = "none" => SweptDelivery[j] = "absent"
         /\ SweptJob[j].state = "none" =>
              (job[j].state = "none" /\ SweptDelivery[j] = delivery[j])
         /\ SweptJob[j].state = "LEASED" => SweptJob[j] = job[j]
         /\ Keeps(delivery[j], SweptDelivery[j])
  <1>1. job[j] \in Row
    BY DEF TypeOK
  <1>2. CASE ~Expired(j)
    <2>1. SweptJob[j] = job[j]
      BY <1>2 DEF SweptJob
    <2>2. SweptDelivery[j] = delivery[j]
      BY <1>2 DEF SweptDelivery
    <2> QED BY <1>1, <2>1, <2>2 DEF Fresh, Marked, Keeps
  <1>3. CASE Expired(j) /\ Requeued(j)
    <2>1. SweptJob[j] = [job[j] EXCEPT !.state = "QUEUED", !.worker = Nobody, !.lease = 0,
                                       !.requeues = @ + 1]
      BY <1>3 DEF SweptJob
    <2>2. SweptDelivery[j] = delivery[j]
      BY <1>3 DEF SweptDelivery
    <2>3. job[j].requeues + 1 \in 0 .. MaxRequeues
      <3>1. job[j].requeues \in 0 .. MaxRequeues /\ job[j].requeues < MaxRequeues
        BY <1>1, <1>3 DEF Requeued, Row
      <3> QED BY <3>1, RelayAssumption DEF RelayAssumption
    <2>4. 0 \in Lease
      BY RelayAssumption DEF RelayAssumption, Lease
    <2> QED BY <1>1, <1>3, <2>1, <2>2, <2>3, <2>4 DEF Requeued, Row, Ended, Keeps
  <1>4. CASE Expired(j) /\ ~Requeued(j)
    <2>1. SweptJob[j] = [job[j] EXCEPT !.state = "FAILED"]
      BY <1>4 DEF SweptJob
    <2>2. SweptDelivery[j] = Uncertain(delivery[j])
      BY <1>4 DEF SweptDelivery
    <2> QED BY <1>1, <1>4, <2>1, <2>2 DEF Expired, Row, Ended, Keeps, Uncertain
  <1> QED BY <1>2, <1>3, <1>4

\* The sweep of expired jobs yields rows, deliveries and limits.
LEMMA Swept ==
  ASSUME TypeOK, Fresh, Marked
  PROVE  /\ SweptJob \in [Job -> Row]
         /\ SweptDelivery \in [Job -> Delivery]
         /\ SweptLate \in [Job -> {"none", "lease", "deadline"}]
  <1>1. SweptJob \in [Job -> Row]
    BY SweptRow DEF SweptJob
  <1>2. SweptDelivery \in [Job -> Delivery]
    BY DEF TypeOK, SweptDelivery, Uncertain, Delivery
  <1>3. SweptLate \in [Job -> {"none", "lease", "deadline"}]
    BY DEF TypeOK, SweptLate
  <1> QED BY <1>1, <1>2, <1>3

-----------------------------------------------------------------------------
(* What calls of the store do to its tables.                               *)

\* The tables keep their types, and no row or delivery moves but as most steps do.
StoreSteps ==
  /\ job' \in [Job -> Row]
  /\ delivery' \in [Job -> Delivery]
  /\ late' \in [Job -> {"none", "lease", "deadline"}]
  /\ \A j \in Job : RowSteps(j) /\ DeliveryKeeps(j)

\* A call that does nothing else sweeps.
LEMMA SweepSteps ==
  ASSUME TypeOK, Fresh, Marked, Sweep
  PROVE  StoreSteps
  BY Swept, SweptRow DEF StoreSteps, Sweep, RowSteps, DeliveryKeeps

\* A renewed lease.
LEMMA RenewSteps ==
  ASSUME TypeOK, Fresh, Marked, NEW t \in Tab, RenewOK(t)
  PROVE  StoreSteps
  <1>1. late' \in [Job -> {"none", "lease", "deadline"}]
    BY Swept DEF RenewOK
  <1> QED BY <1>1, Swept, SweptRow DEF StoreSteps, RenewOK, RowSteps, DeliveryKeeps

\* A report of progress.
LEMMA ProgressSteps ==
  ASSUME TypeOK, Fresh, Marked, NEW t \in Tab, sw[t].job \in Job,
         NEW phase \in {"pre", "post"}, Progress(t, phase)
  PROVE  StoreSteps
  <1> DEFINE j == sw[t].job
  <1>1. j \in Job /\ SweptJob \in [Job -> Row] /\ SweptJob[j].state = "LEASED"
    BY Swept DEF Progress, Holds
  <1>2. job'[j] = [SweptJob[j] EXCEPT !.phase = phase, !.may_have_sent = @ \/ phase = "post"]
    BY <1>1 DEF Progress
  <1>3. \A k \in Job : k # j => job'[k] = SweptJob[k]
    BY <1>1 DEF Progress
  <1> DEFINE b == SweptJob[j].may_have_sent \/ phase = "post"
  <1>9. b \in BOOLEAN /\ (SweptJob[j].may_have_sent => b)
    OBVIOUS
  <1>10. job'[j] = [SweptJob[j] EXCEPT !.phase = phase, !.may_have_sent = b]
    BY <1>2
  <1> HIDE DEF b
  <1>11. SweptJob[j] \in Row
    BY <1>1
  <1>4. job'[j] \in Row
    BY <1>9, <1>10, <1>11 DEF Row
  <1>5. job' \in [Job -> Row]
    <2>1. job' = [k \in Job |-> job'[k]]
      BY <1>1 DEF Progress
    <2>2. \A k \in Job : job'[k] \in Row
      BY <1>1, <1>3, <1>4
    <2> QED BY <2>1, <2>2
  <1>6. late' \in [Job -> {"none", "lease", "deadline"}] /\ delivery' = SweptDelivery
    BY Swept, <1>1 DEF Progress
  <1>7. RowSteps(j)
    <2>1. job'[j].may_have_sent \in BOOLEAN /\ job'[j].state = "LEASED"
          /\ job'[j].worker = SweptJob[j].worker
          /\ (SweptJob[j].may_have_sent => job'[j].may_have_sent)
      BY <1>1, <1>9, <1>10, <1>11 DEF Row
    <2>2. SweptJob[j] = job[j]
      BY <1>1, SweptRow
    <2> QED BY <1>1, <2>1, <2>2 DEF RowSteps, Ended
  <1>8. \A k \in Job : RowSteps(k)
    <2> SUFFICES ASSUME NEW k \in Job, k # j
                 PROVE  RowSteps(k)
      BY <1>7
    <2>1. job'[k] = SweptJob[k] /\ delivery'[k] = SweptDelivery[k]
      BY <1>3, <1>6
    <2> QED BY <2>1, SweptRow DEF RowSteps
  <1> QED BY <1>5, <1>6, <1>8, Swept, SweptRow DEF StoreSteps, DeliveryKeeps

\* Nothing happens.
LEMMA StillSteps ==
  ASSUME TypeOK, Fresh, Marked, UNCHANGED store
  PROVE  StoreSteps
  BY DEF StoreSteps, store, TypeOK, Delivery, RowSteps, DeliveryKeeps, Keeps, Fresh, Marked

\* A new job.
LEMMA SubmitSteps ==
  ASSUME TypeOK, Fresh, Marked, NEW j \in Job, Submit(j)
  PROVE  StoreSteps
  <1>1. SweptJob \in [Job -> Row] /\ SweptDelivery \in [Job -> Delivery]
    BY Swept
  <1>2. job'[j] = [SweptJob[j] EXCEPT !.state = "QUEUED"] /\ delivery'[j] = "not_sent"
    BY <1>1 DEF Submit
  <1>3. \A k \in Job : k # j => (job'[k] = SweptJob[k] /\ delivery'[k] = SweptDelivery[k])
    BY <1>1 DEF Submit
  <1>4. SweptJob[j] \in Row /\ job[j].state = "none" /\ delivery[j] = "absent"
    BY <1>1 DEF Submit, Fresh
  <1>5. job'[j] \in Row /\ job'[j].state = "QUEUED" /\ job'[j].may_have_sent = SweptJob[j].may_have_sent
    BY <1>2, <1>4 DEF Row
  <1>6. job' \in [Job -> Row]
    BY <1>1, <1>2, <1>5 DEF Submit
  <1>7. delivery' \in [Job -> Delivery]
    BY <1>1 DEF Submit, Delivery
  <1>8. late' \in [Job -> {"none", "lease", "deadline"}]
    BY Swept DEF Submit
  <1>9. RowSteps(j) /\ DeliveryKeeps(j)
    BY <1>2, <1>4, <1>5, SweptRow DEF RowSteps, DeliveryKeeps, Ended, Marked
  <1>10. ASSUME NEW k \in Job, k # j
         PROVE  RowSteps(k) /\ DeliveryKeeps(k)
    BY <1>3, <1>10, SweptRow DEF RowSteps, DeliveryKeeps
  <1> QED BY <1>6, <1>7, <1>8, <1>9, <1>10 DEF StoreSteps

\* A lease; a row that was queued has no mark.
LEMMA PollSteps ==
  ASSUME TypeOK, Fresh, Marked, NEW t \in Tab, Poll(t)
  PROVE  /\ StoreSteps
         /\ sw' \in [Tab -> Worker] /\ active' \in [Tab -> Active \union {Nobody}]
         /\ \A u \in Tab : sw'[u] = sw[u] \/ (sw'[u].step = "preparing" /\ sw'[u].job \in Job)
  <1> DEFINE n(j) == SweptJob[j].requeues + 1
  <1>1. PICK j \in Job :
          /\ SweptJob[j].state = "QUEUED"
          /\ job' = [SweptJob EXCEPT ![j].state = "LEASED", ![j].worker = t, ![j].lease = n(j)]
          /\ delivery' = SweptDelivery
          /\ late' = [SweptLate EXCEPT ![j] = "none"]
          /\ \/ UNCHANGED <<sw, active>>
             \/ /\ sw' = [sw EXCEPT ![t] = [step |-> "preparing", job |-> j, lease |-> n(j)]]
                /\ active' = [active EXCEPT ![t] = [job |-> j, lease |-> n(j),
                                                    send_reserved |-> FALSE, sent |-> FALSE]]
    BY DEF Poll
  <1>2. SweptJob \in [Job -> Row] /\ SweptJob[j] \in Row
    BY Swept
  <1>3. n(j) \in Lease
    <2>1. SweptJob[j].requeues \in 0 .. MaxRequeues
      BY <1>2 DEF Row
    <2> QED BY <2>1, RelayAssumption DEF RelayAssumption, Lease
  <1> HIDE DEF n
  <1>4. job'[j] = [SweptJob[j] EXCEPT !.state = "LEASED", !.worker = t, !.lease = n(j)]
    BY <1>1, <1>2
  <1>5. \A k \in Job : k # j => job'[k] = SweptJob[k]
    BY <1>1, <1>2
  <1>6. job'[j] \in Row /\ job'[j].state = "LEASED" /\ job'[j].may_have_sent = SweptJob[j].may_have_sent
    BY <1>2, <1>3, <1>4 DEF Row
  <1>7. job' \in [Job -> Row]
    BY <1>1, <1>2, <1>4, <1>6
  <1>8. late' \in [Job -> {"none", "lease", "deadline"}] /\ delivery' \in [Job -> Delivery]
    BY <1>1, Swept
  <1>9. ~job[j].may_have_sent /\ job[j].state \notin Ended
    BY <1>1, SweptRow DEF Ended
  <1>10. RowSteps(j) /\ DeliveryKeeps(j)
    BY <1>1, <1>6, <1>9, SweptRow DEF RowSteps, DeliveryKeeps
  <1>11. ASSUME NEW k \in Job, k # j
         PROVE  RowSteps(k) /\ DeliveryKeeps(k)
    <2>1. job'[k] = SweptJob[k] /\ delivery'[k] = SweptDelivery[k]
      BY <1>1, <1>5, <1>11
    <2> QED BY <2>1, SweptRow DEF RowSteps, DeliveryKeeps
  <1>12. StoreSteps
    BY <1>7, <1>8, <1>10, <1>11 DEF StoreSteps
  <1>13. [step |-> "preparing", job |-> j, lease |-> n(j)] \in Worker
    BY <1>3 DEF Worker, Step
  <1>14. [job |-> j, lease |-> n(j), send_reserved |-> FALSE, sent |-> FALSE] \in Active
    BY <1>3 DEF Active
  <1>15. sw' \in [Tab -> Worker] /\ active' \in [Tab -> Active \union {Nobody}]
    BY <1>1, <1>13, <1>14 DEF TypeOK
  <1>16. \A u \in Tab : sw'[u] = sw[u] \/ (sw'[u].step = "preparing" /\ sw'[u].job \in Job)
    BY <1>1 DEF TypeOK
  <1> QED BY <1>12, <1>15, <1>16

\* A result: the row ends, a pending intent becomes uncertain.
LEMMA ResultSteps ==
  ASSUME TypeOK, Fresh, Marked, NEW j \in Job, StoreResult(j)
  PROVE  StoreSteps
  <1> DEFINE r == outbox[j]
  <1>1. CASE ~Holds(r.worker, j, r.lease)
    BY <1>1, SweepSteps DEF StoreResult
  <1>2. CASE Holds(r.worker, j, r.lease)
    <2>1. SweptJob \in [Job -> Row] /\ SweptDelivery \in [Job -> Delivery]
      BY Swept
    <2>2. job' = [SweptJob EXCEPT ![j].state = r.status]
          /\ delivery' = [SweptDelivery EXCEPT ![j] = Uncertain(@)]
          /\ late' = SweptLate
      BY <1>2 DEF StoreResult
    <2>3. /\ job'[j] = [SweptJob[j] EXCEPT !.state = r.status]
          /\ delivery'[j] = Uncertain(SweptDelivery[j])
      BY <2>1, <2>2
    <2>4. \A k \in Job : k # j => (job'[k] = SweptJob[k] /\ delivery'[k] = SweptDelivery[k])
      BY <2>1, <2>2
    <2>5. r.status \in Ended
      BY DEF TypeOK, StoreResult, Result
    <2>6. SweptJob[j] = job[j] /\ job[j] \in Row /\ job[j].state = "LEASED"
      BY <1>2, <2>1, SweptRow DEF Holds, TypeOK
    <2>7. job'[j] \in Row /\ job'[j].state \in Ended
          /\ job'[j].may_have_sent = job[j].may_have_sent /\ job'[j].worker = job[j].worker
      BY <2>3, <2>5, <2>6 DEF Row
    <2>8. job' \in [Job -> Row]
      BY <2>1, <2>2, <2>3, <2>7
    <2>9. delivery' \in [Job -> Delivery]
      BY <2>1, <2>2 DEF Uncertain, Delivery
    <2>10. late' \in [Job -> {"none", "lease", "deadline"}]
      BY <2>2, Swept
    <2>11. RowSteps(j) /\ DeliveryKeeps(j)
      BY <2>3, <2>6, <2>7, SweptRow DEF RowSteps, DeliveryKeeps, Ended, Keeps, Uncertain
    <2>12. ASSUME NEW k \in Job, k # j
           PROVE  RowSteps(k) /\ DeliveryKeeps(k)
      BY <2>4, <2>12, SweptRow DEF RowSteps, DeliveryKeeps
    <2> QED BY <2>8, <2>9, <2>10, <2>11, <2>12 DEF StoreSteps
  <1> QED BY <1>1, <1>2

\* A cancellation.
LEMMA CancelSteps ==
  ASSUME TypeOK, Fresh, Marked, NEW j \in Job, Cancel(j)
  PROVE  StoreSteps
  <1>1. job[j] \in Row
    BY DEF TypeOK
  <1>2. job'[j] = [job[j] EXCEPT !.state = "FAILED"] /\ delivery'[j] = Uncertain(delivery[j])
    BY DEF Cancel, TypeOK
  <1>3. \A k \in Job : k # j => (job'[k] = job[k] /\ delivery'[k] = delivery[k])
    BY DEF Cancel, TypeOK
  <1>4. job'[j] \in Row /\ job'[j].state \in Ended
        /\ job'[j].may_have_sent = job[j].may_have_sent /\ job'[j].worker = job[j].worker
    BY <1>1, <1>2 DEF Row, Ended
  <1>5. job' \in [Job -> Row]
    BY <1>2, <1>4 DEF Cancel, TypeOK
  <1>6. delivery' \in [Job -> Delivery] /\ late' \in [Job -> {"none", "lease", "deadline"}]
    BY DEF Cancel, TypeOK, Uncertain, Delivery
  <1>7. RowSteps(j) /\ DeliveryKeeps(j)
    BY <1>2, <1>4 DEF RowSteps, DeliveryKeeps, Ended, Keeps, Uncertain, Cancel
  <1>8. ASSUME NEW k \in Job, k # j
        PROVE  RowSteps(k) /\ DeliveryKeeps(k)
    BY <1>3, <1>8 DEF RowSteps, DeliveryKeeps, Keeps, Marked, Fresh
  <1> QED BY <1>5, <1>6, <1>7, <1>8 DEF StoreSteps

\* A limit passes.
LEMMA LapseSteps ==
  ASSUME TypeOK, Fresh, Marked, NEW j \in Job, NEW limit \in {"lease", "deadline"},
         Lapse(j, limit)
  PROVE  StoreSteps
  BY DEF Lapse, StoreSteps, TypeOK, Delivery, RowSteps, DeliveryKeeps, Keeps, Fresh, Marked

-----------------------------------------------------------------------------
(* The steps that neither clear, ask, click nor confirm.                   *)

\* The extension's part of such a step.
TabSteps ==
  /\ net' \subseteq Request
  /\ \A m \in net' : m.kind = "receipt" => m \in net
  /\ sw' \in [Tab -> Worker]
  /\ active' \in [Tab -> Active \union {Nobody}]
  /\ outbox' \in [Job -> Result \union {Nobody}]
  /\ restarts' \in 0 .. MaxRestarts
  /\ \A t \in Tab : TabKeeps(t)
  /\ UNCHANGED <<page, messages>>

\* A step of the store with such a step of the extension is quiet.
LEMMA QuietFrom ==
  ASSUME IInv, StoreSteps, TabSteps
  PROVE  TypeOK' /\ Quiet
  <1>1. TypeOK'
    BY DEF IInv, TypeOK, StoreSteps, TabSteps, page, Delivery
  <1>2. Quiet
    BY DEF Quiet, StoreSteps, TabSteps
  <1> QED BY <1>1, <1>2

\* The extension does nothing.
LEMMA TabsRest ==
  ASSUME IInv, UNCHANGED <<browser, messages, restarts>>, net' \subseteq net
  PROVE  TabSteps
  BY DEF TabSteps, IInv, TypeOK, Busied, TabKeeps, browser, page

\* A tab goes on with its job to a step that is not a click.
LEMMA TabMoves ==
  ASSUME IInv, NEW t \in Tab, sw[t].step # "idle",
         NEW step \in Step \ {"acked", "asked"}, Moves(t, step)
  PROVE  sw' \in [Tab -> Worker] /\ \A u \in Tab : TabKeeps(u)
  <1>1. sw[t] \in Worker /\ sw[t].job \in Job
    BY DEF IInv, TypeOK, Busied
  <1>2. sw'[t] = [sw[t] EXCEPT !.step = step] /\ \A u \in Tab : u # t => sw'[u] = sw[u]
    BY DEF Moves, IInv, TypeOK
  <1>3. sw'[t] \in Worker /\ sw'[t].step = step /\ sw'[t].job = sw[t].job
    BY <1>1, <1>2 DEF Worker
  <1>4. sw' \in [Tab -> Worker]
    BY <1>2, <1>3 DEF Moves, IInv, TypeOK
  <1>5. TabKeeps(t)
    BY <1>1, <1>3 DEF TabKeeps
  <1>6. \A u \in Tab : u # t => TabKeeps(u)
    BY <1>2 DEF TabKeeps, IInv, Busied
  <1> QED BY <1>4, <1>5, <1>6

\* A record in chrome.storage stays one.
LEMMA SavedType ==
  ASSUME TypeOK, NEW t \in Tab, NEW field \in {"send_reserved", "sent"}
  PROVE  Saved(t, field) \in [Tab -> Active \union {Nobody}]
  <1>1. CASE active[t] = Nobody
    BY <1>1 DEF Saved, TypeOK
  <1>2. CASE active[t] # Nobody
    <2>1. active[t] \in Active
      BY <1>2 DEF TypeOK
    <2>2. [active[t] EXCEPT ![field] = TRUE] \in Active
      BY <2>1 DEF Active
    <2> QED BY <1>2, <2>2 DEF Saved, TypeOK
  <1> QED BY <1>1, <1>2

\* What a tab posts is a request.
LEMMA PostType ==
  ASSUME IInv, NEW t \in Tab, sw[t].step # "idle", NEW kind \in {"sending", "receipt"},
         Post(t, kind)
  PROVE  net' \subseteq Request
  <1>1. sw[t].job \in Job /\ sw[t].lease \in Lease
    BY DEF IInv, TypeOK, Busied, Worker
  <1>2. [kind |-> kind, job |-> sw[t].job, worker |-> t, lease |-> sw[t].lease] \in Request
    BY <1>1 DEF Request
  <1> QED BY <1>2 DEF Post, IInv, TypeOK

\* The calls of the store whose caller is not a tab.
LEMMA CallsQuiet ==
  ASSUME IInv, NEW j \in Job,
         \/ Submit(j) \/ StoreResult(j) \/ Cancel(j) \/ Look
         \/ Lapse(j, "lease") \/ Lapse(j, "deadline")
  PROVE  TypeOK' /\ Quiet
  <1>0. TypeOK /\ Fresh /\ Marked
    BY DEF IInv
  <1>1. CASE Submit(j)
    BY <1>0, <1>1, SubmitSteps, TabsRest, QuietFrom DEF Submit
  <1>2. CASE StoreResult(j)
    <2>1. outbox' \in [Job -> Result \union {Nobody}]
      BY <1>0, <1>2 DEF StoreResult, TypeOK
    <2>2. TabSteps
      BY <1>2, <2>1 DEF StoreResult, TabSteps, IInv, TypeOK, Busied, TabKeeps
    <2> QED BY <1>0, <1>2, <2>2, ResultSteps, QuietFrom
  <1>3. CASE Cancel(j)
    BY <1>0, <1>3, CancelSteps, TabsRest, QuietFrom DEF Cancel
  <1>4. CASE Look
    BY <1>0, <1>4, SweepSteps, TabsRest, QuietFrom DEF Look
  <1>5. CASE Lapse(j, "lease")
    <2>1. StoreSteps
      BY <1>0, <1>5, LapseSteps
    <2> QED BY <1>5, <2>1, TabsRest, QuietFrom DEF Lapse
  <1>6. CASE Lapse(j, "deadline")
    <2>1. StoreSteps
      BY <1>0, <1>6, LapseSteps
    <2> QED BY <1>6, <2>1, TabsRest, QuietFrom DEF Lapse
  <1> QED BY <1>1, <1>2, <1>3, <1>4, <1>5, <1>6

\* The calls of a tab about its lease.
LEMMA LeasesQuiet ==
  ASSUME IInv, NEW t \in Tab, Poll(t) \/ Report(t) \/ Renew(t) \/ Alarm(t)
  PROVE  TypeOK' /\ Quiet
  <1>0. TypeOK /\ Fresh /\ Marked /\ Busied
    BY DEF IInv
  <1>1. CASE Poll(t)
    <2>1. TabSteps
      BY <1>0, <1>1, PollSteps DEF Poll, TabSteps, TypeOK, Busied, TabKeeps
    <2> QED BY <1>0, <1>1, <2>1, PollSteps, QuietFrom
  <1>2. CASE Report(t)
    <2>1. sw[t].job \in Job
      BY <1>0, <1>2 DEF Busied, Report
    <2>2. StoreSteps
      BY <1>0, <1>2, <2>1, ProgressSteps DEF Report
    <2> QED BY <1>2, <2>2, TabsRest, QuietFrom DEF Report
  <1>3. CASE Renew(t)
    BY <1>0, <1>3, RenewSteps, TabsRest, QuietFrom DEF Renew
  <1>4. CASE Alarm(t)
    <2>1. TabSteps
      BY <1>0, <1>4 DEF Alarm, TabSteps, TypeOK, Busied, TabKeeps
    <2> QED BY <1>0, <1>4, <2>1, SweepSteps, QuietFrom DEF Alarm, RenewRefused
  <1> QED BY <1>1, <1>2, <1>3, <1>4

\* A request is lost.
LEMMA LostQuiet ==
  ASSUME IInv, NEW m \in net, Lose(m)
  PROVE  TypeOK' /\ Quiet
  <1>1. TypeOK /\ Fresh /\ Marked
    BY DEF IInv
  <1> QED BY <1>1, StillSteps, TabsRest, QuietFrom DEF Lose

\* The steps of a tab that leave the store alone, and a restart.
LEMMA TabsQuiet ==
  ASSUME IInv, NEW t \in Tab,
         \/ Reserve(t) \/ GiveUp(t) \/ Sent(t) \/ Abort(t) \/ Finish(t) \/ Release(t)
         \/ Restart
  PROVE  TypeOK' /\ Quiet
  <1>0. TypeOK /\ Fresh /\ Marked /\ Busied
    BY DEF IInv
  <1>1. StoreSteps
    BY <1>0, StillSteps DEF Reserve, GiveUp, Sent, Abort, Finish, Release, Restart
  <1>2. ASSUME NEW status \in Ended, Posts(t, status), sw[t].step # "idle",
               UNCHANGED <<net, active, page, messages, restarts>>
        PROVE  TabSteps
    <2>1. sw[t].job \in Job /\ sw[t].lease \in Lease
      BY <1>0, <1>2 DEF TypeOK, Busied, Worker
    <2>2. [worker |-> t, lease |-> sw[t].lease, status |-> status] \in Result
      BY <2>1 DEF Result
    <2>3. outbox' \in [Job -> Result \union {Nobody}]
      BY <1>0, <1>2, <2>2 DEF Posts, TypeOK
    <2>4. Moves(t, "posted") /\ "posted" \in Step \ {"acked", "asked"}
      BY <1>2 DEF Posts, Step
    <2>5. sw' \in [Tab -> Worker] /\ \A u \in Tab : TabKeeps(u)
      BY <1>2, <2>4, TabMoves
    <2> QED BY <1>0, <1>2, <2>3, <2>5 DEF TabSteps, TypeOK
  <1>3. CASE Reserve(t)
    <2>1. sw[t].step # "idle" /\ Moves(t, "sending") /\ "sending" \in Step \ {"acked", "asked"}
      BY <1>3 DEF Reserve, Step
    <2>2. sw' \in [Tab -> Worker] /\ \A u \in Tab : TabKeeps(u)
      BY <2>1, TabMoves
    <2>3. net' \subseteq Request
      BY <1>3, <2>1, PostType DEF Reserve
    <2>4. active' \in [Tab -> Active \union {Nobody}]
      BY <1>0, <1>3, SavedType DEF Reserve
    <2>5. \A m \in net' : m.kind = "receipt" => m \in net
      BY <1>3 DEF Reserve, Post
    <2>6. TabSteps
      BY <1>0, <1>3, <2>2, <2>3, <2>4, <2>5 DEF TabSteps, Reserve, TypeOK
    <2> QED BY <1>1, <2>6, QuietFrom
  <1>4. CASE GiveUp(t)
    <2>1. sw[t].step # "idle" /\ Moves(t, "unacked") /\ "unacked" \in Step \ {"acked", "asked"}
      BY <1>4 DEF GiveUp, Step
    <2>2. sw' \in [Tab -> Worker] /\ \A u \in Tab : TabKeeps(u)
      BY <2>1, TabMoves
    <2>3. TabSteps
      BY <1>0, <1>4, <2>2 DEF TabSteps, GiveUp, TypeOK
    <2> QED BY <1>1, <2>3, QuietFrom
  <1>5. CASE Sent(t)
    <2>1. sw[t].step # "idle" /\ Moves(t, "waiting") /\ "waiting" \in Step \ {"acked", "asked"}
      BY <1>5 DEF Sent, Step
    <2>2. sw' \in [Tab -> Worker] /\ \A u \in Tab : TabKeeps(u)
      BY <2>1, TabMoves
    <2>3. active' \in [Tab -> Active \union {Nobody}]
      BY <1>0, <1>5, SavedType DEF Sent
    <2>4. TabSteps
      BY <1>0, <1>5, <2>2, <2>3 DEF TabSteps, Sent, TypeOK
    <2> QED BY <1>1, <2>4, QuietFrom
  <1>6. CASE Abort(t)
    <2>1. sw[t].step # "idle" /\ "FAILED" \in Ended
      BY <1>6 DEF Abort, Ended
    <2>2. TabSteps
      BY <1>2, <1>6, <2>1 DEF Abort
    <2> QED BY <1>1, <2>2, QuietFrom
  <1>7. CASE Finish(t)
    <2>1. sw[t].step # "idle" /\ "COMPLETED" \in Ended
      BY <1>7 DEF Finish, Ended
    <2>2. TabSteps
      BY <1>2, <1>7, <2>1 DEF Finish
    <2> QED BY <1>1, <2>2, QuietFrom
  <1>8. Idle \in Worker /\ Idle.step = "idle"
    BY RelayAssumption DEF RelayAssumption, Idle, Worker, Step, Lease
  <1>9. CASE Release(t)
    <2>1. TabSteps
      BY <1>0, <1>8, <1>9 DEF Release, TabSteps, TypeOK, Busied, TabKeeps
    <2> QED BY <1>1, <2>1, QuietFrom
  <1>10. CASE Restart
    <2>1. restarts' \in 0 .. MaxRestarts
      BY <1>0, <1>10, RelayAssumption DEF RelayAssumption, Restart, TypeOK
    <2>2. TabSteps
      BY <1>0, <1>8, <1>10, <2>1 DEF Restart, TabSteps, TypeOK, TabKeeps
    <2> QED BY <1>1, <2>2, QuietFrom
  <1> QED BY <1>3, <1>4, <1>5, <1>6, <1>7, <1>9, <1>10

\* The recovery of a tab after the death of the service worker.
LEMMA ResumeQuiet ==
  ASSUME IInv, NEW t \in Tab, Resume(t)
  PROVE  TypeOK' /\ Quiet
  <1>0. TypeOK /\ Fresh /\ Marked /\ Busied
    BY DEF IInv
  <1>1. StoreSteps
    BY <1>0, RenewSteps, StillSteps DEF Resume
  <1>2. active[t] \in Active
    BY <1>0 DEF Resume, TypeOK
  <1>3. [step |-> "waiting", job |-> active[t].job, lease |-> active[t].lease] \in Worker
        /\ active[t].job \in Job
    BY <1>2 DEF Active, Worker, Step
  <1>4. TabSteps
    BY <1>0, <1>3 DEF Resume, TabSteps, TypeOK, Busied, TabKeeps
  <1> QED BY <1>1, <1>4, QuietFrom

-----------------------------------------------------------------------------
(* The steps that clear, ask, click and confirm.                           *)

\* What every call of the store does: no row loses its mark, no intent is dropped.
StoreKeeps ==
  \A j \in Job : RowSteps(j) /\ (Intended(j) => Intended(j)')

\* Marks and clearances stay.
LEMMA ClearedStays ==
  ASSUME IInv, StoreKeeps
  PROVE  /\ \A t \in Tab, j \in Job : Cleared(t, j) => Cleared(t, j)'
         /\ Marked'
         /\ UNCHANGED messages => Posted'
         /\ (TypeOK /\ UNCHANGED page) => Pages'
  <1>1. \A t \in Tab, j \in Job : Cleared(t, j) => Cleared(t, j)'
    BY DEF StoreKeeps, Cleared, RowSteps
  <1>2. Marked'
    BY DEF StoreKeeps, Marked, RowSteps
  <1>3. UNCHANGED messages => Posted'
    BY DEF StoreKeeps, IInv, Posted, RowSteps
  <1>4. (TypeOK /\ UNCHANGED page) => Pages'
    BY <1>1 DEF IInv, Pages, page, TypeOK
  <1> QED BY <1>1, <1>2, <1>3, <1>4

\* A refused "sending" changes nothing in the store.
LEMMA RefusedQuiet ==
  ASSUME IInv, NEW m \in net, DeliverSending(m), ~SendingAccepted(m)
  PROVE  TypeOK' /\ Quiet
  <1>0. TypeOK /\ Fresh /\ Marked /\ Busied
    BY DEF IInv
  <1>1. StoreSteps
    BY <1>0, StillSteps DEF DeliverSending
  <1>2. m \in Request /\ m.kind = "sending" /\ m.worker \in Tab
    BY <1>0 DEF TypeOK, Request, DeliverSending
  <1>3. sw' \in [Tab -> Worker] /\ \A u \in Tab : TabKeeps(u)
    <2>1. CASE UNCHANGED sw
      BY <1>0, <2>1 DEF TypeOK, TabKeeps, Busied
    <2>2. CASE ~UNCHANGED sw
      <3>1. sw[m.worker].step = "sending" /\ Moves(m.worker, "unacked")
        BY <1>2, <2>2 DEF DeliverSending, Reply, Moves
      <3>2. "unacked" \in Step \ {"acked", "asked"}
        BY DEF Step
      <3> QED BY <1>2, <3>1, <3>2, TabMoves
    <2> QED BY <2>1, <2>2
  <1>4. TabSteps
    BY <1>0, <1>3 DEF TabSteps, DeliverSending, TypeOK
  <1> QED BY <1>1, <1>4, QuietFrom

\* An accepted "sending" marks the row and opens the intent in one step.
LEMMA ClearedBySending ==
  ASSUME IInv, NEW m \in net, DeliverSending(m), SendingAccepted(m)
  PROVE  /\ IInv' /\ (Once => Once')
         /\ UNCHANGED messages
         /\ \A k \in Job : RowSteps(k) /\ (delivery'[k] = "sent" <=> delivery[k] = "sent")
  <1>0. TypeOK /\ Fresh /\ Marked /\ Busied
    BY DEF IInv
  <1> DEFINE j == m.job
  <1>1. m \in Request /\ m.kind = "sending" /\ m.worker \in Tab /\ j \in Job
    BY <1>0 DEF TypeOK, Request, DeliverSending
  <1>2. /\ SweptJob[j] = job[j] /\ job[j] \in Row
        /\ job[j].state = "LEASED" /\ job[j].worker = m.worker
    BY <1>0, <1>1, SweptRow DEF SendingAccepted, Holds, TypeOK
  <1>3. SweptJob \in [Job -> Row] /\ SweptDelivery \in [Job -> Delivery]
    BY <1>0, Swept
  <1>4. /\ job' = [SweptJob EXCEPT ![j].phase = "post", ![j].may_have_sent = TRUE]
        /\ delivery' = [SweptDelivery EXCEPT ![j] = "pending"]
        /\ late' = [SweptLate EXCEPT ![j] = "none"]
        /\ Reply(m, "acked")
    BY DEF DeliverSending
  <1>5. /\ job'[j] = [job[j] EXCEPT !.phase = "post", !.may_have_sent = TRUE]
        /\ delivery'[j] = "pending"
    BY <1>1, <1>2, <1>3, <1>4
  <1>6. \A k \in Job : k # j => (job'[k] = SweptJob[k] /\ delivery'[k] = SweptDelivery[k])
    BY <1>1, <1>3, <1>4
  <1>7. /\ job'[j] \in Row /\ job'[j].may_have_sent
        /\ job'[j].state = "LEASED" /\ job'[j].worker = m.worker
    BY <1>2, <1>5 DEF Row
  <1>8. delivery[j] \in {"not_sent", "pending"}
    BY <1>0, <1>1, SweptRow DEF SendingAccepted, Keeps
  <1>9. \A k \in Job : RowSteps(k) /\ (Intended(k) => Intended(k)')
                       /\ (delivery'[k] = "sent" <=> delivery[k] = "sent")
    <2>1. RowSteps(j) /\ Intended(j)' /\ delivery[j] # "sent"
      BY <1>2, <1>5, <1>7, <1>8 DEF RowSteps, Ended, Intended
    <2>2. ASSUME NEW k \in Job, k # j
          PROVE  RowSteps(k) /\ (Intended(k) => Intended(k)')
                 /\ (delivery'[k] = "sent" <=> delivery[k] = "sent")
      BY <1>0, <1>6, <2>2, SweptRow DEF RowSteps, Intended, Keeps
    <2> QED BY <1>5, <2>1, <2>2
  <1>10. StoreKeeps /\ UNCHANGED <<page, messages>>
    BY <1>9 DEF StoreKeeps, DeliverSending
  <1>11. /\ sw' \in [Tab -> Worker]
         /\ \A t \in Tab : sw'[t] # sw[t] =>
              (t = m.worker /\ sw'[t].step = "acked" /\ sw'[t].job = j)
    <2>1. CASE UNCHANGED sw
      BY <1>0, <2>1 DEF TypeOK
    <2>2. CASE /\ sw[m.worker] = [step |-> m.kind, job |-> m.job, lease |-> m.lease]
               /\ sw' = [sw EXCEPT ![m.worker].step = "acked"]
      <3>1. sw'[m.worker] = [step |-> "acked", job |-> j, lease |-> m.lease]
        BY <1>0, <1>1, <2>2 DEF TypeOK
      <3>2. sw'[m.worker] \in Worker
        BY <1>1, <3>1 DEF Request, Worker, Step
      <3>3. \A t \in Tab : t # m.worker => sw'[t] = sw[t]
        BY <1>0, <2>2 DEF TypeOK
      <3>4. sw' \in [Tab -> Worker]
        BY <1>0, <2>2, <3>2, <3>3 DEF TypeOK
      <3> QED BY <3>1, <3>3, <3>4
    <2> QED BY <1>4, <2>1, <2>2 DEF Reply
  <1>12. TypeOK'
    <2>1. job' \in [Job -> Row]
      BY <1>3, <1>4, <1>5, <1>7
    <2>2. delivery' \in [Job -> Delivery]
      BY <1>3, <1>4 DEF Delivery
    <2>3. late' \in [Job -> {"none", "lease", "deadline"}]
      BY <1>0, <1>4, Swept
    <2> QED BY <1>0, <1>11, <2>1, <2>2, <2>3 DEF TypeOK, Delivery, DeliverSending, page
  <1>13. Busied'
    BY <1>0, <1>1, <1>11 DEF Busied
  <1>14. MayClick'
    <2> SUFFICES ASSUME NEW t \in Tab, sw'[t].step \in {"acked", "asked"}
                 PROVE  Cleared(t, sw[t].job)'
      BY DEF MayClick
    <2>1. CASE sw'[t] = sw[t]
      <3>1. sw[t].job \in Job /\ Cleared(t, sw[t].job)
        BY <1>0, <2>1 DEF IInv, MayClick, Busied
      <3>2. PICK k \in Job : k = sw[t].job
        BY <3>1
      <3>3. Cleared(t, k)'
        BY <1>10, <3>1, <3>2, ClearedStays
      <3> QED BY <2>1, <3>2, <3>3 DEF Cleared, Intended
    <2>2. CASE sw'[t] # sw[t]
      <3>1. sw'[t].job = j /\ t = m.worker
        BY <1>11, <2>2
      <3> QED BY <1>5, <1>7, <3>1 DEF Cleared, Intended
    <2> QED BY <2>1, <2>2
  <1>15. Pages' /\ Posted' /\ Marked'
    BY <1>0, <1>10, ClearedStays
  <1>16. Fresh'
    BY <1>0, <1>7, <1>9 DEF Fresh, RowSteps
  <1>17. Receipts'
    BY <1>9, <1>10 DEF Receipts, IInv, DeliverSending
  <1>18. OneIntent'
    <2>1. \A k \in Job : (k # j /\ Chat[k] = Chat[j]) => ~Open(k)'
      BY <1>6 DEF SendingAccepted, Busy, Open
    <2>2. \A k \in Job : (k # j /\ Open(k)') => Open(k)
      BY <1>0, <1>6, SweptRow DEF Open, Keeps
    <2> QED BY <2>1, <2>2 DEF OneIntent, IInv
  <1>19. Once => Once'
    BY <1>10, <1>11 DEF Once, page
  <1> QED BY <1>9, <1>10, <1>12, <1>13, <1>14, <1>15, <1>16, <1>17, <1>18, <1>19 DEF IInv

\* A receipt closes the intent.
LEMMA ReceiptConfirms ==
  ASSUME IInv, NEW m \in net, DeliverReceipt(m)
  PROVE  /\ IInv' /\ (Once => Once')
         /\ UNCHANGED <<job, messages>>
         /\ \A k \in Job : RowSteps(k)
         /\ \A k \in Job : delivery'[k] = "sent" => (messages[k] > 0 /\ delivery[k] # "not_sent")
         /\ \A k \in Job : delivery[k] = "sent" => delivery'[k] = "sent"
  <1>0. TypeOK /\ Fresh /\ Marked /\ Busied
    BY DEF IInv
  <1> DEFINE j == m.job
  <1>1. m \in Request /\ m.kind = "receipt" /\ m.worker \in Tab /\ j \in Job
    BY <1>0 DEF TypeOK, Request, DeliverReceipt
  <1>2. /\ delivery' = [delivery EXCEPT ![j] = "sent"]
        /\ delivery[j] \notin {"absent", "not_sent"}
        /\ UNCHANGED <<job, late, active, outbox, page, messages, restarts>>
    BY DEF DeliverReceipt
  <1>3. delivery'[j] = "sent" /\ \A k \in Job : k # j => delivery'[k] = delivery[k]
    BY <1>0, <1>1, <1>2 DEF TypeOK
  <1>4. \A k \in Job : RowSteps(k) /\ (Intended(k) => Intended(k)')
    BY <1>0, <1>2, <1>3 DEF RowSteps, Intended, Marked, Fresh
  <1>5. StoreKeeps /\ UNCHANGED <<page, messages>>
    BY <1>2, <1>4 DEF StoreKeeps
  <1>6. /\ sw' \in [Tab -> Worker]
        /\ \A t \in Tab : TabKeeps(t)
    <2>1. CASE UNCHANGED sw
      BY <1>0, <2>1 DEF TypeOK, TabKeeps, Busied
    <2>2. CASE ~UNCHANGED sw
      <3>1. sw[m.worker].step = "receipt" /\ Moves(m.worker, "confirmed")
        BY <1>1, <2>2 DEF DeliverReceipt, Reply, Moves
      <3>2. "confirmed" \in Step \ {"acked", "asked"}
        BY DEF Step
      <3> QED BY <1>1, <3>1, <3>2, TabMoves
    <2> QED BY <2>1, <2>2
  <1>7. TypeOK'
    <2>1. delivery' \in [Job -> Delivery]
      BY <1>0, <1>2 DEF TypeOK, Delivery
    <2> QED BY <1>0, <1>2, <1>6, <2>1 DEF TypeOK, DeliverReceipt, page, Delivery
  <1>8. Busied'
    BY <1>6 DEF Busied, TabKeeps
  <1>9. MayClick'
    <2> SUFFICES ASSUME NEW t \in Tab, sw'[t].step \in {"acked", "asked"}
                 PROVE  Cleared(t, sw[t].job)'
      BY DEF MayClick
    <2>1. sw'[t] = sw[t]
      BY <1>6 DEF TabKeeps
    <2>2. sw[t].job \in Job /\ Cleared(t, sw[t].job)
      BY <1>0, <2>1 DEF IInv, MayClick, Busied
    <2>3. PICK k \in Job : k = sw[t].job
      BY <2>2
    <2>4. Cleared(t, k)'
      BY <1>5, <2>2, <2>3, ClearedStays
    <2> QED BY <2>1, <2>3, <2>4 DEF Cleared, Intended
  <1>10. Pages' /\ Posted' /\ Marked'
    BY <1>0, <1>5, ClearedStays
  <1>11. Fresh'
    BY <1>0, <1>2, <1>3 DEF Fresh
  <1>12. messages[j] > 0
    BY <1>1 DEF IInv, Receipts
  <1>13. Receipts'
    BY <1>3, <1>5, <1>12 DEF Receipts, IInv, DeliverReceipt
  <1>14. OneIntent'
    BY <1>3 DEF OneIntent, IInv, Open
  <1>15. Once => Once'
    BY <1>5, <1>6 DEF Once, page, TabKeeps
  <1>16. \A k \in Job : delivery'[k] = "sent" => (messages[k] > 0 /\ delivery[k] # "not_sent")
    BY <1>2, <1>3, <1>12 DEF Receipts, IInv
  <1>17. \A k \in Job : delivery[k] = "sent" => delivery'[k] = "sent"
    BY <1>3
  <1> QED BY <1>2, <1>4, <1>7, <1>8, <1>9, <1>10, <1>11, <1>13, <1>14, <1>15, <1>16, <1>17 DEF IInv

\* A tab with a 200 hands the message to its page.
LEMMA Asks ==
  ASSUME IInv, Fenced, NEW t \in Tab, Ask(t)
  PROVE  IInv' /\ ((Once /\ ~Reload) => Once') /\ UNCHANGED <<job, delivery, messages>>
  <1>0. TypeOK /\ Busied /\ MayClick /\ Pages
    BY DEF IInv
  <1> DEFINE j == sw[t].job
  <1>1. sw[t].step = "acked" /\ j \in Job /\ sw[t] \in Worker /\ Cleared(t, j)
    BY <1>0 DEF Ask, Fenced, Busied, TypeOK, MayClick
  <1>2. UNCHANGED <<store, net, active, outbox, messages, restarts>>
    BY DEF Ask
  <1>3. sw'[t] = [sw[t] EXCEPT !.step = "asked"] /\ \A u \in Tab : u # t => sw'[u] = sw[u]
    BY <1>0 DEF Ask, Moves, TypeOK
  <1>4. sw'[t] \in Worker /\ sw'[t].step = "asked" /\ sw'[t].job = j
    BY <1>1, <1>3 DEF Worker, Step
  <1>5. /\ tried'[t] = tried[t] \union {j}
        /\ typing'[t] = typing[t] \union ({j} \ tried[t])
        /\ \A u \in Tab : u # t => (tried'[u] = tried[u] /\ typing'[u] = typing[u])
    BY <1>0 DEF Ask, TypeOK
  <1>6. TypeOK'
    <2>1. sw' \in [Tab -> Worker]
      BY <1>0, <1>4 DEF Ask, Moves, TypeOK
    <2>2. tried' \in [Tab -> SUBSET Job] /\ typing' \in [Tab -> SUBSET Job]
      BY <1>0, <1>1 DEF Ask, TypeOK
    <2> QED BY <1>0, <1>2, <2>1, <2>2 DEF TypeOK, store
  <1>7. Busied'
    BY <1>0, <1>1, <1>3, <1>4 DEF Busied
  <1>8. MayClick'
    <2>1. Cleared(t, sw[t].job)'
      BY <1>1, <1>2, <1>4 DEF Cleared, Intended, store
    <2>2. ASSUME NEW u \in Tab, u # t, sw'[u].step \in {"acked", "asked"}
          PROVE  Cleared(u, sw[u].job)'
      BY <1>0, <1>2, <1>3, <2>2 DEF MayClick, Cleared, Intended, store
    <2> QED BY <2>1, <2>2 DEF MayClick
  <1>9. Pages'
    BY <1>0, <1>1, <1>2, <1>5 DEF Pages, Cleared, Intended, store
  <1>10. (Fresh /\ Posted /\ Marked /\ Receipts /\ OneIntent)'
    BY <1>2 DEF IInv, Fresh, Posted, Marked, Receipts, OneIntent, Open, Intended, store
  <1>11. ASSUME Once, ~Reload
         PROVE  Once'
    <2>1. \A u \in Tab : sw'[u].step = "asked" => sw'[u].job \in tried'[u]
      BY <1>3, <1>4, <1>5, <1>11 DEF Once
    <2>2. ASSUME NEW u \in Tab, NEW k \in typing'[u]
          PROVE  messages'[k] = 0
      <3>1. CASE k \in typing[u]
        BY <1>2, <1>11, <3>1 DEF Once
      <3>2. CASE k \notin typing[u]
        <4>1. u = t /\ k = j /\ j \notin tried[t]
          BY <1>5, <2>2, <3>2
        <4>2. \A v \in Tab : j \notin tried[v]
          BY <1>0, <1>1, <4>1 DEF Pages, Cleared
        <4> QED BY <1>0, <1>1, <1>2, <1>11, <4>1, <4>2 DEF Once, TypeOK
      <3> QED BY <3>1, <3>2
    <2>3. \A k \in Job : messages'[k] > 0 => (messages'[k] = 1 /\ \E u \in Tab : k \in tried'[u])
      BY <1>2, <1>5, <1>11 DEF Once
    <2> QED BY <2>1, <2>2, <2>3 DEF Once
  <1> QED BY <1>2, <1>6, <1>7, <1>8, <1>9, <1>10, <1>11 DEF IInv, store

\* A tab asks a new page again; a page that lives is not asked twice.
LEMMA AsksAgain ==
  ASSUME IInv, NEW t \in Tab, AskAgain(t)
  PROVE  IInv' /\ (Once => Once') /\ UNCHANGED <<job, delivery, messages>>
  <1>0. TypeOK /\ Busied /\ MayClick /\ Pages
    BY DEF IInv
  <1> DEFINE j == sw[t].job
  <1>1. sw[t].step = "asked" /\ j \in Job /\ Cleared(t, j) /\ j \notin tried[t]
    BY <1>0 DEF AskAgain, Busied, MayClick
  <1>2. UNCHANGED <<store, net, sw, active, outbox, messages, restarts>>
    BY DEF AskAgain
  <1>3. /\ tried'[t] = tried[t] \union {j}
        /\ typing'[t] = typing[t] \union {j}
        /\ \A u \in Tab : u # t => (tried'[u] = tried[u] /\ typing'[u] = typing[u])
    BY <1>0 DEF AskAgain, TypeOK
  <1>4. TypeOK'
    <2>1. tried' \in [Tab -> SUBSET Job] /\ typing' \in [Tab -> SUBSET Job]
      BY <1>0, <1>1 DEF AskAgain, TypeOK
    <2> QED BY <1>0, <1>2, <2>1 DEF TypeOK, store
  <1>5. Pages'
    BY <1>0, <1>1, <1>2, <1>3 DEF Pages, Cleared, Intended, store
  <1>6. (Busied /\ MayClick /\ Fresh /\ Posted /\ Marked /\ Receipts /\ OneIntent)'
    BY <1>2 DEF IInv, Busied, MayClick, Cleared, Fresh, Posted, Marked, Receipts, OneIntent,
                Open, Intended, store
  <1>7. ~Once
    BY <1>1 DEF Once
  <1> QED BY <1>2, <1>4, <1>5, <1>6, <1>7 DEF IInv, store

\* A page is replaced.
LEMMA Replaces ==
  ASSUME IInv, NEW t \in Tab, Replace(t)
  PROVE  IInv' /\ Reload /\ UNCHANGED <<job, delivery, messages>>
  <1>0. TypeOK /\ Pages
    BY DEF IInv
  <1>1. UNCHANGED <<store, net, sw, active, outbox, messages, restarts>> /\ Reload
    BY DEF Replace
  <1>2. /\ tried'[t] = {} /\ typing'[t] = {}
        /\ \A u \in Tab : u # t => (tried'[u] = tried[u] /\ typing'[u] = typing[u])
    BY <1>0 DEF Replace, TypeOK
  <1>3. TypeOK'
    <2>1. tried' \in [Tab -> SUBSET Job] /\ typing' \in [Tab -> SUBSET Job]
      BY <1>0, <1>1 DEF Replace, TypeOK
    <2> QED BY <1>0, <1>1, <2>1 DEF TypeOK, store
  <1>4. Pages'
    BY <1>0, <1>1, <1>2 DEF Pages, Cleared, Intended, store
  <1>5. (Busied /\ MayClick /\ Fresh /\ Posted /\ Marked /\ Receipts /\ OneIntent)'
    BY <1>1 DEF IInv, Busied, MayClick, Cleared, Fresh, Posted, Marked, Receipts, OneIntent,
                Open, Intended, store
  <1> QED BY <1>1, <1>3, <1>4, <1>5 DEF IInv, store

\* A click: the message of a marked job, once for a page that lives.
LEMMA Clicks ==
  ASSUME IInv, NEW t \in Tab, NEW j \in Job, Click(t, j)
  PROVE  /\ IInv'
         /\ (Once /\ ~Reload) => Once'
         /\ UNCHANGED <<job, delivery>>
         /\ Cleared(t, j)
         /\ \/ UNCHANGED messages
            \/ messages' = [messages EXCEPT ![j] = @ + 1] /\ (Once => messages[j] = 0)
  <1>0. TypeOK /\ Pages
    BY DEF IInv
  <1>1. UNCHANGED <<store, net, sw, active, outbox, tried, restarts>> /\ j \in typing[t]
    BY DEF Click
  <1>2. Cleared(t, j) /\ j \in tried[t]
    BY <1>0, <1>1 DEF Pages
  <1>3. /\ typing'[t] = typing[t] \ {j}
        /\ \A u \in Tab : u # t => typing'[u] = typing[u]
    BY <1>0 DEF Click, TypeOK
  <1>4. /\ messages'[j] = messages[j] \/ messages'[j] = messages[j] + 1
        /\ \A k \in Job : k # j => messages'[k] = messages[k]
        /\ messages' \in [Job -> Nat]
    BY <1>0 DEF Click, TypeOK
  <1>5. TypeOK'
    <2>1. typing' \in [Tab -> SUBSET Job]
      BY <1>0, <1>1 DEF Click, TypeOK
    <2> QED BY <1>0, <1>1, <1>4, <2>1 DEF TypeOK, store
  <1>6. Pages'
    BY <1>0, <1>1, <1>3 DEF Pages, Cleared, Intended, store
  <1>7. Posted'
    BY <1>1, <1>2, <1>4 DEF IInv, Posted, Cleared, Intended, store
  <1>8. Receipts'
    <2>1. \A k \in Job : messages[k] > 0 => messages'[k] > 0
      BY <1>0, <1>4 DEF TypeOK
    <2>2. \A m \in net : m.job \in Job
      BY <1>0 DEF TypeOK, Request
    <2> QED BY <1>1, <2>1, <2>2 DEF IInv, Receipts, store
  <1>9. (Busied /\ MayClick /\ Fresh /\ Marked /\ OneIntent)'
    BY <1>1 DEF IInv, Busied, MayClick, Cleared, Fresh, Marked, OneIntent, Open, Intended, store
  <1>10. Once => messages[j] = 0
    BY <1>1 DEF Once
  <1>11. ASSUME Once, ~Reload
         PROVE  Once'
    <2>1. \A u \in Tab : sw'[u].step = "asked" => sw'[u].job \in tried'[u]
      BY <1>1, <1>11 DEF Once
    <2>2. ASSUME NEW u \in Tab, NEW k \in typing'[u]
          PROVE  messages'[k] = 0
      <3>1. k \in typing[u] /\ k \in Job
        BY <1>0, <1>3, <2>2 DEF TypeOK
      <3>2. k # j
        <4>1. SUFFICES ASSUME k = j
                       PROVE  FALSE
          OBVIOUS
        <4>2. u # t
          BY <1>3, <2>2, <4>1
        <4>3. j \in tried[u]
          BY <1>0, <3>1, <4>1 DEF Pages
        <4> QED BY <1>0, <1>2, <4>2, <4>3 DEF Pages, Cleared
      <3> QED BY <1>4, <1>11, <3>1, <3>2 DEF Once
    <2>3. \A k \in Job : messages'[k] > 0 => (messages'[k] = 1 /\ \E u \in Tab : k \in tried'[u])
      <3>1. messages'[j] > 0 => (messages'[j] = 1 /\ \E u \in Tab : j \in tried'[u])
        BY <1>1, <1>2, <1>4, <1>10, <1>11
      <3> QED BY <1>1, <1>4, <1>11, <3>1 DEF Once
    <2> QED BY <2>1, <2>2, <2>3 DEF Once
  <1>12. \/ UNCHANGED messages
         \/ messages' = [messages EXCEPT ![j] = @ + 1]
    BY DEF Click
  <1> QED BY <1>1, <1>2, <1>5, <1>6, <1>7, <1>8, <1>9, <1>10, <1>11, <1>12 DEF IInv, store

\* A tab that saw its message posts the receipt.
LEMMA Records ==
  ASSUME IInv, Fenced, NEW t \in Tab, Record(t)
  PROVE  IInv' /\ (Once => Once') /\ UNCHANGED <<job, delivery, messages>>
  <1>0. TypeOK /\ Busied
    BY DEF IInv
  <1> DEFINE j == sw[t].job
  <1>1. /\ sw[t].step # "idle" /\ j \in Job /\ messages[j] > 0
        /\ Post(t, "receipt") /\ Moves(t, "receipt")
        /\ UNCHANGED <<store, active, outbox, page, messages, restarts>>
    BY <1>0 DEF Record, Fenced, Busied
  <1>2. "receipt" \in Step \ {"acked", "asked"}
    BY DEF Step
  <1>3. sw' \in [Tab -> Worker] /\ \A u \in Tab : TabKeeps(u)
    BY <1>1, <1>2, TabMoves
  <1>4. net' \subseteq Request
    BY <1>1, PostType
  <1>5. TypeOK'
    BY <1>0, <1>1, <1>3, <1>4 DEF TypeOK, store, page
  <1>6. Busied'
    BY <1>3 DEF Busied, TabKeeps
  <1>7. MayClick'
    BY <1>1, <1>3 DEF IInv, MayClick, TabKeeps, Cleared, Intended, store
  <1>8. Receipts'
    BY <1>1 DEF IInv, Receipts, Post, store
  <1>9. (Pages /\ Fresh /\ Posted /\ Marked /\ OneIntent)'
    BY <1>1 DEF IInv, Pages, Cleared, Fresh, Posted, Marked, OneIntent, Open, Intended, store, page
  <1>10. Once => Once'
    BY <1>1, <1>3 DEF Once, TabKeeps, page
  <1> QED BY <1>1, <1>5, <1>6, <1>7, <1>8, <1>9, <1>10 DEF IInv, store

-----------------------------------------------------------------------------
(* Every step.                                                             *)

\* What a step does to a receipt and to a message.
Effect ==
  /\ \A j \in Job : RowSteps(j)
  /\ \A j \in Job : delivery'[j] = "sent" => (messages[j] > 0 /\ delivery[j] # "not_sent")
  /\ \A j \in Job : delivery[j] = "sent" => delivery'[j] = "sent"
  /\ \/ UNCHANGED messages
     \/ /\ UNCHANGED job
        /\ \E j \in Job : /\ messages' = [messages EXCEPT ![j] = @ + 1]
                          /\ job[j].may_have_sent
                          /\ Once => messages[j] = 0

\* A quiet step has no such effect.
LEMMA QuietEffect ==
  ASSUME IInv, TypeOK', Quiet
  PROVE  IInv' /\ (Once => Once') /\ Effect
  <1>1. IInv' /\ (Once => Once')
    BY QuietKeeps
  <1>2. \A j \in Job : delivery'[j] = "sent" <=> delivery[j] = "sent"
    BY DEF Quiet, DeliveryKeeps, Keeps
  <1> QED BY <1>1, <1>2 DEF Effect, Quiet, IInv, Receipts

\* Rows that do not change keep their mark.
LEMMA StillRows ==
  ASSUME IInv, UNCHANGED <<job, delivery>>
  PROVE  \A j \in Job : RowSteps(j)
  BY DEF RowSteps, IInv, Marked

\* Every step maintains the invariant and has a lawful effect.
LEMMA StepKeeps ==
  ASSUME IInv, Fenced, [Next]_vars
  PROVE  IInv' /\ ((Once /\ ~Reload) => Once') /\ Effect
  <1>1. CASE UNCHANGED vars
    <2>1. StoreSteps
      BY <1>1, StillSteps DEF vars, store, IInv
    <2>2. TabSteps
      BY <1>1, TabsRest DEF vars, browser, page
    <2> QED BY <2>1, <2>2, QuietFrom, QuietEffect
  <1>2. ASSUME NEW j \in Job,
               \/ Submit(j) \/ StoreResult(j) \/ Cancel(j) \/ Look
               \/ Lapse(j, "lease") \/ Lapse(j, "deadline")
        PROVE  IInv' /\ ((Once /\ ~Reload) => Once') /\ Effect
    BY <1>2, CallsQuiet, QuietEffect
  <1>3. CASE Look
    <2>1. PICK j \in Job : Expired(j)
      BY <1>3 DEF Look
    <2> QED BY <1>2, <1>3, <2>1
  <1>4. ASSUME NEW m \in net, DeliverSending(m)
        PROVE  IInv' /\ ((Once /\ ~Reload) => Once') /\ Effect
    <2>1. CASE ~SendingAccepted(m)
      BY <1>4, <2>1, RefusedQuiet, QuietEffect
    <2>2. CASE SendingAccepted(m)
      BY <1>4, <2>2, ClearedBySending DEF Effect, IInv, Receipts
    <2> QED BY <2>1, <2>2
  <1>5. ASSUME NEW m \in net, DeliverReceipt(m)
        PROVE  IInv' /\ ((Once /\ ~Reload) => Once') /\ Effect
    BY <1>5, ReceiptConfirms DEF Effect
  <1>6. ASSUME NEW m \in net, Lose(m)
        PROVE  IInv' /\ ((Once /\ ~Reload) => Once') /\ Effect
    BY <1>6, LostQuiet, QuietEffect
  <1>7. ASSUME NEW t \in Tab, Poll(t) \/ Report(t) \/ Renew(t) \/ Alarm(t) \/ Resume(t)
        PROVE  IInv' /\ ((Once /\ ~Reload) => Once') /\ Effect
    BY <1>7, LeasesQuiet, ResumeQuiet, QuietEffect
  <1>8. ASSUME NEW t \in Tab,
               \/ Reserve(t) \/ GiveUp(t) \/ Sent(t) \/ Abort(t) \/ Finish(t) \/ Release(t)
               \/ Restart
        PROVE  IInv' /\ ((Once /\ ~Reload) => Once') /\ Effect
    BY <1>8, TabsQuiet, QuietEffect
  <1>9. CASE Restart
    <2>1. PICK t \in Tab : sw[t] # Idle
      BY <1>9 DEF Restart
    <2> QED BY <1>8, <1>9, <2>1
  <1>10. ASSUME NEW t \in Tab, Ask(t) \/ AskAgain(t) \/ Replace(t) \/ Record(t)
         PROVE  IInv' /\ ((Once /\ ~Reload) => Once') /\ Effect
    <2>1. IInv' /\ ((Once /\ ~Reload) => Once') /\ UNCHANGED <<job, delivery, messages>>
      BY <1>10, Asks, AsksAgain, Replaces, Records
    <2> QED BY <2>1, StillRows DEF Effect, IInv, Receipts
  <1>11. ASSUME NEW t \in Tab, NEW j \in Job, Click(t, j)
         PROVE  IInv' /\ ((Once /\ ~Reload) => Once') /\ Effect
    <2>1. /\ IInv' /\ ((Once /\ ~Reload) => Once')
          /\ UNCHANGED <<job, delivery>>
          /\ job[j].may_have_sent
          /\ \/ UNCHANGED messages
             \/ messages' = [messages EXCEPT ![j] = @ + 1] /\ (Once => messages[j] = 0)
      BY <1>11, Clicks DEF Cleared
    <2>2. \/ UNCHANGED messages
          \/ /\ UNCHANGED job
             /\ \E k \in Job : /\ messages' = [messages EXCEPT ![k] = @ + 1]
                               /\ job[k].may_have_sent
                               /\ Once => messages[k] = 0
      BY <2>1
    <2> QED BY <2>1, <2>2, StillRows DEF Effect, IInv, Receipts
  <1> QED
    BY <1>1, <1>2, <1>3, <1>4, <1>5, <1>6, <1>7, <1>8, <1>9, <1>10, <1>11
    DEF Next, Host, Extension

\* The initial state satisfies the invariant.
LEMMA InitInv ==
  ASSUME Init
  PROVE  IInv /\ Once
  <1>1. TypeOK
    <2>1. job \in [Job -> Row]
      <3>1. 0 \in Lease /\ 0 \in 0 .. MaxRequeues
        BY RelayAssumption DEF RelayAssumption, Lease
      <3>2. [state |-> "none", worker |-> Nobody, lease |-> 0, phase |-> "",
             may_have_sent |-> FALSE, requeues |-> 0] \in Row
        BY <3>1 DEF Row
      <3> QED BY <3>2 DEF Init
    <2>2. sw \in [Tab -> Worker]
      <3>1. Idle \in Worker
        BY RelayAssumption DEF RelayAssumption, Idle, Worker, Step, Lease
      <3> QED BY <3>1 DEF Init
    <2>3. restarts \in 0 .. MaxRestarts
      <3>1. MaxRestarts \in Nat /\ restarts = 0
        BY RelayAssumption DEF RelayAssumption, Init
      <3> QED BY <3>1
    <2> QED BY <2>1, <2>2, <2>3 DEF Init, TypeOK
  <1>2. \A t \in Tab : sw[t].step = "idle"
    BY DEF Init, Idle
  <1>3. Busied /\ MayClick
    BY <1>2 DEF Busied, MayClick
  <1>4. Fresh /\ Pages /\ Marked
    BY DEF Init, Fresh, Pages, Marked
  <1>6. \A j \in Job : messages[j] = 0 /\ delivery[j] = "absent"
    BY DEF Init
  <1>7. Posted /\ Receipts /\ OneIntent
    <2>1. net = {}
      BY DEF Init
    <2>2. Posted /\ Receipts
      BY <1>6, <2>1 DEF Posted, Receipts
    <2>3. OneIntent
      BY <1>6 DEF OneIntent, Open
    <2> QED BY <2>2, <2>3
  <1>5. Once
    <2>1. \A t \in Tab : typing[t] = {}
      BY DEF Init
    <2> QED BY <1>2, <1>6, <2>1 DEF Once
  <1> QED BY <1>1, <1>3, <1>4, <1>5, <1>7 DEF IInv

\* The inductive invariant holds in every reachable state.
THEOREM Inductive ==
  ASSUME Fenced
  PROVE  Spec => []IInv
  <1>1. Init => IInv
    BY InitInv
  <1>2. IInv /\ [Next]_vars => IInv'
    BY StepKeeps
  <1> QED BY <1>1, <1>2, PTL DEF Spec

\* A conversation never holds two messages nobody has a receipt for, whatever
\* pages are replaced, workers restarted and requests lost.
THEOREM OneUnreconciledMessage ==
  ASSUME Fenced
  PROVE  Spec => []RelayInvariant
  <1>1. IInv => RelayInvariant
    BY DEF IInv, RelayInvariant, OneUnreconciled, Posted, OneIntent, Open, Intended
  <1> QED BY <1>1, Inductive, PTL

\* The caller of a job that failed unmarked may submit it again: nothing was
\* sent and nothing will be.
THEOREM RetryIsSafe ==
  ASSUME Fenced
  PROVE  Spec => []SafeToRetry
  <1>1. IInv => SafeToRetry
    BY DEF IInv, SafeToRetry, Posted, TypeOK
  <1> QED BY <1>1, Inductive, PTL

\* A receipt is recorded for a message that is in the conversation and is never
\* taken back.
THEOREM FinalReceipts ==
  ASSUME Fenced
  PROVE  Spec => ReceiptsAreFinal
  <1> DEFINE A == \A j \in Job :
                    /\ delivery'[j] = "sent" => (messages[j] > 0 /\ delivery[j] # "not_sent")
                    /\ delivery[j] = "sent" => delivery'[j] = "sent"
  <1>1. IInv /\ [Next]_vars => [A]_vars
    BY StepKeeps DEF Effect
  <1>2. Spec => [][A]_vars
    BY <1>1, Inductive, PTL DEF Spec
  <1> QED BY <1>2 DEF ReceiptsAreFinal

-----------------------------------------------------------------------------
(* The relay implements AtMostOnce while pages live.                       *)

\* One attempt for each message holds in every reachable state.
THEOREM OneAttempt ==
  ASSUME Fenced, ~Reload
  PROVE  Spec => [](IInv /\ Once)
  <1>1. Init => IInv /\ Once
    BY InitInv
  <1>2. IInv /\ Once /\ [Next]_vars => (IInv /\ Once)'
    BY StepKeeps
  <1> QED BY <1>1, <1>2, PTL DEF Spec

\* The message of a job is posted at most once.
THEOREM SentOnce ==
  ASSUME Fenced, ~Reload
  PROVE  Spec => []AtMostOneSend
  <1>1. IInv /\ Once => AtMostOneSend
    BY DEF IInv, TypeOK, Once, AtMostOneSend
  <1> QED BY <1>1, OneAttempt, PTL

\* A verdict is final, "no" is true, and a message is sent under an open or
\* uncertain verdict.
LEMMA StepImplements ==
  ASSUME IInv, Once, Effect
  PROVE  [Promise!Next]_(Promise!vars)
  <1> DEFINE v == [j \in Job |-> Verdict(j)]
             w == [j \in Job |-> Verdict(j)']
  <1>1. \A j \in Job : Verdict(j) \in Promise!Verdict /\ Verdict(j)' \in Promise!Verdict
    BY DEF Verdict, Promise!Verdict
  <1>2. CASE UNCHANGED messages
    <2>1. ASSUME NEW j \in Job
          PROVE  \/ w[j] = v[j]
                 \/ v[j] = "open" /\ (w[j] = "no" => messages[j] = 0)
      <3>1. CASE job[j].state \in Ended
        BY <3>1 DEF Effect, RowSteps, Verdict
      <3>2. CASE job[j].state \notin Ended
        <4>1. v[j] = "open"
          BY <3>2 DEF Verdict, Ended
        <4>2. w[j] = "no" => ~job'[j].may_have_sent
          BY DEF Verdict
        <4>3. ~job'[j].may_have_sent => ~job[j].may_have_sent
          BY DEF Effect, RowSteps
        <4>4. ~job[j].may_have_sent => messages[j] = 0
          BY DEF IInv, Posted, TypeOK
        <4> QED BY <4>1, <4>2, <4>3, <4>4
      <3> QED BY <3>1, <3>2
    <2>2. w \in [Job -> Promise!Verdict]
      BY <1>1
    <2>3. Promise!Close
      <3> HIDE DEF v, w
      <3>1. v = [j \in Job |-> Verdict(j)] /\ w = [j \in Job |-> Verdict(j)]'
        BY DEF v, w
      <3> QED BY <1>2, <2>1, <2>2, <3>1 DEF Promise!Close
    <2> QED BY <2>3 DEF Promise!Next
  <1>3. ASSUME NEW j \in Job, UNCHANGED job, job[j].may_have_sent, messages[j] = 0,
               messages' = [messages EXCEPT ![j] = @ + 1]
        PROVE  Promise!Perform(j)
    <2>1. v[j] # "no"
      BY <1>3 DEF Verdict
    <2>2. [i \in Job |-> Verdict(i)]' = v
      BY <1>3 DEF Verdict
    <2>3. messages' = [messages EXCEPT ![j] = 1]
      BY <1>3 DEF IInv, TypeOK
    <2> QED BY <1>3, <2>1, <2>2, <2>3 DEF Promise!Perform
  <1> QED BY <1>2, <1>3 DEF Effect, Promise!Next

\* The store and the extension implement AtMostOnce.
THEOREM Implementation ==
  ASSUME Fenced, ~Reload
  PROVE  Spec => ImplementsAtMostOnce
  <1>1. Init => Promise!Init
    <2> SUFFICES ASSUME Init PROVE Promise!Init
      OBVIOUS
    <2>1. \A j \in Job : Verdict(j) = "open"
      BY DEF Init, Verdict
    <2> QED BY <2>1 DEF Init, Promise!Init
  <1>2. IInv /\ Once /\ [Next]_vars => [Promise!Next]_(Promise!vars)
    BY StepKeeps, StepImplements
  <1> QED BY <1>1, <1>2, OneAttempt, PTL DEF Spec, ImplementsAtMostOnce, Promise!Spec
=============================================================================
