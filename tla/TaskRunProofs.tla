---------------------------- MODULE TaskRunProofs ----------------------------
(***************************************************************************)
(* Proofs about TaskRun, for every plan and all limits.                   *)
(*                                                                         *)
(* Three invariants, one on top of the other:                              *)
(*  - IInv holds in every run, with crashes, operators and other runs.     *)
(*    Each step of a pair of coroutines is an Operation on the queue and a *)
(*    Turn of its task, so the many actions reduce to a few cases.         *)
(*  - QInv adds that the indexes, leases and ledger of the queue are right *)
(*    (Accurate); it needs a run that is Orderly, because a crash loses    *)
(*    states the ledger was told of, and escalating a task no node can run *)
(*    leaves it QUEUED and in no index.                                    *)
(*  - AInv adds that the loop ends only when nothing works or waits; it    *)
(*    needs a run that is left Alone, because an operator or a lease of    *)
(*    another run can leave tasks behind which the end of the run cancels. *)
(***************************************************************************)
EXTENDS TaskRun, FiniteSetTheorems, TLAPS

-----------------------------------------------------------------------------
(* The operations of the queue *)

Working == {"RUNNING", "VALIDATING", "REPAIRING", "QUALITY_GATE", "MASTER_REVIEW"}
Waiting == {"PENDING", "QUEUED"}

\* What the indexes of the queue say of a task is so.
Indexes(q) ==
  /\ \A t \in q.ready : StatusOf(q, t) = "QUEUED"
  /\ \A t \in Task : q.blocked[t] # {} => StatusOf(q, t) = "PENDING"

\* A task that waits for nothing but its turn has its dependencies.
Founded(q) ==
  \A t \in Task : StatusOf(q, t) \in Waiting =>
    \A d \in Deps[t] : d \in q.blocked[t] \/ StatusOf(q, d) = "COMPLETED"

\* What an operation on t may do to a task: u keeps its state or, blocked so far,
\* is queued or fails; its resources stay; the ledger hears of just that.
Beside(q, p, u) ==
  /\ \/ StatusOf(p, u) = StatusOf(q, u)
     \/ StatusOf(q, u) = "PENDING" /\ StatusOf(p, u) \in {"QUEUED", "FAILED"}
  /\ p.held[u] = q.held[u]
  /\ p.ledger[u] = q.ledger[u] \/ p.ledger[u] \in {"QUEUED", "FAILED"}

\* A completed task stays completed and a cancelled one cancelled.
Final(q, p) ==
  \A u \in Task : StatusOf(q, u) \in {"COMPLETED", "CANCELLED"} => StatusOf(p, u) = StatusOf(q, u)

\* An operation on t leads from the queue q to the queue p.
Operation(q, p, t) ==
  /\ p \in Queue
  /\ Indexes(p)
  /\ Founded(q) => Founded(p)
  /\ Final(q, p)
  /\ \A u \in Task \ {t} : Beside(q, p, u)
  /\ p.held[t] \in {q.held[t], {}}

\* It leaves t itself as it was.
Leaves(q, p, t) ==
  StatusOf(p, t) = StatusOf(q, t) /\ p.ledger[t] = q.ledger[t] /\ p.held[t] = q.held[t]

-----------------------------------------------------------------------------
(* The parts of the operations *)

\* The state machine never lets a task out of COMPLETED or CANCELLED, and a task
\* that waits goes nowhere but to RUNNING or an end.
LEMMA Moving ==
  /\ \A s : CanMove("COMPLETED", s) => s = "COMPLETED"
  /\ \A s : CanMove("CANCELLED", s) => s = "CANCELLED"
  /\ \A s : CanMove("QUEUED", s) => s \in {"QUEUED", "RUNNING", "CANCELLED"}
  /\ \A s : CanMove("PENDING", s) => s \in {"PENDING", "QUEUED", "RUNNING", "FAILED", "CANCELLED"}
  /\ CanMove("QUEUED", "RUNNING") /\ CanMove("PENDING", "FAILED")
  /\ \A s \in Working : CanMove(s, "FAILED")
  /\ CanMove("MASTER_REVIEW", "COMPLETED")
BY DEF CanMove, Moves, Working

\* The fields of a queue.
LEMMA Fields ==
  ASSUME NEW q \in Queue
  PROVE  /\ q.task \in [Task -> TaskRecord] /\ q.ready \subseteq Task
         /\ q.blocked \in [Task -> SUBSET Task] /\ q.running \subseteq Task
         /\ q.held \in [Task -> SUBSET Resource]
         /\ q.lease \in [Resource -> Task \union {Free, Elsewhere}]
         /\ q.ledger \in [Task -> Status]
         /\ \A t \in Task : StatusOf(q, t) \in Status
BY DEF Queue, StatusOf, TaskRecord

\* Put changes the state of one task.
LEMMA PutFields ==
  ASSUME NEW q \in Queue, NEW t \in Task, NEW s \in Status
  PROVE  LET p == Put(q, t, s) IN
         /\ p \in Queue
         /\ \A u \in Task : StatusOf(p, u) = IF u = t THEN s ELSE StatusOf(q, u)
         /\ p.ready = q.ready /\ p.blocked = q.blocked /\ p.running = q.running
         /\ p.held = q.held /\ p.lease = q.lease /\ p.ledger = q.ledger
<1> DEFINE r == [q.task[t] EXCEPT !.status = s]
           task == [q.task EXCEPT ![t] = r]
           p == [q EXCEPT !.task = task]
<1>1. q.task \in [Task -> TaskRecord]
  BY Fields
<1>2. r \in TaskRecord /\ r.status = s
  BY <1>1 DEF TaskRecord
<1>3. task \in [Task -> TaskRecord] /\ task[t] = r /\ \A u \in Task \ {t} : task[u] = q.task[u]
  BY <1>1, <1>2
<1>4. Put(q, t, s) = p
  BY DEF Put
<1> HIDE DEF task, r
<1>5. p \in Queue /\ p.task = task
  BY <1>3 DEF Queue
<1>6. \A u \in Task : StatusOf(p, u) = IF u = t THEN s ELSE StatusOf(q, u)
  BY <1>2, <1>3, <1>5 DEF StatusOf
<1>7. /\ p.ready = q.ready /\ p.blocked = q.blocked /\ p.running = q.running
      /\ p.held = q.held /\ p.lease = q.lease /\ p.ledger = q.ledger
  BY DEF Queue
<1>8. QED
  BY <1>4, <1>5, <1>6, <1>7

\* LetGo takes its resources from one task.
LEMMA LetGoFields ==
  ASSUME NEW q \in Queue, NEW t \in Task
  PROVE  LET p == LetGo(q, t) IN
         /\ p \in Queue
         /\ \A u \in Task : StatusOf(p, u) = StatusOf(q, u)
         /\ p.task = q.task /\ p.ready = q.ready /\ p.blocked = q.blocked /\ p.ledger = q.ledger
         /\ p.running = q.running \ {t}
         /\ p.held = [q.held EXCEPT ![t] = {}]
         /\ \A r \in Resource : p.lease[r] = IF r \in q.held[t] /\ q.lease[r] = t THEN Free
                                             ELSE q.lease[r]
BY Fields DEF LetGo, Queue, StatusOf

\* Drop takes a task out of two indexes.
LEMMA DropFields ==
  ASSUME NEW q \in Queue, NEW t \in Task
  PROVE  LET p == Drop(q, t) IN
         /\ p \in Queue
         /\ \A u \in Task : StatusOf(p, u) = StatusOf(q, u)
         /\ p.task = q.task /\ p.ready = q.ready \ {t} /\ p.blocked = [q.blocked EXCEPT ![t] = {}]
         /\ p.running = q.running /\ p.held = q.held /\ p.lease = q.lease /\ p.ledger = q.ledger
BY Fields DEF Drop, Queue, StatusOf

\* Sync tells the ledger the state of one task.
LEMMA SyncFields ==
  ASSUME NEW q \in Queue, NEW t \in Task
  PROVE  LET p == Sync(q, t) IN
         /\ p \in Queue
         /\ \A u \in Task : StatusOf(p, u) = StatusOf(q, u)
         /\ p.ready = q.ready /\ p.blocked = q.blocked /\ p.running = q.running
         /\ p.held = q.held /\ p.lease = q.lease
         /\ \A u \in Task : p.ledger[u] = IF u = t THEN StatusOf(q, t) ELSE q.ledger[u]
BY Fields DEF Sync, Queue, StatusOf

\* q and p differ in counters and marks of tasks at most.
Same(q, p) ==
  /\ p \in Queue
  /\ \A u \in Task : StatusOf(p, u) = StatusOf(q, u)
  /\ p.ready = q.ready /\ p.blocked = q.blocked /\ p.running = q.running
  /\ p.held = q.held /\ p.lease = q.lease /\ p.ledger = q.ledger

\* A task keeps its state when its record is replaced by another of that state.
LEMMA RecordFields ==
  ASSUME NEW q \in Queue, NEW t \in Task, NEW r \in TaskRecord, r.status = q.task[t].status
  PROVE  Same(q, [q EXCEPT !.task = [q.task EXCEPT ![t] = r]])
<1> DEFINE task == [q.task EXCEPT ![t] = r]
           p == [q EXCEPT !.task = task]
<1>1. q.task \in [Task -> TaskRecord]
  BY Fields
<1>3. task \in [Task -> TaskRecord] /\ task[t] = r /\ \A u \in Task \ {t} : task[u] = q.task[u]
  BY <1>1
<1> HIDE DEF task
<1>5. p \in Queue /\ p.task = task
  BY <1>3 DEF Queue
<1>6. \A u \in Task : StatusOf(p, u) = StatusOf(q, u)
  BY <1>3, <1>5 DEF StatusOf
<1>7. /\ p.ready = q.ready /\ p.blocked = q.blocked /\ p.running = q.running
      /\ p.held = q.held /\ p.lease = q.lease /\ p.ledger = q.ledger
  BY DEF Queue
<1>8. QED
  BY <1>5, <1>6, <1>7 DEF Same, task

\* The counters and the mark of a timeout are no part of the state.
LEMMA MarkFields ==
  ASSUME NEW q \in Queue, NEW t \in Task, NEW n \in Nat
  PROVE  /\ Same(q, [q EXCEPT !.task[t].retries = @ + 1])
         /\ Same(q, [q EXCEPT !.task[t].repairs = n])
         /\ Same(q, [q EXCEPT !.task[t].uncertain = TRUE])
<1>1. q.task[t] \in TaskRecord
  BY Fields
<1>2. /\ [q.task[t] EXCEPT !.retries = q.task[t].retries + 1] \in TaskRecord
      /\ [q.task[t] EXCEPT !.repairs = n] \in TaskRecord
      /\ [q.task[t] EXCEPT !.uncertain = TRUE] \in TaskRecord
  <2>1. PICK r \in TaskRecord : r = q.task[t]
    BY <1>1
  <2>2. r.retries + 1 \in Nat
    BY DEF TaskRecord
  <2>3. PICK k \in Nat : k = r.retries + 1
    BY <2>2
  <2>4. [r EXCEPT !.retries = k] \in TaskRecord
    BY DEF TaskRecord
  <2>5. [r EXCEPT !.repairs = n] \in TaskRecord /\ [r EXCEPT !.uncertain = TRUE] \in TaskRecord
    BY DEF TaskRecord
  <2>6. QED
    BY <2>1, <2>3, <2>4, <2>5
<1>3. /\ [q.task[t] EXCEPT !.retries = @ + 1].status = q.task[t].status
      /\ [q.task[t] EXCEPT !.repairs = n].status = q.task[t].status
      /\ [q.task[t] EXCEPT !.uncertain = TRUE].status = q.task[t].status
  BY <1>1 DEF TaskRecord
<1>4. Same(q, [q EXCEPT !.task = [q.task EXCEPT ![t] = [q.task[t] EXCEPT !.retries = @ + 1]]])
  BY <1>2, <1>3, RecordFields
<1>5. Same(q, [q EXCEPT !.task = [q.task EXCEPT ![t] = [q.task[t] EXCEPT !.repairs = n]]])
  BY <1>2, <1>3, RecordFields
<1>6. Same(q, [q EXCEPT !.task = [q.task EXCEPT ![t] = [q.task[t] EXCEPT !.uncertain = TRUE]]])
  BY <1>2, <1>3, RecordFields
<1>7. QED
  BY <1>4, <1>5, <1>6

\* Operations on one task follow one another.
LEMMA Compose ==
  ASSUME NEW q, NEW o, NEW p, NEW t \in Task, Operation(q, o, t), Operation(o, p, t)
  PROVE  Operation(q, p, t)
<1>1. Final(q, p)
  BY DEF Operation, Final
<1>2. \A u \in Task \ {t} : Beside(q, p, u)
  BY DEF Operation, Beside
<1>3. QED
  BY <1>1, <1>2 DEF Operation

\* The elementary change of a queue concerns one task, which keeps its state and
\* its place in the indexes, or leaves them for a state in which it does not wait.
LEMMA Elementary ==
  ASSUME NEW q \in Queue, NEW p \in Queue, NEW t \in Task, Indexes(q),
         \A u \in Task \ {t} :
           /\ StatusOf(p, u) = StatusOf(q, u) /\ p.held[u] = q.held[u]
           /\ p.blocked[u] = q.blocked[u] /\ p.ledger[u] = q.ledger[u],
         p.ready \subseteq q.ready,
         p.held[t] \in {q.held[t], {}},
         \/ StatusOf(p, t) = StatusOf(q, t) /\ p.blocked[t] = q.blocked[t]
         \/ /\ StatusOf(p, t) \notin Waiting /\ t \notin p.ready /\ p.blocked[t] = {}
            /\ StatusOf(q, t) \in {"COMPLETED", "CANCELLED"} => StatusOf(p, t) = StatusOf(q, t)
  PROVE  Operation(q, p, t)
<1>1. Indexes(p)
  BY Fields DEF Indexes, Waiting
<1>2. Final(q, p) /\ \A u \in Task \ {t} : Beside(q, p, u)
  BY DEF Final, Beside
<1>3. ASSUME Founded(q) PROVE Founded(p)
  <2>1. SUFFICES ASSUME NEW u \in Task, StatusOf(p, u) \in Waiting, NEW d \in Deps[u],
                        d \notin p.blocked[u]
                 PROVE  StatusOf(p, d) = "COMPLETED"
    BY DEF Founded
  <2>2. StatusOf(q, u) \in Waiting /\ d \notin q.blocked[u] /\ d \in Task
    BY <2>1, QueueAssumption
  <2>3. StatusOf(q, d) = "COMPLETED"
    BY <1>3, <2>2 DEF Founded
  <2>4. QED
    BY <1>2, <2>2, <2>3 DEF Final
<1>4. QED
  BY <1>1, <1>2, <1>3 DEF Operation

\* A queue that differs in counters only is the result of an operation.
LEMMA SameOperation ==
  ASSUME NEW q \in Queue, NEW p, NEW t \in Task, Indexes(q), Same(q, p)
  PROVE  Operation(q, p, t) /\ Leaves(q, p, t)
BY Elementary DEF Leaves, Same

\* So are the elementary changes of a queue, where its indexes permit them.
LEMMA LetGoOperation ==
  ASSUME NEW q \in Queue, NEW t \in Task, Indexes(q)
  PROVE  LET p == LetGo(q, t) IN
         /\ Operation(q, p, t)
         /\ StatusOf(p, t) = StatusOf(q, t) /\ p.ledger[t] = q.ledger[t] /\ p.held[t] = {}
<1>1. PICK p : p = LetGo(q, t)
  OBVIOUS
<1>2. /\ p \in Queue
      /\ \A u \in Task : StatusOf(p, u) = StatusOf(q, u)
      /\ p.ready = q.ready /\ p.blocked = q.blocked /\ p.ledger = q.ledger
      /\ p.held = [q.held EXCEPT ![t] = {}]
  BY <1>1, LetGoFields
<1>3. p.held[t] = {} /\ \A u \in Task \ {t} : p.held[u] = q.held[u]
  BY <1>2, Fields
<1>4. Operation(q, p, t)
  BY <1>2, <1>3, Elementary
<1>5. QED
  BY <1>1, <1>2, <1>3, <1>4

\* Telling the ledger.
LEMMA SyncOperation ==
  ASSUME NEW q \in Queue, NEW t \in Task, Indexes(q)
  PROVE  LET p == Sync(q, t) IN
         /\ Operation(q, p, t)
         /\ StatusOf(p, t) = StatusOf(q, t) /\ p.ledger[t] = StatusOf(q, t)
         /\ p.held[t] = q.held[t]
<1>1. PICK p : p = Sync(q, t)
  OBVIOUS
<1>2. /\ p \in Queue
      /\ \A u \in Task : StatusOf(p, u) = StatusOf(q, u)
      /\ p.ready = q.ready /\ p.blocked = q.blocked /\ p.held = q.held
      /\ \A u \in Task : p.ledger[u] = IF u = t THEN StatusOf(q, t) ELSE q.ledger[u]
  BY <1>1, SyncFields
<1>4. Operation(q, p, t)
  BY <1>2, Elementary
<1>5. QED
  BY <1>1, <1>2, <1>4

\* A task goes from a state in which it does not wait to another such state, and not
\* out of a final one.
LEMMA PutOperation ==
  ASSUME NEW q \in Queue, NEW t \in Task, NEW s \in Status \ Waiting, Indexes(q),
         StatusOf(q, t) \notin Waiting,
         StatusOf(q, t) \in {"COMPLETED", "CANCELLED"} => s = StatusOf(q, t)
  PROVE  LET p == Put(q, t, s) IN
         /\ Operation(q, p, t)
         /\ StatusOf(p, t) = s /\ p.ledger[t] = q.ledger[t] /\ p.held[t] = q.held[t]
<1>2. PICK p : p = Put(q, t, s)
  OBVIOUS
<1>3. /\ p \in Queue
      /\ \A u \in Task : StatusOf(p, u) = IF u = t THEN s ELSE StatusOf(q, u)
      /\ p.ready = q.ready /\ p.blocked = q.blocked /\ p.held = q.held /\ p.ledger = q.ledger
  BY <1>2, PutFields
<1>4. t \notin q.ready /\ q.blocked[t] = {}
  BY DEF Indexes, Waiting
<1>5. Operation(q, p, t)
  BY <1>3, <1>4, Elementary
<1>6. QED
  BY <1>2, <1>3, <1>5

\* A task that is not blocked leaves the ready queue.
LEMMA DropOperation ==
  ASSUME NEW q \in Queue, NEW t \in Task, Indexes(q), q.blocked[t] = {}
  PROVE  Operation(q, Drop(q, t), t) /\ Leaves(q, Drop(q, t), t)
<1>1. PICK p : p = Drop(q, t)
  OBVIOUS
<1>2. /\ p \in Queue
      /\ \A u \in Task : StatusOf(p, u) = StatusOf(q, u)
      /\ p.ready \subseteq q.ready /\ p.blocked = [q.blocked EXCEPT ![t] = {}]
      /\ p.held = q.held /\ p.ledger = q.ledger
  BY <1>1, DropFields
<1>3. \A u \in Task : p.blocked[u] = q.blocked[u]
  BY <1>2, Fields
<1>4. Operation(q, p, t)
  BY <1>2, <1>3, Elementary
<1>5. QED
  BY <1>1, <1>2, <1>4 DEF Leaves

\* A task leaves both indexes for a state in which it does not wait.
LEMMA DropPutOperation ==
  ASSUME NEW q \in Queue, NEW t \in Task, NEW s \in Status \ Waiting, Indexes(q),
         StatusOf(q, t) \notin {"COMPLETED", "CANCELLED"}
  PROVE  LET p == Put(Drop(q, t), t, s) IN
         /\ Operation(q, p, t)
         /\ StatusOf(p, t) = s /\ p.ledger[t] = q.ledger[t] /\ p.held[t] = q.held[t]
<1>1. PICK d : d = Drop(q, t)
  OBVIOUS
<1>2. /\ d \in Queue
      /\ \A u \in Task : StatusOf(d, u) = StatusOf(q, u)
      /\ d.ready = q.ready \ {t} /\ d.blocked = [q.blocked EXCEPT ![t] = {}]
      /\ d.held = q.held /\ d.ledger = q.ledger
  BY <1>1, DropFields
<1>3. PICK p : p = Put(d, t, s)
  OBVIOUS
<1>4. /\ p \in Queue
      /\ \A u \in Task : StatusOf(p, u) = IF u = t THEN s ELSE StatusOf(q, u)
      /\ p.ready = q.ready \ {t} /\ p.blocked = [q.blocked EXCEPT ![t] = {}]
      /\ p.held = q.held /\ p.ledger = q.ledger
  BY <1>2, <1>3, PutFields
<1>5. p.blocked[t] = {} /\ \A u \in Task \ {t} : p.blocked[u] = q.blocked[u]
  BY <1>4, Fields
<1>6. Operation(q, p, t)
  BY <1>4, <1>5, Elementary
<1>7. QED
  BY <1>1, <1>3, <1>4, <1>6

\* The tasks of D, all of them blocked, fail; the ledger hears of it or not.
Fails(q, p, D) ==
  /\ p \in Queue
  /\ D \subseteq Blocked(q)
  /\ \A u \in Task : StatusOf(p, u) = IF u \in D THEN "FAILED" ELSE StatusOf(q, u)
  /\ \A u \in Task : p.blocked[u] = IF u \in D THEN {} ELSE q.blocked[u]
  /\ \A u \in Task : p.ledger[u] = q.ledger[u] \/ (u \in D /\ p.ledger[u] = "FAILED")
  /\ p.ready = q.ready /\ p.running = q.running /\ p.held = q.held /\ p.lease = q.lease

\* Fail does so for any set of blocked tasks, and tells the ledger of each.
LEMMA FailFields ==
  ASSUME NEW q \in Queue, NEW D \in SUBSET Blocked(q)
  PROVE  LET p == Fail(q, D) IN
         /\ Fails(q, p, D)
         /\ \A u \in D : p.ledger[u] = "FAILED"
<1> DEFINE task == [t \in Task |-> IF t \in D THEN [q.task[t] EXCEPT !.status = "FAILED"]
                                   ELSE q.task[t]]
           blocked == [t \in Task |-> IF t \in D THEN {} ELSE q.blocked[t]]
           ledger == [t \in Task |-> IF t \in D THEN "FAILED" ELSE q.ledger[t]]
           p == [q EXCEPT !.task = task, !.blocked = blocked, !.ledger = ledger]
<1>1. D \subseteq Task
  BY DEF Blocked
<1>2. task \in [Task -> TaskRecord]
  BY Fields DEF TaskRecord, Status
<1>3. blocked \in [Task -> SUBSET Task] /\ ledger \in [Task -> Status]
  BY Fields DEF Status
<1>4. \A t \in Task : task[t].status = IF t \in D THEN "FAILED" ELSE q.task[t].status
  <2>1. SUFFICES ASSUME NEW t \in Task
                 PROVE  task[t].status = IF t \in D THEN "FAILED" ELSE q.task[t].status
    OBVIOUS
  <2>2. PICK r \in TaskRecord : r = q.task[t]
    BY Fields
  <2>3. [r EXCEPT !.status = "FAILED"].status = "FAILED"
    BY DEF TaskRecord
  <2>4. QED
    BY <2>2, <2>3
<1>5. /\ \A t \in Task : blocked[t] = IF t \in D THEN {} ELSE q.blocked[t]
      /\ \A t \in Task : ledger[t] = IF t \in D THEN "FAILED" ELSE q.ledger[t]
  OBVIOUS
<1>6. Fail(q, D) = p
  BY DEF Fail
<1> HIDE DEF task, blocked, ledger
<1>7. /\ p \in Queue
      /\ p.task = task /\ p.blocked = blocked /\ p.ledger = ledger
      /\ p.ready = q.ready /\ p.running = q.running /\ p.held = q.held /\ p.lease = q.lease
  BY <1>2, <1>3 DEF Queue
<1> HIDE DEF p
<1>8. QED
  BY <1>1, <1>4, <1>5, <1>6, <1>7 DEF Fails, StatusOf

\* What the cascade of failures does, whether it is refused halfway or not.
LEMMA CascadeFails ==
  ASSUME NEW q \in Queue, NEW o \in Cascade(q)
  PROVE  /\ \E D \in SUBSET Blocked(q) : Fails(q, o.q, D)
         /\ (\A b \in Blocked(q) : ~Refuses(q, b, "FAILED")) => o = Ok(Fail(q, Doomed(q)))
<1> DEFINE refused == {b \in Doomed(q) : Refuses(q, b, "FAILED")}
<1>1. Doomed(q) \in SUBSET Blocked(q) /\ Blocked(q) \subseteq Task
  BY DEF Doomed, Blocked
<1>2. CASE refused = {}
  <2>1. o = Ok(Fail(q, Doomed(q)))
    BY <1>2 DEF Cascade
  <2>2. Fails(q, o.q, Doomed(q))
    BY <1>1, <2>1, FailFields DEF Ok
  <2>3. QED
    BY <1>1, <2>1, <2>2
<1>3. CASE refused # {}
  <2>1. PICK D \in SUBSET Doomed(q), b \in Doomed(q) :
          /\ o = Raise([Fail(q, D \union {b}) EXCEPT !.ledger[b] = q.ledger[b]])
          /\ Refuses(q, b, "FAILED")
    BY <1>3 DEF Cascade
  <2>2. PICK C \in SUBSET Blocked(q) : C = D \union {b}
    BY <1>1
  <2>3. PICK f : f = Fail(q, C)
    OBVIOUS
  <2>4. Fails(q, f, C)
    BY <2>3, FailFields
  <2>5. PICK ledger \in [Task -> Status] : ledger = [f.ledger EXCEPT ![b] = q.ledger[b]]
    BY <1>1, <2>4, Fields DEF Fails
  <2>6. o.q = [f EXCEPT !.ledger = ledger]
    BY <2>1, <2>2, <2>3, <2>5 DEF Raise
  <2>7. /\ o.q \in Queue
        /\ o.q.task = f.task /\ o.q.blocked = f.blocked /\ o.q.ledger = ledger
        /\ o.q.ready = f.ready /\ o.q.running = f.running /\ o.q.held = f.held
        /\ o.q.lease = f.lease
    BY <2>4, <2>6 DEF Queue, Fails
  <2>8. \A u \in Task : ledger[u] = q.ledger[u] \/ (u \in C /\ ledger[u] = "FAILED")
    BY <2>4, <2>5, Fields DEF Fails
  <2>9. Fails(q, o.q, C)
    BY <2>4, <2>7, <2>8 DEF Fails, StatusOf
  <2>10. QED
    BY <1>1, <2>1, <2>9
<1>4. QED
  BY <1>2, <1>3

\* It is an operation on no task in particular.
LEMMA CascadeOperation ==
  ASSUME NEW q \in Queue, NEW t \in Task, Indexes(q), NEW o \in Cascade(q)
  PROVE  Operation(q, o.q, t) /\ (StatusOf(q, t) # "PENDING" => Leaves(q, o.q, t))
<1>1. PICK p : p = o.q
  OBVIOUS
<1>2. PICK D \in SUBSET Blocked(q) : Fails(q, p, D)
  BY <1>1, CascadeFails
<1>3. D \subseteq Task /\ \A u \in D : StatusOf(q, u) = "PENDING" /\ u \notin q.ready
  BY DEF Indexes, Blocked
<1>4. Indexes(p)
  BY <1>2, <1>3, Fields DEF Fails, Indexes
<1>5. Final(q, p) /\ \A u \in Task : Beside(q, p, u)
  BY <1>2, <1>3 DEF Fails, Final, Beside
<1>6. ASSUME Founded(q) PROVE Founded(p)
  <2>1. SUFFICES ASSUME NEW u \in Task, StatusOf(p, u) \in Waiting, NEW d \in Deps[u],
                        d \notin p.blocked[u]
                 PROVE  StatusOf(p, d) = "COMPLETED"
    BY DEF Founded
  <2>2. u \notin D /\ StatusOf(q, u) \in Waiting /\ d \notin q.blocked[u] /\ d \in Task
    BY <1>2, <2>1, QueueAssumption DEF Fails, Waiting
  <2>3. StatusOf(q, d) = "COMPLETED"
    BY <1>6, <2>2 DEF Founded
  <2>4. QED
    BY <1>5, <2>2, <2>3 DEF Final
<1>7. p \in Queue /\ p.held = q.held
  BY <1>2 DEF Fails
<1>8. Operation(q, p, t)
  BY <1>4, <1>5, <1>6, <1>7 DEF Operation
<1>9. StatusOf(q, t) # "PENDING" => Leaves(q, p, t)
  BY <1>2, <1>3 DEF Leaves, Fails
<1>10. QED
  BY <1>1, <1>8, <1>9

\* The tasks of D, which waited for t alone, are queued; nobody waits for t any
\* more; the ledger hears of it or not.
Frees(q, p, t, D) ==
  /\ p \in Queue
  /\ \A u \in D : u \in Task /\ q.blocked[u] = {t}
  /\ \A u \in Task : StatusOf(p, u) = IF u \in D THEN "QUEUED" ELSE StatusOf(q, u)
  /\ \A u \in Task : p.blocked[u] = q.blocked[u] \ {t}
  /\ \A u \in Task : p.ledger[u] = q.ledger[u] \/ (u \in D /\ p.ledger[u] = "QUEUED")
  /\ p.ready = q.ready \union D
  /\ p.running = q.running /\ p.held = q.held /\ p.lease = q.lease

\* What the completion of t does to the tasks that wait for it.
LEMMA UnblockFrees ==
  ASSUME NEW q \in Queue, NEW t \in Task, NEW o \in Unblock(q, t)
  PROVE  /\ \E D \in SUBSET Task : Frees(q, o.q, t, D)
         /\ (\A b \in Blocked(q) : ~Refuses(q, b, "QUEUED"))
              => /\ o.ok
                 /\ LET freed == {b \in Blocked(q) : q.blocked[b] = {t}} IN
                    /\ Frees(q, o.q, t, freed)
                    /\ \A b \in freed : o.q.ledger[b] = "QUEUED"
<1> DEFINE freed == {b \in Blocked(q) : q.blocked[b] = {t}}
           refused == {b \in freed : Refuses(q, b, "QUEUED")}
           task(D) == [b \in Task |-> IF b \in D THEN [q.task[b] EXCEPT !.status = "QUEUED"]
                                      ELSE q.task[b]]
           blocked == [b \in Task |-> q.blocked[b] \ {t}]
           ledger(D) == [b \in Task |-> IF b \in D \ refused THEN "QUEUED" ELSE q.ledger[b]]
           queued(D) == [q EXCEPT !.task = task(D), !.ready = q.ready \union D,
                                  !.blocked = blocked, !.ledger = ledger(D)]
<1>1. ASSUME NEW D \in SUBSET freed
      PROVE  /\ Frees(q, queued(D), t, D)
             /\ \A b \in D \ refused : queued(D).ledger[b] = "QUEUED"
  <2>1. D \subseteq Task /\ \A u \in D : q.blocked[u] = {t}
    BY DEF Blocked
  <2>2. task(D) \in [Task -> TaskRecord]
    <3>1. SUFFICES ASSUME NEW b \in Task
                   PROVE  (IF b \in D THEN [q.task[b] EXCEPT !.status = "QUEUED"] ELSE q.task[b])
                            \in TaskRecord
      OBVIOUS
    <3>2. PICK r \in TaskRecord : r = q.task[b]
      BY Fields
    <3>3. [r EXCEPT !.status = "QUEUED"] \in TaskRecord
      BY DEF TaskRecord, Status
    <3>4. QED
      BY <3>2, <3>3
  <2>3. blocked \in [Task -> SUBSET Task] /\ ledger(D) \in [Task -> Status]
    BY Fields DEF Status
  <2>4. \A b \in Task : task(D)[b].status = IF b \in D THEN "QUEUED" ELSE q.task[b].status
    <3>1. SUFFICES ASSUME NEW b \in Task
                   PROVE  task(D)[b].status = IF b \in D THEN "QUEUED" ELSE q.task[b].status
      OBVIOUS
    <3>2. PICK r \in TaskRecord : r = q.task[b]
      BY Fields
    <3>3. [r EXCEPT !.status = "QUEUED"].status = "QUEUED"
      BY DEF TaskRecord
    <3>4. QED
      BY <3>2, <3>3
  <2>5. /\ \A b \in Task : blocked[b] = q.blocked[b] \ {t}
        /\ \A b \in Task : ledger(D)[b] = IF b \in D \ refused THEN "QUEUED" ELSE q.ledger[b]
    OBVIOUS
  <2>6. PICK T, B, L : T = task(D) /\ B = blocked /\ L = ledger(D)
    OBVIOUS
  <2>7. PICK p : p = [q EXCEPT !.task = T, !.ready = q.ready \union D, !.blocked = B,
                               !.ledger = L]
    OBVIOUS
  <2> HIDE DEF task, blocked, ledger, refused
  <2>8. q.ready \union D \subseteq Task
    BY <2>1, Fields
  <2>9. /\ p \in Queue
        /\ p.task = T /\ p.blocked = B /\ p.ledger = L /\ p.ready = q.ready \union D
        /\ p.running = q.running /\ p.held = q.held /\ p.lease = q.lease
    BY <2>2, <2>3, <2>6, <2>7, <2>8 DEF Queue
  <2>10. queued(D) = p
    BY <2>6, <2>7
  <2> HIDE DEF queued
  <2>11. QED
    BY <2>1, <2>4, <2>5, <2>6, <2>9, <2>10 DEF Frees, StatusOf
<1>2. freed \subseteq Task
  BY DEF Blocked
<1>3. CASE refused = {}
  <2>1. o = Ok(queued(freed))
    BY <1>3 DEF Unblock
  <2>2. QED
    BY <1>1, <1>2, <1>3, <2>1 DEF Ok
<1>4. CASE refused # {}
  <2>1. PICK D \in SUBSET freed : o = Raise(queued(D))
    BY <1>4 DEF Unblock
  <2>2. Frees(q, o.q, t, D)
    BY <1>1, <2>1 DEF Raise
  <2>3. ~\A x \in Blocked(q) : ~Refuses(q, x, "QUEUED")
    BY <1>4
  <2>4. QED
    BY <1>2, <2>1, <2>2, <2>3
<1>5. QED
  BY <1>3, <1>4

\* When t has completed, that is an operation which leaves t alone.
LEMMA UnblockOperation ==
  ASSUME NEW q \in Queue, NEW t \in Task, Indexes(q), StatusOf(q, t) = "COMPLETED",
         NEW o \in Unblock(q, t)
  PROVE  Operation(q, o.q, t) /\ Leaves(q, o.q, t)
<1>1. PICK p : p = o.q
  OBVIOUS
<1>2. PICK D \in SUBSET Task : Frees(q, p, t, D)
  BY <1>1, UnblockFrees
<1>3. \A u \in D : StatusOf(q, u) = "PENDING"
  BY <1>2 DEF Frees, Indexes
<1>4. Indexes(p)
  BY <1>2, <1>3, Fields DEF Frees, Indexes
<1>5. Final(q, p) /\ \A u \in Task : Beside(q, p, u)
  BY <1>2, <1>3 DEF Frees, Final, Beside
<1>6. ASSUME Founded(q) PROVE Founded(p)
  <2>1. SUFFICES ASSUME NEW u \in Task, StatusOf(p, u) \in Waiting, NEW d \in Deps[u],
                        d \notin p.blocked[u]
                 PROVE  StatusOf(p, d) = "COMPLETED"
    BY DEF Founded
  <2>2. StatusOf(q, u) \in Waiting /\ d \in Task
    BY <1>2, <1>3, <2>1, QueueAssumption DEF Frees, Waiting
  <2>3. d = t \/ d \notin q.blocked[u]
    BY <1>2, <2>1 DEF Frees
  <2>4. StatusOf(q, d) = "COMPLETED"
    BY <1>6, <2>2, <2>3 DEF Founded
  <2>5. QED
    BY <1>5, <2>2, <2>4 DEF Final
<1>7. p \in Queue /\ p.held = q.held
  BY <1>2 DEF Frees
<1>8. Operation(q, p, t)
  BY <1>4, <1>5, <1>6, <1>7 DEF Operation
<1>9. Leaves(q, p, t)
  BY <1>2, <1>3 DEF Leaves, Frees
<1>10. QED
  BY <1>1, <1>8, <1>9

\* A task whose execution failed is queued again.
LEMMA AgainOperation ==
  ASSUME NEW q \in Queue, NEW t \in Task, Indexes(q), StatusOf(q, t) = "FAILED",
         \A d \in Deps[t] : StatusOf(q, d) = "COMPLETED"
  PROVE  LET p == [Sync(Put(q, t, "QUEUED"), t) EXCEPT !.ready = @ \union {t}] IN
         /\ Operation(q, p, t)
         /\ StatusOf(p, t) = "QUEUED" /\ p.ledger[t] = "QUEUED" /\ p.held[t] = q.held[t]
<1> DEFINE s == "QUEUED"
<1>1. s \in Status
  BY DEF Status
<1>2. PICK b : b = Put(q, t, s)
  OBVIOUS
<1>3. /\ b \in Queue
      /\ \A u \in Task : StatusOf(b, u) = IF u = t THEN "QUEUED" ELSE StatusOf(q, u)
      /\ b.ready = q.ready /\ b.blocked = q.blocked /\ b.held = q.held /\ b.ledger = q.ledger
  BY <1>1, <1>2, PutFields
<1>4. PICK c : c = Sync(b, t)
  OBVIOUS
<1>5. /\ c \in Queue
      /\ \A u \in Task : StatusOf(c, u) = IF u = t THEN "QUEUED" ELSE StatusOf(q, u)
      /\ c.ready = q.ready /\ c.blocked = q.blocked /\ c.held = q.held
      /\ \A u \in Task : c.ledger[u] = IF u = t THEN "QUEUED" ELSE q.ledger[u]
  BY <1>3, <1>4, SyncFields
<1>6. PICK p : p = [c EXCEPT !.ready = c.ready \union {t}]
  OBVIOUS
<1>7. /\ p \in Queue /\ p.ready = q.ready \union {t} /\ p.blocked = q.blocked
      /\ p.held = q.held /\ p.ledger = c.ledger /\ p.task = c.task
  BY <1>5, <1>6 DEF Queue
<1>8. \A u \in Task : StatusOf(p, u) = IF u = t THEN "QUEUED" ELSE StatusOf(q, u)
  BY <1>5, <1>7 DEF StatusOf
<1>9. q.blocked[t] = {}
  BY DEF Indexes
<1>10. Indexes(p)
  BY <1>7, <1>8, <1>9, Fields DEF Indexes
<1>11. Final(q, p) /\ \A u \in Task \ {t} : Beside(q, p, u)
  BY <1>5, <1>7, <1>8 DEF Final, Beside
<1>12. ASSUME Founded(q) PROVE Founded(p)
  <2>1. SUFFICES ASSUME NEW u \in Task, StatusOf(p, u) \in Waiting, NEW d \in Deps[u],
                        d \notin p.blocked[u]
                 PROVE  StatusOf(p, d) = "COMPLETED"
    BY DEF Founded
  <2>2. d \in Task
    BY QueueAssumption
  <2>3. StatusOf(q, d) = "COMPLETED"
    BY <1>7, <1>8, <1>12, <2>1 DEF Founded
  <2>4. QED
    BY <1>11, <2>2, <2>3 DEF Final
<1>13. Operation(q, p, t)
  BY <1>7, <1>10, <1>11, <1>12 DEF Operation
<1>14. QED
  BY <1>2, <1>4, <1>5, <1>6, <1>7, <1>8, <1>13

-----------------------------------------------------------------------------
(* The operations *)

\* mark_completed, of a task that does not wait.
LEMMA MarkCompletedOperation ==
  ASSUME NEW q \in Queue, NEW t \in Task, Indexes(q), StatusOf(q, t) \notin Waiting,
         NEW o \in MarkCompleted(q, t)
  PROVE  /\ Operation(q, o.q, t)
         /\ o.q.held[t] = {}
         /\ StatusOf(o.q, t) \in {StatusOf(q, t), "COMPLETED"}
         /\ CanMove(StatusOf(q, t), "COMPLETED") => StatusOf(o.q, t) = "COMPLETED"
<1>1. PICK a : a = LetGo(q, t)
  OBVIOUS
<1>2. /\ Operation(q, a, t)
      /\ StatusOf(a, t) = StatusOf(q, t) /\ a.held[t] = {}
  BY <1>1, LetGoOperation
<1>3. CASE ~CanMove(StatusOf(q, t), "COMPLETED")
  <2>1. o.q = a
    BY <1>1, <1>3 DEF MarkCompleted, Raise
  <2>2. QED
    BY <1>2, <1>3, <2>1
<1>4. CASE CanMove(StatusOf(q, t), "COMPLETED")
  <2> DEFINE s == "COMPLETED"
  <2>1. s \in Status \ Waiting
    BY DEF Status, Waiting
  <2>2. PICK b : b = Put(a, t, s)
    OBVIOUS
  <2>3. a \in Queue /\ Indexes(a)
    BY <1>2 DEF Operation
  <2>4. /\ Operation(a, b, t)
        /\ StatusOf(b, t) = "COMPLETED" /\ b.held[t] = {}
    BY <1>2, <1>4, <2>1, <2>2, <2>3, PutOperation, Moving
  <2>5. CASE Refuses(q, t, "COMPLETED")
    <3>1. o.q = b
      BY <1>1, <1>4, <2>2, <2>5 DEF MarkCompleted, Raise
    <3>2. QED
      BY <1>2, <2>4, <3>1, Compose
  <2>6. CASE ~Refuses(q, t, "COMPLETED")
    <3>1. PICK c : c = Sync(b, t)
      OBVIOUS
    <3>2. o \in Unblock(c, t)
      BY <1>1, <1>4, <2>2, <2>6, <3>1 DEF MarkCompleted
    <3>3. b \in Queue /\ Indexes(b)
      BY <2>4 DEF Operation
    <3>4. Operation(b, c, t) /\ StatusOf(c, t) = "COMPLETED" /\ c.held[t] = {}
      BY <2>4, <3>1, <3>3, SyncOperation
    <3>5. c \in Queue /\ Indexes(c)
      BY <3>4 DEF Operation
    <3>6. Operation(c, o.q, t) /\ Leaves(c, o.q, t)
      BY <3>2, <3>4, <3>5, UnblockOperation
    <3>7. StatusOf(o.q, t) = "COMPLETED" /\ o.q.held[t] = {}
      BY <3>4, <3>6 DEF Leaves
    <3>8. QED
      BY <1>2, <2>4, <3>4, <3>6, <3>7, Compose
  <2>7. QED
    BY <2>5, <2>6
<1>5. QED
  BY <1>3, <1>4

\* mark_failed, of a task whose dependencies have completed.
LEMMA MarkFailedOperation ==
  ASSUME NEW q \in Queue, NEW t \in Task, Indexes(q), StatusOf(q, t) # "PENDING",
         \A d \in Deps[t] : StatusOf(q, d) = "COMPLETED",
         NEW retryable \in BOOLEAN, NEW o \in MarkFailed(q, t, retryable)
  PROVE  /\ Operation(q, o.q, t)
         /\ o.q.held[t] = {}
         /\ StatusOf(o.q, t) \in {StatusOf(q, t), "FAILED", "QUEUED"}
         /\ StatusOf(o.q, t) = "QUEUED" => StatusOf(q, t) = "QUEUED" \/ (retryable /\ o.ok)
<1>1. PICK l : l = LetGo(q, t)
  OBVIOUS
<1>2. /\ Operation(q, l, t)
      /\ StatusOf(l, t) = StatusOf(q, t) /\ l.held[t] = {}
  BY <1>1, LetGoOperation
<1>3. l \in Queue /\ Indexes(l)
  BY <1>2 DEF Operation
<1>4. PICK a : a = [l EXCEPT !.task[t].retries = @ + 1]
  OBVIOUS
<1>5. Operation(l, a, t) /\ Leaves(l, a, t)
  BY <1>3, <1>4, MarkFields, SameOperation
<1>6. Operation(q, a, t) /\ StatusOf(a, t) = StatusOf(q, t) /\ a.held[t] = {}
  BY <1>2, <1>5, Compose DEF Leaves
<1>7. CASE ~CanMove(StatusOf(q, t), "FAILED")
  <2>1. o.q = a
    BY <1>1, <1>4, <1>7 DEF MarkFailed, Raise
  <2>2. QED
    BY <1>6, <2>1
<1>8. CASE CanMove(StatusOf(q, t), "FAILED")
  <2> DEFINE s == "FAILED"
  <2>1. s \in Status \ Waiting /\ StatusOf(a, t) \notin Waiting
    BY <1>6, <1>8, Moving DEF Status, Waiting
  <2>2. PICK b : b = Put(a, t, s)
    OBVIOUS
  <2>3. a \in Queue /\ Indexes(a)
    BY <1>6 DEF Operation
  <2>4. /\ Operation(a, b, t)
        /\ StatusOf(b, t) = "FAILED" /\ b.held[t] = {}
    BY <1>6, <1>8, <2>1, <2>2, <2>3, PutOperation, Moving
  <2>5. Operation(q, b, t) /\ b \in Queue /\ Indexes(b)
    BY <1>6, <2>4, Compose DEF Operation
  <2>6. CASE Refuses(q, t, "FAILED")
    <3>1. o.q = b
      BY <1>1, <1>4, <1>8, <2>2, <2>6 DEF MarkFailed, Raise
    <3>2. QED
      BY <2>4, <2>5, <3>1
  <2>7. CASE ~Refuses(q, t, "FAILED") /\ retryable /\ a.task[t].retries <= MaxRetries
    <3>1. o = Ok([Sync(Put(b, t, "QUEUED"), t) EXCEPT !.ready = @ \union {t}])
      BY <1>1, <1>4, <1>8, <2>2, <2>7 DEF MarkFailed
    <3>2. \A d \in Deps[t] : StatusOf(b, d) = "COMPLETED"
      BY <2>5, QueueAssumption DEF Operation, Final
    <3>3. /\ Operation(b, o.q, t)
          /\ StatusOf(o.q, t) = "QUEUED" /\ o.q.held[t] = {}
      BY <2>4, <2>5, <3>1, <3>2, AgainOperation DEF Ok
    <3>4. QED
      BY <2>5, <2>7, <3>1, <3>3, Compose DEF Ok
  <2>8. CASE ~Refuses(q, t, "FAILED") /\ ~(retryable /\ a.task[t].retries <= MaxRetries)
    <3>1. PICK c : c = Sync(b, t)
      OBVIOUS
    <3>2. o \in Cascade(c)
      BY <1>1, <1>4, <1>8, <2>2, <2>8, <3>1 DEF MarkFailed
    <3>4. Operation(b, c, t) /\ StatusOf(c, t) = "FAILED" /\ c.held[t] = {}
      BY <2>4, <2>5, <3>1, SyncOperation
    <3>5. c \in Queue /\ Indexes(c)
      BY <3>4 DEF Operation
    <3>6. Operation(c, o.q, t) /\ Leaves(c, o.q, t)
      BY <3>2, <3>4, <3>5, CascadeOperation
    <3>7. StatusOf(o.q, t) = "FAILED" /\ o.q.held[t] = {}
      BY <3>4, <3>6 DEF Leaves
    <3>8. QED
      BY <2>5, <3>4, <3>6, <3>7, Compose
  <2>9. QED
    BY <2>6, <2>7, <2>8
<1>9. QED
  BY <1>7, <1>8

\* mark_escalated, of a task that is not blocked.
LEMMA MarkEscalatedOperation ==
  ASSUME NEW q \in Queue, NEW t \in Task, Indexes(q), StatusOf(q, t) # "PENDING",
         NEW o \in MarkEscalated(q, t)
  PROVE  /\ Operation(q, o.q, t)
         /\ o.q.held[t] = {}
         /\ StatusOf(o.q, t) \in {StatusOf(q, t), "ESCALATED"}
<1>1. PICK a : a = LetGo(q, t)
  OBVIOUS
<1>2. /\ Operation(q, a, t)
      /\ StatusOf(a, t) = StatusOf(q, t) /\ a.held[t] = {}
  BY <1>1, LetGoOperation
<1>3. a \in Queue /\ Indexes(a)
  BY <1>2 DEF Operation
<1>4. PICK out : out = Drop(a, t)
  OBVIOUS
<1>5. CASE ~(CanMove(StatusOf(q, t), "ESCALATED") \/ CanMove(StatusOf(q, t), "FAILED"))
  <2>1. o.q = out
    BY <1>1, <1>4, <1>5 DEF MarkEscalated, Raise
  <2>2. a.blocked[t] = {}
    BY <1>2, <1>3 DEF Indexes
  <2>3. Operation(a, out, t) /\ Leaves(a, out, t)
    BY <1>3, <1>4, <2>2, DropOperation
  <2>4. QED
    BY <1>2, <2>1, <2>3, Compose DEF Leaves
<1>6. CASE CanMove(StatusOf(q, t), "ESCALATED") \/ CanMove(StatusOf(q, t), "FAILED")
  <2> DEFINE s == "ESCALATED"
  <2>1. s \in Status \ Waiting /\ StatusOf(a, t) \notin {"COMPLETED", "CANCELLED"}
    BY <1>2, <1>6, Moving DEF Status, Waiting
  <2>2. PICK b : b = Put(out, t, s)
    OBVIOUS
  <2>3. /\ Operation(a, b, t)
        /\ StatusOf(b, t) = "ESCALATED" /\ b.held[t] = {}
    BY <1>2, <1>3, <1>4, <2>1, <2>2, DropPutOperation
  <2>4. b \in Queue /\ Indexes(b)
    BY <2>3 DEF Operation
  <2>5. o \in Cascade(b)
    BY <1>1, <1>4, <1>6, <2>2 DEF MarkEscalated
  <2>6. Operation(b, o.q, t) /\ Leaves(b, o.q, t)
    BY <2>3, <2>4, <2>5, CascadeOperation
  <2>7. QED
    BY <1>2, <2>3, <2>6, Compose DEF Leaves
<1>7. QED
  BY <1>5, <1>6

\* mark_cancelled, of any task.
LEMMA MarkCancelledOperation ==
  ASSUME NEW q \in Queue, NEW t \in Task, Indexes(q), NEW o \in MarkCancelled(q, t)
  PROVE  /\ Operation(q, o.q, t)
         /\ IF StatusOf(q, t) \in {"COMPLETED", "CANCELLED"} THEN o = Ok(q)
            ELSE StatusOf(o.q, t) = "CANCELLED" /\ o.q.held[t] = {}
         /\ o.q.ledger[t] = q.ledger[t]
<1>1. CASE StatusOf(q, t) \in {"COMPLETED", "CANCELLED"}
  <2>1. o = Ok(q)
    BY <1>1 DEF MarkCancelled
  <2>2. Operation(q, q, t)
    BY SameOperation DEF Same
  <2>3. QED
    BY <1>1, <2>1, <2>2 DEF Ok
<1>2. CASE StatusOf(q, t) \notin {"COMPLETED", "CANCELLED"}
  <2>1. PICK a : a = LetGo(q, t)
    OBVIOUS
  <2>2. /\ Operation(q, a, t)
        /\ StatusOf(a, t) = StatusOf(q, t) /\ a.held[t] = {} /\ a.ledger[t] = q.ledger[t]
    BY <2>1, LetGoOperation
  <2>3. a \in Queue /\ Indexes(a)
    BY <2>2 DEF Operation
  <2> DEFINE s == "CANCELLED"
  <2>4. s \in Status \ Waiting
    BY DEF Status, Waiting
  <2>5. PICK b : b = Put(Drop(a, t), t, s)
    OBVIOUS
  <2>6. /\ Operation(a, b, t)
        /\ StatusOf(b, t) = "CANCELLED" /\ b.held[t] = {} /\ b.ledger[t] = q.ledger[t]
    BY <1>2, <2>2, <2>3, <2>4, <2>5, DropPutOperation
  <2>7. b \in Queue /\ Indexes(b)
    BY <2>6 DEF Operation
  <2>8. o \in Cascade(b)
    BY <1>2, <2>1, <2>5 DEF MarkCancelled
  <2>9. Operation(b, o.q, t) /\ Leaves(b, o.q, t)
    BY <2>6, <2>7, <2>8, CascadeOperation
  <2>10. QED
    BY <1>2, <2>2, <2>6, <2>9, Compose DEF Leaves
<1>3. QED
  BY <1>1, <1>2

-----------------------------------------------------------------------------
(* The inductive invariant *)

\* The state s of a task fits the place w of its coroutines: each await of the
\* inner one has its own state, unless somebody has cancelled the task meanwhile.
Fits(w, s) ==
  \/ s = "CANCELLED"
  \/ w \in {"spawned", "produce"} /\ s = "RUNNING"
  \/ w = "verify" /\ s = "VALIDATING"
  \/ w = "repair" /\ s = "REPAIRING"
  \/ w \in {"review", "integrate"} /\ s = "MASTER_REVIEW"
  \/ w = "expired" /\ s \in Working
  \/ w = "broken" /\ s \notin Waiting
  \/ w \in {"settled", "done", "raised"} /\ s # "PENDING"
  \/ w = "idle"

Staged == \A t \in Task : Fits(worker[t], StatusOf(queue, t))

\* Somebody works on t or is about to.
Engaged(t) == worker[t] \in Executing \union {"spawned", "expired"}

\* Resources are held as a whole, and never by tasks that clash.
Holdings ==
  /\ \A t \in Task : queue.held[t] \in {{}, Resources(t)}
  /\ \A t, u \in Task : t # u /\ queue.held[t] # {} /\ queue.held[u] # {} => ~Clash(t, u)

\* A task that is worked on holds its resources, unless it was cancelled, and a
\* task that was dispatched has its dependencies.
InHand ==
  \A t \in Task :
    /\ Engaged(t) /\ StatusOf(queue, t) # "CANCELLED" => queue.held[t] = Resources(t)
    /\ worker[t] # "idle" => \A d \in Deps[t] : StatusOf(queue, d) = "COMPLETED"

\* After the loop nobody works, and a crash ends cancel_all too.
Empty ==
  /\ loop \in {"saving", "ended", "down"} => \A t \in Task : worker[t] = "idle"
  /\ loop = "down" => sweep = {}

\* Without operators a task is cancelled by its own coroutines, which end with
\* it, or at the end.
Unasked ==
  ~Operators =>
    /\ ~stop
    /\ sweep # {} => loop = "saving"
    /\ \A t \in Task : Engaged(t) => StatusOf(queue, t) # "CANCELLED"

\* What the ledger has completed nobody works on.
Spent ==
  \A t \in Task : worker[t] \in Executing \union {"spawned"} => queue.ledger[t] # "COMPLETED"

Packed == MaxCrashes = 0 /\ ~Operators => PackagesAreCompleted
Alive == MaxCrashes = 0 => loop # "down"
Asked == MaxCrashes = 0 => \A t \in asked : StatusOf(queue, t) = "CANCELLED"

\* A crash now would interrupt t.
Begun(t) == worker[t] \in Executing \union {"expired", "broken"}

\* t acts outside, where nothing can be taken back.
Outside(t) == Scope[t] \in {"EXTERNAL", "EXCLUSIVE"}

\* tasks.json knows of every task that has begun, and what a crash interrupted
\* outside does not wait for its turn again.
Saved ==
  ~Operators /\ ~UpsertMayFail =>
    /\ \A t \in Task : Begun(t) => disk[t].status \notin Waiting
    /\ \A t \in lost : Outside(t) =>
         worker[t] = "idle" /\ StatusOf(queue, t) \notin Waiting /\ disk[t].status \notin Waiting

IInv ==
  /\ TypeOK
  /\ Indexes(queue)
  /\ loop # "down" => Founded(queue)
  /\ Holdings
  /\ Staged
  /\ InHand
  /\ Empty
  /\ Unasked
  /\ Spent
  /\ Packed
  /\ Alive
  /\ Asked
  /\ Saved

-----------------------------------------------------------------------------
(* A step of the coroutines of one task *)

\* The coroutines of t take a step: an operation on t, after which t has a state
\* that fits its new place.
Turn(t) ==
  /\ Yielded
  /\ Operation(queue, queue', t)
  /\ worker' \in [Task -> Worker]
  /\ worker[t] # "idle" /\ worker'[t] # "idle"
  /\ \A u \in Task \ {t} : worker'[u] = worker[u]
  /\ Fits(worker'[t], StatusOf(queue', t))
  /\ worker'[t] \in Executing \union {"expired"} =>
       /\ Engaged(t)
       /\ queue'.held[t] = queue.held[t]
       /\ ~Operators => StatusOf(queue', t) # "CANCELLED"
  /\ worker'[t] # "spawned"
  /\ worker'[t] \in Executing =>
       worker[t] \in Executing \union {"spawned"} /\ queue'.ledger[t] = queue.ledger[t]
  /\ worker[t] = "spawned" /\ worker'[t] = "produce" => StatusOf(queue, t) # "CANCELLED"
  /\ disk' \in {disk, queue'.task, [disk EXCEPT ![t] = queue.task[t]]}
  /\ Begun(t)' /\ ~Operators /\ ~UpsertMayFail => disk'[t].status \notin Waiting
  /\ packages' \in [Task -> Nat]
  /\ \A u \in Task \ {t} : packages'[u] = packages[u]
  /\ packages'[t] = packages[t] \/ (~Operators => StatusOf(queue', t) = "COMPLETED")
  /\ checks' \in [Task -> Nat]
  /\ UNCHANGED <<dispatched, loop, stale, stop, sweep, history>>

\* Such a step keeps the types.
LEMMA TurnTypes ==
  ASSUME TypeOK, NEW t \in Task, Turn(t)
  PROVE  TypeOK'
<1>1. queue' \in Queue
  BY DEF Turn, Operation
<1>2. disk' \in [Task -> TaskRecord]
  <2>1. disk \in [Task -> TaskRecord] /\ queue.task[t] \in TaskRecord
    BY Fields DEF TypeOK
  <2>2. queue'.task \in [Task -> TaskRecord]
    BY <1>1, Fields
  <2>3. QED
    BY <2>1, <2>2 DEF Turn
<1>3. QED
  BY <1>1, <1>2 DEF TypeOK, Turn, history

\* What an operation on t leaves of the holdings.
LEMMA OperationHoldings ==
  ASSUME TypeOK, Holdings, NEW t \in Task, Operation(queue, queue', t)
  PROVE  Holdings'
<1>1. \A u \in Task : queue'.held[u] \in {queue.held[u], {}}
  BY DEF Operation, Beside
<1>2. QED
  BY <1>1 DEF Holdings, Clash

\* It keeps the invariant.
LEMMA TurnKeeps ==
  ASSUME IInv, NEW t \in Task, Turn(t)
  PROVE  IInv'
<1>1. TypeOK'
  BY TurnTypes DEF IInv
<1>2. loop \in {"wait", "closing"} /\ loop' = loop
  BY DEF Turn, Yielded
<1>3. Indexes(queue') /\ Founded(queue') /\ Final(queue, queue')
  BY <1>2 DEF IInv, Turn, Operation
<1>4. Holdings'
  BY OperationHoldings DEF IInv, Turn
<1>5. \A u \in Task \ {t} : worker'[u] = worker[u] /\ Beside(queue, queue', u)
  BY DEF Turn, Operation
<1>6. \A u \in Task \ {t} : worker[u] # "idle" => StatusOf(queue', u) = StatusOf(queue, u)
  BY <1>5 DEF Beside, IInv, Staged, Fits, Executing, Worker, Waiting, Working
<1>7. Staged'
  BY <1>5, <1>6 DEF Staged, IInv, Turn, Fits
<1>8. InHand'
  <2>1. ASSUME NEW u \in Task, Engaged(u)', StatusOf(queue', u) # "CANCELLED"
        PROVE  queue'.held[u] = Resources(u)
    <3>1. CASE u = t
      <4>1. Engaged(t) /\ queue'.held[t] = queue.held[t]
        BY <2>1, <3>1 DEF Turn, Engaged
      <4>2. StatusOf(queue, t) # "CANCELLED"
        BY <1>3, <2>1, <3>1 DEF Final
      <4>3. QED
        BY <3>1, <4>1, <4>2 DEF IInv, InHand
    <3>2. CASE u # t
      BY <1>5, <1>6, <2>1, <3>2 DEF IInv, InHand, Engaged, Beside, Executing
    <3>3. QED
      BY <3>1, <3>2
  <2>2. ASSUME NEW u \in Task, worker'[u] # "idle", NEW d \in Deps[u]
        PROVE  StatusOf(queue', d) = "COMPLETED"
    <3>1. worker[u] # "idle" /\ d \in Task
      BY <1>5, <2>2, QueueAssumption DEF Turn
    <3>2. StatusOf(queue, d) = "COMPLETED"
      BY <3>1 DEF IInv, InHand
    <3>3. QED
      BY <1>3, <3>1, <3>2 DEF Final
  <2>3. QED
    BY <2>1, <2>2 DEF InHand
<1>9. Empty'
  BY <1>2 DEF Empty
<1>10. Unasked'
  <2>1. SUFFICES ASSUME ~Operators
                 PROVE  /\ ~stop'
                        /\ sweep' # {} => loop' = "saving"
                        /\ \A u \in Task : Engaged(u)' => StatusOf(queue', u) # "CANCELLED"
    BY DEF Unasked
  <2>2. ~stop' /\ (sweep' # {} => loop' = "saving")
    BY <2>1 DEF Turn, IInv, Unasked
  <2>3. ASSUME NEW u \in Task, Engaged(u)' PROVE StatusOf(queue', u) # "CANCELLED"
    <3>1. CASE u = t
      BY <2>1, <2>3, <3>1 DEF Turn, Engaged
    <3>2. CASE u # t
      BY <1>5, <1>6, <2>1, <2>3, <3>2 DEF IInv, Unasked, Engaged, Executing
    <3>3. QED
      BY <3>1, <3>2
  <2>4. QED
    BY <2>2, <2>3
<1>11. Spent'
  <2>1. SUFFICES ASSUME NEW u \in Task, worker'[u] \in Executing \union {"spawned"}
                 PROVE  queue'.ledger[u] # "COMPLETED"
    BY DEF Spent
  <2>2. CASE u = t
    BY <2>1, <2>2 DEF Turn, IInv, Spent
  <2>3. CASE u # t
    BY <1>5, <2>1, <2>3 DEF Beside, IInv, Spent
  <2>4. QED
    BY <2>2, <2>3
<1>12. Packed'
  <2>1. SUFFICES ASSUME MaxCrashes = 0, ~Operators, NEW u \in Task, packages'[u] > 0
                 PROVE  StatusOf(queue', u) = "COMPLETED"
    BY DEF Packed, PackagesAreCompleted
  <2>2. CASE packages'[u] = packages[u]
    BY <1>3, <2>1, <2>2 DEF Final, IInv, Packed, PackagesAreCompleted
  <2>3. CASE packages'[u] # packages[u]
    BY <2>1, <2>3 DEF Turn
  <2>4. QED
    BY <2>2, <2>3
<1>13. Alive'
  BY <1>2 DEF Alive
<1>14. Asked'
  <2>1. asked' = asked /\ asked \subseteq Task
    BY DEF Turn, history, IInv, TypeOK
  <2>2. QED
    BY <1>3, <2>1 DEF Asked, Final, IInv
<1>15. Saved'
  <2>1. SUFFICES ASSUME ~Operators, ~UpsertMayFail
                 PROVE  /\ \A u \in Task : Begun(u)' => disk'[u].status \notin Waiting
                        /\ \A u \in lost' : Outside(u) =>
                             /\ worker'[u] = "idle" /\ StatusOf(queue', u) \notin Waiting
                             /\ disk'[u].status \notin Waiting
    BY DEF Saved
  <2>2. ASSUME NEW u \in Task \ {t}
        PROVE  disk'[u] = disk[u] \/ disk'[u].status = StatusOf(queue', u)
    BY DEF Turn, StatusOf, IInv, TypeOK
  <2>3. ASSUME NEW u \in Task, Begun(u)' PROVE disk'[u].status \notin Waiting
    <3>1. CASE u = t
      BY <2>1, <2>3, <3>1 DEF Turn
    <3>2. CASE u # t
      <4>1. Begun(u) /\ disk[u].status \notin Waiting
        BY <1>5, <2>1, <2>3, <3>2 DEF Begun, IInv, Saved
      <4>2. StatusOf(queue', u) \notin Waiting
        BY <1>7, <2>3 DEF Staged, Fits, Begun, Executing, Waiting, Working
      <4>3. QED
        BY <2>2, <3>2, <4>1, <4>2
    <3>3. QED
      BY <3>1, <3>2
  <2>4. ASSUME NEW u \in lost', Outside(u)
        PROVE  /\ worker'[u] = "idle" /\ StatusOf(queue', u) \notin Waiting
               /\ disk'[u].status \notin Waiting
    <3>1. u \in lost /\ u \in Task
      BY <2>4 DEF Turn, history, IInv, TypeOK
    <3>2. worker[u] = "idle" /\ StatusOf(queue, u) \notin Waiting /\ disk[u].status \notin Waiting
      BY <2>1, <2>4, <3>1 DEF IInv, Saved
    <3>3. u # t
      BY <3>2 DEF Turn
    <3>4. worker'[u] = "idle" /\ StatusOf(queue', u) \notin Waiting
      BY <1>5, <3>1, <3>2, <3>3 DEF Beside, Waiting
    <3>5. QED
      BY <2>2, <3>1, <3>2, <3>3, <3>4
  <2>5. QED
    BY <2>3, <2>4
<1>16. QED
  BY <1>1, <1>2, <1>3, <1>4, <1>7, <1>8, <1>9, <1>10, <1>11, <1>12, <1>13, <1>14, <1>15 DEF IInv

-----------------------------------------------------------------------------
(* The inner coroutine *)

\* What a task has while its inner coroutine runs.
LEMMA AtWork ==
  ASSUME IInv, NEW t \in Task, worker[t] \in Executing \union {"spawned", "expired", "broken"}
  PROVE  /\ queue \in Queue /\ Indexes(queue)
         /\ StatusOf(queue, t) \in Status \ Waiting
         /\ \A d \in Deps[t] : StatusOf(queue, d) = "COMPLETED"
         /\ worker[t] \in Executing \union {"expired"} =>
              StatusOf(queue, t) \in Working \union {"CANCELLED"}
<1>1. queue \in Queue /\ Indexes(queue)
  BY DEF IInv, TypeOK
<1>2. Fits(worker[t], StatusOf(queue, t))
  BY DEF IInv, Staged
<1>3. StatusOf(queue, t) \in Status
  BY <1>1, Fields
<1>4. \A d \in Deps[t] : StatusOf(queue, d) = "COMPLETED"
  BY DEF IInv, InHand, Executing
<1>5. QED
  BY <1>1, <1>2, <1>3, <1>4 DEF Fits, Waiting, Working, Executing

\* It leaves the queue after an operation on its task.
LEMMA SettleTurn ==
  ASSUME IInv, NEW t \in Task, Yielded, worker[t] \in Executing, NEW S, Settle(t, S),
         \A o \in S : /\ Operation(queue, o.q, t)
                      /\ StatusOf(o.q, t) # "PENDING"
                      /\ o.ok \/ StatusOf(o.q, t) # "QUEUED",
         UNCHANGED Inner, checks' = checks, packages' \in [Task -> Nat],
         \A u \in Task \ {t} : packages'[u] = packages[u],
         packages'[t] = packages[t] \/
           (~Operators => \A o \in S : StatusOf(o.q, t) = "COMPLETED")
  PROVE  Turn(t)
<1>1. PICK o \in S : /\ queue' = o.q
                     /\ worker' = [worker EXCEPT ![t] = IF o.ok THEN "settled" ELSE "broken"]
  BY DEF Settle
<1>2. worker \in [Task -> Worker] /\ checks \in [Task -> Nat]
  BY DEF IInv, TypeOK
<1>3. worker' \in [Task -> Worker] /\ worker'[t] \in {"settled", "broken"}
      /\ \A u \in Task \ {t} : worker'[u] = worker[u]
  BY <1>1, <1>2 DEF Worker
<1>4. Fits(worker'[t], StatusOf(queue', t))
  BY <1>1, <1>2, <1>3 DEF Fits, Waiting
<1>5. worker[t] # "idle" /\ Begun(t)
  BY DEF Executing, Begun
<1>6. disk' = disk /\ (~Operators /\ ~UpsertMayFail => disk[t].status \notin Waiting)
  BY <1>5 DEF Inner, IInv, Saved
<1>7. UNCHANGED <<dispatched, loop, stale, stop, sweep, history>>
  BY DEF Inner
<1>8. packages'[t] = packages[t] \/ (~Operators => StatusOf(queue', t) = "COMPLETED")
  BY <1>1
<1>9. Operation(queue, queue', t)
  BY <1>1
<1>10. QED
  BY <1>2, <1>3, <1>4, <1>5, <1>6, <1>7, <1>8, <1>9 DEF Turn, Executing

\* It goes on to another stage.
LEMMA StageTurn ==
  ASSUME IInv, NEW t \in Task, Yielded, worker[t] \in Executing, NEW stage \in Executing,
         Operation(queue, queue', t), queue'.held[t] = queue.held[t],
         queue'.ledger[t] = queue.ledger[t],
         Fits(stage, StatusOf(queue', t)), StatusOf(queue', t) # "CANCELLED",
         worker' = [worker EXCEPT ![t] = stage], checks' \in [Task -> Nat],
         UNCHANGED <<Inner, packages>>
  PROVE  Turn(t)
<1>1. worker' \in [Task -> Worker] /\ worker'[t] = stage
      /\ \A u \in Task \ {t} : worker'[u] = worker[u]
  BY DEF IInv, TypeOK, Worker
<1>2. Begun(t) /\ Engaged(t) /\ worker[t] # "idle" /\ worker[t] # "spawned"
  BY DEF Begun, Engaged, Executing
<1>3. disk' = disk /\ (~Operators /\ ~UpsertMayFail => disk[t].status \notin Waiting)
  BY <1>2 DEF Inner, IInv, Saved
<1>4. packages' = packages /\ packages' \in [Task -> Nat]
  BY DEF IInv, TypeOK
<1>5. UNCHANGED <<dispatched, loop, stale, stop, sweep, history>>
  BY DEF Inner
<1>6. stage # "idle" /\ stage # "spawned" /\ stage # "broken"
  BY DEF Executing
<1>7. QED
  BY <1>1, <1>2, <1>3, <1>4, <1>5, <1>6 DEF Turn

\* An await raises.
LEMMA RaiseTurn ==
  ASSUME IInv, NEW t \in Task, Yielded, worker[t] \in Executing, NEW q,
         Operation(queue, q, t), StatusOf(q, t) \notin Waiting, Settle(t, {Raise(q)}),
         UNCHANGED <<Inner, packages, checks>>
  PROVE  Turn(t)
<1>1. packages' = packages /\ packages' \in [Task -> Nat] /\ checks' = checks
  BY DEF IInv, TypeOK
<1>2. \A o \in {Raise(q)} : /\ Operation(queue, o.q, t)
                            /\ StatusOf(o.q, t) # "PENDING" /\ StatusOf(o.q, t) # "QUEUED"
  BY DEF Raise, Waiting
<1>3. QED
  BY <1>1, <1>2, SettleTurn

\* The task is cancelled.
LEMMA CancelledTurn ==
  ASSUME IInv, NEW t \in Task, Yielded, worker[t] \in Executing,
         Settle(t, MarkCancelled(queue, t)), UNCHANGED <<Inner, packages, checks>>
  PROVE  Turn(t)
<1>1. packages' = packages /\ packages' \in [Task -> Nat] /\ checks' = checks
  BY DEF IInv, TypeOK
<1>2. \A o \in MarkCancelled(queue, t) :
        /\ Operation(queue, o.q, t)
        /\ StatusOf(o.q, t) # "PENDING" /\ StatusOf(o.q, t) # "QUEUED"
  BY AtWork, MarkCancelledOperation DEF Ok, Waiting
<1>3. QED
  BY <1>1, <1>2, SettleTurn

\* The task is escalated, after other changes or not.
LEMMA EscalatedTurn ==
  ASSUME IInv, NEW t \in Task, Yielded, worker[t] \in Executing, NEW q,
         Operation(queue, q, t), StatusOf(q, t) \notin Waiting,
         Settle(t, MarkEscalated(q, t)), UNCHANGED <<Inner, packages, checks>>
  PROVE  Turn(t)
<1>1. packages' = packages /\ packages' \in [Task -> Nat] /\ checks' = checks
  BY DEF IInv, TypeOK
<1>2. ASSUME NEW o \in MarkEscalated(q, t)
      PROVE  /\ Operation(queue, o.q, t)
             /\ StatusOf(o.q, t) # "PENDING" /\ StatusOf(o.q, t) # "QUEUED"
  <2>1. q \in Queue /\ Indexes(q)
    BY DEF Operation
  <2>2. Operation(q, o.q, t) /\ StatusOf(o.q, t) \in {StatusOf(q, t), "ESCALATED"}
    BY <2>1, MarkEscalatedOperation DEF Waiting
  <2>3. QED
    BY <2>2, Compose DEF Waiting
<1>3. QED
  BY <1>1, <1>2, SettleTurn

\* The candidate is rejected.
LEMMA RejectTurn ==
  ASSUME IInv, NEW t \in Task, Yielded, worker[t] \in Executing, NEW q,
         Operation(queue, q, t), StatusOf(q, t) \notin Waiting,
         q.held[t] = queue.held[t], q.ledger[t] = queue.ledger[t],
         Reject(t, q), UNCHANGED <<Inner, packages, checks>>
  PROVE  Turn(t)
<1>1. q \in Queue /\ Indexes(q)
  BY DEF Operation
<1>2. PICK n \in Nat : n = q.task[t].repairs + 1
  BY <1>1, Fields DEF TaskRecord
<1>3. PICK c : c = [q EXCEPT !.task[t].repairs = n]
  OBVIOUS
<1>4. Operation(q, c, t) /\ Leaves(q, c, t)
  BY <1>1, <1>2, <1>3, MarkFields, SameOperation
<1>5. /\ Operation(queue, c, t) /\ c \in Queue /\ Indexes(c)
      /\ StatusOf(c, t) = StatusOf(q, t) /\ StatusOf(c, t) \notin Waiting
      /\ c.held[t] = queue.held[t] /\ c.ledger[t] = queue.ledger[t]
  BY <1>4, Compose DEF Operation, Leaves
<1>6. \/ Settle(t, MarkEscalated(c, t))
      \/ Settle(t, MarkEscalated(q, t))
      \/ /\ CanMove(StatusOf(q, t), "REPAIRING")
         /\ queue' = Put(c, t, "REPAIRING")
         /\ worker' = [worker EXCEPT ![t] = "repair"]
      \/ Settle(t, {Raise(c)})
  BY <1>2, <1>3 DEF Reject
<1>7. CASE Settle(t, MarkEscalated(c, t))
  BY <1>5, <1>7, EscalatedTurn
<1>8. CASE Settle(t, MarkEscalated(q, t))
  BY <1>8, EscalatedTurn
<1>9. CASE /\ CanMove(StatusOf(q, t), "REPAIRING")
           /\ queue' = Put(c, t, "REPAIRING")
           /\ worker' = [worker EXCEPT ![t] = "repair"]
  <2> DEFINE s == "REPAIRING"
             stage == "repair"
  <2>1. s \in Status \ Waiting /\ StatusOf(c, t) \notin {"COMPLETED", "CANCELLED"}
    BY <1>5, <1>9, Moving DEF Status, Waiting
  <2>2. /\ Operation(c, queue', t)
        /\ StatusOf(queue', t) = s
        /\ queue'.ledger[t] = queue.ledger[t] /\ queue'.held[t] = queue.held[t]
    BY <1>5, <1>9, <2>1, PutOperation
  <2>3. Operation(queue, queue', t)
    BY <1>5, <2>2, Compose
  <2>4. checks' \in [Task -> Nat]
    BY DEF IInv, TypeOK
  <2>5. stage \in Executing /\ Fits(stage, StatusOf(queue', t)) /\ StatusOf(queue', t) # "CANCELLED"
    BY <2>2 DEF Executing, Fits
  <2>6. worker' = [worker EXCEPT ![t] = stage]
    BY <1>9
  <2> HIDE DEF stage
  <2>7. QED
    BY <2>2, <2>3, <2>4, <2>5, <2>6, StageTurn
<1>10. CASE Settle(t, {Raise(c)})
  BY <1>5, <1>10, RaiseTurn
<1>11. QED
  BY <1>6, <1>7, <1>8, <1>9, <1>10

\* The inner coroutine moves the task along or raises.
LEMMA AdvanceTurn ==
  ASSUME IInv, NEW t \in Task, Yielded, worker[t] \in Executing,
         NEW via \in Status \ (Waiting \union {"COMPLETED", "CANCELLED"}),
         NEW s \in Status \ (Waiting \union {"CANCELLED"}), NEW stage \in Executing, Fits(stage, s),
         Advance(t, via, s, stage), UNCHANGED <<Inner, packages, checks>>
  PROVE  Turn(t)
<1>1. /\ queue \in Queue /\ Indexes(queue) /\ StatusOf(queue, t) \in Status \ Waiting
      /\ checks' \in [Task -> Nat]
  BY AtWork DEF IInv, TypeOK
<1>2. CASE CanMove(StatusOf(queue, t), via)
  <2>1. StatusOf(queue, t) \notin {"COMPLETED", "CANCELLED"}
    BY <1>2, Moving
  <2>2. queue' = Put(queue, t, s) /\ worker' = [worker EXCEPT ![t] = stage]
    BY <1>2 DEF Advance
  <2>3. /\ Operation(queue, queue', t)
        /\ StatusOf(queue', t) = s
        /\ queue'.ledger[t] = queue.ledger[t] /\ queue'.held[t] = queue.held[t]
    BY <1>1, <2>1, <2>2, PutOperation
  <2>4. QED
    BY <1>1, <2>2, <2>3, StageTurn
<1>3. CASE ~CanMove(StatusOf(queue, t), via)
  <2>1. Settle(t, {Raise(queue)})
    BY <1>3 DEF Advance
  <2>2. Operation(queue, queue, t)
    BY <1>1, SameOperation DEF Same
  <2>3. QED
    BY <1>1, <2>1, <2>2, RaiseTurn
<1>4. QED
  BY <1>2, <1>3

\* A candidate that was validated goes by way of QUALITY_GATE.
LEMMA GateOperation ==
  ASSUME IInv, NEW t \in Task, worker[t] \in Executing, CanMove(StatusOf(queue, t), "QUALITY_GATE")
  PROVE  LET q == Put(queue, t, "QUALITY_GATE") IN
         /\ Operation(queue, q, t) /\ StatusOf(q, t) = "QUALITY_GATE"
         /\ q.held[t] = queue.held[t] /\ q.ledger[t] = queue.ledger[t]
<1> DEFINE s == "QUALITY_GATE"
<1>1. s \in Status \ Waiting /\ StatusOf(queue, t) \notin {"COMPLETED", "CANCELLED"}
  BY Moving DEF Status, Waiting
<1>2. QED
  BY <1>1, AtWork, PutOperation

\* The integration fails and the task may be queued again.
LEMMA NotIntegratedTurn ==
  ASSUME IInv, NEW t \in Task, NotIntegrated(t)
  PROVE  Turn(t)
<1>1. /\ Yielded /\ worker[t] \in Executing /\ Settle(t, MarkFailed(queue, t, TRUE))
      /\ UNCHANGED <<Inner, packages, checks>>
  BY DEF NotIntegrated, InStage, Executing
<1>2. packages' = packages /\ packages' \in [Task -> Nat] /\ checks' = checks
  BY <1>1 DEF IInv, TypeOK
<1>3. ASSUME NEW o \in MarkFailed(queue, t, TRUE)
      PROVE  /\ Operation(queue, o.q, t) /\ StatusOf(o.q, t) # "PENDING"
             /\ o.ok \/ StatusOf(o.q, t) # "QUEUED"
  <2>1. /\ queue \in Queue /\ Indexes(queue) /\ StatusOf(queue, t) \notin Waiting
        /\ \A d \in Deps[t] : StatusOf(queue, d) = "COMPLETED"
    BY <1>1, AtWork
  <2>2. /\ Operation(queue, o.q, t)
        /\ StatusOf(o.q, t) \in {StatusOf(queue, t), "FAILED", "QUEUED"}
        /\ StatusOf(o.q, t) = "QUEUED" => StatusOf(queue, t) = "QUEUED" \/ (TRUE /\ o.ok)
    BY <2>1, MarkFailedOperation DEF Waiting
  <2>3. QED
    BY <2>1, <2>2 DEF Waiting
<1>4. QED
  BY <1>1, <1>2, <1>3, SettleTurn

\* The integration succeeds: without operators the task completes.
LEMMA IntegratedTurn ==
  ASSUME IInv, NEW t \in Task, Integrated(t)
  PROVE  Turn(t)
<1>1. /\ Yielded /\ worker[t] = "integrate" /\ Settle(t, MarkCompleted(queue, t))
      /\ packages' = [packages EXCEPT ![t] = @ + 1]
      /\ UNCHANGED <<Inner, checks>>
  BY DEF Integrated, InStage
<1>2. worker[t] \in Executing /\ Engaged(t)
  BY <1>1 DEF Executing, Engaged
<1>3. /\ packages' \in [Task -> Nat] /\ checks' = checks
      /\ \A u \in Task \ {t} : packages'[u] = packages[u]
  BY <1>1 DEF IInv, TypeOK
<1>4. /\ queue \in Queue /\ Indexes(queue) /\ StatusOf(queue, t) \notin Waiting
  BY <1>2, AtWork
<1>5. ASSUME NEW o \in MarkCompleted(queue, t)
      PROVE  /\ Operation(queue, o.q, t)
             /\ StatusOf(o.q, t) # "PENDING" /\ StatusOf(o.q, t) # "QUEUED"
             /\ ~Operators => StatusOf(o.q, t) = "COMPLETED"
  <2>1. /\ Operation(queue, o.q, t)
        /\ StatusOf(o.q, t) \in {StatusOf(queue, t), "COMPLETED"}
        /\ CanMove(StatusOf(queue, t), "COMPLETED") => StatusOf(o.q, t) = "COMPLETED"
    BY <1>4, MarkCompletedOperation
  <2>2. ASSUME ~Operators PROVE CanMove(StatusOf(queue, t), "COMPLETED")
    <3>1. StatusOf(queue, t) # "CANCELLED"
      BY <1>2, <2>2 DEF IInv, Unasked
    <3>2. StatusOf(queue, t) = "MASTER_REVIEW"
      BY <1>1, <3>1 DEF IInv, Staged, Fits
    <3>3. QED
      BY <3>2, Moving
  <2>3. QED
    BY <1>4, <2>1, <2>2 DEF Waiting
<1>6. QED
  BY <1>1, <1>2, <1>3, <1>5, SettleTurn

\* Validating again leaves the queue alone.
LEMMA NotValidatedTurn ==
  ASSUME IInv, NEW t \in Task, NotValidated(t)
  PROVE  Turn(t)
<1>1. /\ Yielded /\ worker[t] = "verify" /\ worker[t] \in Executing
      /\ UNCHANGED <<Inner, packages>>
  BY DEF NotValidated, InStage, Executing
<1>2. /\ queue \in Queue /\ Indexes(queue) /\ StatusOf(queue, t) \in Status \ Waiting
  BY <1>1, AtWork
<1>3. Operation(queue, queue, t)
  BY <1>2, SameOperation DEF Same
<1>4. CASE ~CanMove(StatusOf(queue, t), "QUALITY_GATE")
  <2>1. Settle(t, {Raise(queue)}) /\ UNCHANGED <<Inner, packages, checks>>
    BY <1>1, <1>4 DEF NotValidated
  <2>2. QED
    BY <1>1, <1>2, <1>3, <2>1, RaiseTurn
<1>5. CASE CanMove(StatusOf(queue, t), "QUALITY_GATE") /\ checks[t] < MaxValidation /\ ~stop
  <2>1. checks' = [checks EXCEPT ![t] = @ + 1] /\ queue' = queue /\ worker' = worker
    BY <1>5 DEF NotValidated
  <2>2. checks' \in [Task -> Nat] /\ worker' = [worker EXCEPT ![t] = worker[t]]
    BY <2>1 DEF IInv, TypeOK
  <2>3. StatusOf(queue, t) # "CANCELLED" /\ Fits(worker[t], StatusOf(queue, t))
    BY <1>5, Moving DEF IInv, Staged
  <2>4. QED
    BY <1>1, <1>3, <2>1, <2>2, <2>3, StageTurn
<1>6. CASE CanMove(StatusOf(queue, t), "QUALITY_GATE") /\ ~(checks[t] < MaxValidation /\ ~stop)
  <2>1. PICK q : q = Put(queue, t, "QUALITY_GATE")
    OBVIOUS
  <2>2. Settle(t, MarkEscalated(q, t)) /\ UNCHANGED <<Inner, packages, checks>>
    BY <1>1, <1>6, <2>1 DEF NotValidated
  <2>3. Operation(queue, q, t) /\ StatusOf(q, t) \notin Waiting
    BY <1>1, <1>6, <2>1, GateOperation DEF Waiting
  <2>4. QED
    BY <1>1, <2>2, <2>3, EscalatedTurn
<1>7. QED
  BY <1>4, <1>5, <1>6

\* So every step of the inner coroutine is a turn of its task.
LEMMA WorkTurn ==
  ASSUME IInv, NEW t \in Task, Work(t)
  PROVE  Turn(t)
<1>1. ASSUME worker[t] \in Executing
      PROVE  /\ queue \in Queue /\ Indexes(queue) /\ StatusOf(queue, t) \in Status \ Waiting
             /\ Operation(queue, queue, t)
  BY <1>1, AtWork, SameOperation DEF Same
<1>2. CASE Break(t)
  <2>1. Yielded /\ worker[t] \in Executing /\ Settle(t, {Raise(queue)})
        /\ UNCHANGED <<Inner, packages, checks>>
    BY <1>2 DEF Break
  <2>2. QED
    BY <1>1, <2>1, RaiseTurn
<1> DEFINE via == "VALIDATING"
           stage == "verify"
<1>3. /\ via \in Status \ (Waiting \union {"COMPLETED", "CANCELLED"})
      /\ via \in Status \ (Waiting \union {"CANCELLED"})
      /\ stage \in Executing /\ Fits(stage, via)
  BY DEF Status, Waiting, Executing, Fits
<1>4. CASE Produced(t)
  <2>1. /\ Yielded /\ worker[t] \in Executing
        /\ Settle(t, MarkCancelled(queue, t)) \/ Advance(t, via, via, stage)
        /\ UNCHANGED <<Inner, packages, checks>>
    BY <1>4 DEF Produced, InStage, Executing
  <2> HIDE DEF via, stage
  <2>2. QED
    BY <1>3, <2>1, AdvanceTurn, CancelledTurn
<1>5. CASE Repaired(t)
  <2>1. /\ Yielded /\ worker[t] \in Executing
        /\ Settle(t, MarkCancelled(queue, t)) \/ Advance(t, via, via, stage)
        /\ UNCHANGED <<Inner, packages, checks>>
    BY <1>5 DEF Repaired, InStage, Executing
  <2> HIDE DEF via, stage
  <2>2. QED
    BY <1>3, <2>1, AdvanceTurn, CancelledTurn
<1>6. CASE Passed(t)
  <2> DEFINE gate == "QUALITY_GATE"
             s == "MASTER_REVIEW"
             next == "review"
  <2>1. /\ Yielded /\ worker[t] \in Executing /\ Advance(t, gate, s, next)
        /\ UNCHANGED <<Inner, packages, checks>>
    BY <1>6 DEF Passed, InStage, Executing
  <2>2. /\ gate \in Status \ (Waiting \union {"COMPLETED", "CANCELLED"})
        /\ s \in Status \ (Waiting \union {"CANCELLED"})
        /\ next \in Executing /\ Fits(next, s)
    BY DEF Status, Waiting, Executing, Fits
  <2> HIDE DEF gate, s, next
  <2>3. QED
    BY <2>1, <2>2, AdvanceTurn
<1>7. CASE NotValidated(t)
  BY <1>7, NotValidatedTurn
<1>8. CASE Rejected(t)
  <2>1. /\ Yielded /\ worker[t] \in Executing /\ UNCHANGED <<Inner, packages, checks>>
    BY <1>8 DEF Rejected, InStage, Executing
  <2>2. CASE CanMove(StatusOf(queue, t), "QUALITY_GATE")
    <3>1. PICK q : q = Put(queue, t, "QUALITY_GATE")
      OBVIOUS
    <3>2. Reject(t, q)
      BY <1>8, <2>2, <3>1 DEF Rejected
    <3>3. /\ Operation(queue, q, t) /\ StatusOf(q, t) \notin Waiting
          /\ q.held[t] = queue.held[t] /\ q.ledger[t] = queue.ledger[t]
      BY <2>1, <2>2, <3>1, GateOperation DEF Waiting
    <3>4. QED
      BY <2>1, <3>2, <3>3, RejectTurn
  <2>3. CASE ~CanMove(StatusOf(queue, t), "QUALITY_GATE")
    <3>1. Settle(t, {Raise(queue)})
      BY <1>8, <2>3 DEF Rejected
    <3>2. QED
      BY <1>1, <2>1, <3>1, RaiseTurn
  <2>4. QED
    BY <2>2, <2>3
<1>9. CASE Approved(t)
  <2>1. /\ Yielded /\ worker[t] = "review" /\ worker[t] \in Executing
        /\ UNCHANGED <<Inner, packages, checks>>
    BY <1>9 DEF Approved, InStage, Executing
  <2>2. CASE CheckCancelled(t)
    BY <1>9, <2>1, <2>2, CancelledTurn DEF Approved
  <2>3. CASE ~CheckCancelled(t)
    <3> DEFINE next == "integrate"
    <3>1. queue' = queue /\ worker' = [worker EXCEPT ![t] = next]
      BY <1>9, <2>3 DEF Approved
    <3>2. StatusOf(queue, t) # "CANCELLED" /\ next \in Executing /\ checks' \in [Task -> Nat]
      BY <2>1, <2>3 DEF CheckCancelled, Executing, IInv, TypeOK
    <3>3. Fits(next, StatusOf(queue, t))
      BY <2>1, <3>2 DEF IInv, Staged, Fits
    <3> HIDE DEF next
    <3>4. QED
      BY <1>1, <2>1, <3>1, <3>2, <3>3, StageTurn
  <2>4. QED
    BY <2>2, <2>3
<1>10. CASE ReviewRejected(t)
  <2>1. /\ Yielded /\ worker[t] \in Executing /\ Reject(t, queue)
        /\ UNCHANGED <<Inner, packages, checks>>
    BY <1>10 DEF ReviewRejected, InStage, Executing
  <2>2. QED
    BY <1>1, <2>1, RejectTurn
<1>11. CASE ReviewBlocked(t)
  <2>1. /\ Yielded /\ worker[t] \in Executing /\ Settle(t, MarkEscalated(queue, t))
        /\ UNCHANGED <<Inner, packages, checks>>
    BY <1>11 DEF ReviewBlocked, InStage, Executing
  <2>2. QED
    BY <1>1, <2>1, EscalatedTurn
<1>12. CASE Integrated(t)
  BY <1>12, IntegratedTurn
<1>13. CASE NotIntegrated(t)
  BY <1>13, NotIntegratedTurn
<1>14. QED
  BY <1>2, <1>4, <1>5, <1>6, <1>7, <1>8, <1>9, <1>10, <1>11, <1>12, <1>13 DEF Work

-----------------------------------------------------------------------------
(* The outer coroutine *)

\* It ends with an operation on its task, and perhaps a failure after it.
LEMMA FinishTurn ==
  ASSUME IInv, NEW t \in Task, Yielded, worker[t] \in {"settled", "broken", "expired"},
         NEW S, Finish(t, S),
         \A o \in S : Operation(queue, o.q, t) /\ StatusOf(o.q, t) # "PENDING"
  PROVE  Turn(t)
<1> DEFINE After(f) ==
             /\ queue' = f.q
             /\ disk' = f.q.task
             /\ worker' = [worker EXCEPT ![t] = IF f.ok THEN "done" ELSE "raised"]
             /\ UNCHANGED <<Outer, checks>>
<1>0. PICK o \in S : \E f \in IF o.ok THEN {o} ELSE MarkFailed(o.q, t, FALSE) : After(f)
  BY DEF Finish
<1>1. PICK f \in IF o.ok THEN {o} ELSE MarkFailed(o.q, t, FALSE) : After(f)
  BY <1>0
<1>2. Operation(queue, f.q, t) /\ StatusOf(f.q, t) # "PENDING"
  <2>1. CASE o.ok
    BY <1>1, <2>1
  <2>2. CASE ~o.ok
    <3>1. \A d \in Deps[t] : d \in Task /\ StatusOf(queue, d) = "COMPLETED"
      BY QueueAssumption DEF IInv, InHand
    <3>2. /\ o.q \in Queue /\ Indexes(o.q)
          /\ \A d \in Deps[t] : StatusOf(o.q, d) = "COMPLETED"
      BY <3>1 DEF Operation, Final
    <3>3. Operation(o.q, f.q, t) /\ StatusOf(f.q, t) \in {StatusOf(o.q, t), "FAILED", "QUEUED"}
      BY <1>1, <2>2, <3>2, MarkFailedOperation
    <3>4. QED
      BY <3>3, Compose
  <2>3. QED
    BY <2>1, <2>2
<1>3. /\ worker' \in [Task -> Worker] /\ worker'[t] \in {"done", "raised"}
      /\ \A u \in Task \ {t} : worker'[u] = worker[u]
  BY <1>1 DEF IInv, TypeOK, Worker
<1>4. Fits(worker'[t], StatusOf(queue', t))
  BY <1>1, <1>2, <1>3 DEF Fits
<1>5. packages' = packages /\ packages \in [Task -> Nat] /\ checks' = checks
      /\ checks \in [Task -> Nat] /\ UNCHANGED <<dispatched, loop, stale, stop, sweep, history>>
  BY <1>1 DEF Outer, IInv, TypeOK
<1>6. ~Begun(t)' /\ worker[t] # "idle" /\ disk' = queue'.task
  BY <1>1, <1>3 DEF Begun, Executing
<1>7. QED
  BY <1>1, <1>2, <1>3, <1>4, <1>5, <1>6 DEF Turn, Executing

\* The coroutines start, or find their task cancelled.
LEMMA StartTurn ==
  ASSUME IInv, NEW t \in Task, Start(t)
  PROVE  Turn(t)
<1>1. /\ Yielded /\ worker[t] = "spawned" /\ checks' = [checks EXCEPT ![t] = 0]
      /\ UNCHANGED Outer
  BY DEF Start, InStage
<1>2. /\ queue \in Queue /\ Indexes(queue) /\ StatusOf(queue, t) \in Status \ Waiting
  BY <1>1, AtWork
<1>3. packages' = packages /\ packages \in [Task -> Nat] /\ checks' \in [Task -> Nat]
      /\ worker \in [Task -> Worker]
      /\ UNCHANGED <<dispatched, loop, stale, stop, sweep, history>>
  BY <1>1 DEF Outer, IInv, TypeOK
<1>4. Engaged(t)
  BY <1>1 DEF Engaged
<1>5. CASE CheckCancelled(t)
  <2>1. PICK o \in MarkCancelled(queue, t) :
          /\ queue' = o.q
          /\ worker' = [worker EXCEPT ![t] = IF o.ok THEN "settled" ELSE "broken"]
    BY <1>5 DEF Start, Settle
  <2>2. disk' = disk
    BY <1>5 DEF Start
  <2>3. /\ worker' \in [Task -> Worker] /\ worker'[t] \in {"settled", "broken"}
        /\ \A u \in Task \ {t} : worker'[u] = worker[u]
    BY <1>3, <2>1 DEF Worker
  <2>4. Operation(queue, queue', t) /\ StatusOf(queue', t) \notin Waiting
    BY <1>2, <2>1, MarkCancelledOperation DEF Ok, Waiting
  <2>5. Operators
    BY <1>4, <1>5 DEF CheckCancelled, IInv, Unasked
  <2>6. Fits(worker'[t], StatusOf(queue', t))
    BY <2>3, <2>4 DEF Fits, Waiting
  <2>7. QED
    BY <1>1, <1>3, <2>2, <2>3, <2>4, <2>5, <2>6 DEF Turn, Executing
<1>6. CASE ~CheckCancelled(t)
  <2>1. /\ worker' = [worker EXCEPT ![t] = "produce"] /\ queue' = queue
        /\ disk' = [disk EXCEPT ![t] = queue.task[t]] \/ (UpsertMayFail /\ disk' = disk)
    BY <1>6 DEF Start
  <2>2. /\ worker' \in [Task -> Worker] /\ worker'[t] = "produce"
        /\ \A u \in Task \ {t} : worker'[u] = worker[u]
    BY <1>3, <2>1 DEF Worker, Executing
  <2>3. Operation(queue, queue', t)
    BY <1>2, <2>1, SameOperation DEF Same
  <2>4. StatusOf(queue, t) # "CANCELLED"
    BY <1>6 DEF CheckCancelled
  <2>5. Fits(worker'[t], StatusOf(queue', t))
    BY <1>1, <2>1, <2>2, <2>4 DEF IInv, Staged, Fits
  <2>6. ~UpsertMayFail => disk'[t].status \notin Waiting
    BY <1>2, <2>1 DEF StatusOf, IInv, TypeOK
  <2>7. disk' \in {disk, queue'.task, [disk EXCEPT ![t] = queue.task[t]]}
    BY <2>1
  <2>8. QED
    BY <1>1, <1>3, <1>4, <2>1, <2>2, <2>3, <2>4, <2>5, <2>6, <2>7 DEF Turn, Executing
<1>7. QED
  BY <1>5, <1>6

\* The deadline passes.
LEMMA DeadlineTurn ==
  ASSUME IInv, NEW t \in Task, Deadline(t)
  PROVE  Turn(t)
<1>1. /\ Yielded /\ worker[t] \in Executing
      /\ queue' = [queue EXCEPT !.task[t].uncertain = TRUE]
      /\ worker' = [worker EXCEPT ![t] = "expired"]
      /\ UNCHANGED <<Outer, disk, checks>>
  BY DEF Deadline
<1>2. /\ queue \in Queue /\ Indexes(queue)
      /\ StatusOf(queue, t) \in Working \union {"CANCELLED"}
  BY <1>1, AtWork
<1>3. Operation(queue, queue', t) /\ Leaves(queue, queue', t)
  BY <1>1, <1>2, MarkFields, SameOperation
<1>4. /\ worker' \in [Task -> Worker] /\ worker'[t] = "expired"
      /\ \A u \in Task \ {t} : worker'[u] = worker[u]
  BY <1>1 DEF IInv, TypeOK, Worker
<1>5. Engaged(t) /\ Begun(t) /\ worker[t] # "idle"
  BY <1>1 DEF Engaged, Begun, Executing
<1>6. packages' = packages /\ packages \in [Task -> Nat] /\ checks' = checks
      /\ checks \in [Task -> Nat] /\ UNCHANGED <<dispatched, loop, stale, stop, sweep, history>>
  BY <1>1 DEF Outer, IInv, TypeOK
<1>7. disk' = disk /\ (~Operators /\ ~UpsertMayFail => disk[t].status \notin Waiting)
  BY <1>1, <1>5 DEF IInv, Saved
<1>8. ~Operators => StatusOf(queue', t) # "CANCELLED"
  BY <1>3, <1>5 DEF IInv, Unasked, Leaves
<1>9. Fits(worker'[t], StatusOf(queue', t))
  BY <1>2, <1>3, <1>4 DEF Fits, Leaves
<1>10. QED
  BY <1>1, <1>3, <1>4, <1>5, <1>6, <1>7, <1>8, <1>9 DEF Turn, Executing, Leaves

\* The future is cancelled.
LEMMA InterruptTurn ==
  ASSUME IInv, NEW t \in Task, Interrupt(t)
  PROVE  Turn(t)
<1>1. /\ Yielded
      /\ worker[t] \in Executing \union {"spawned", "settled", "broken", "expired"}
      /\ worker' = [worker EXCEPT ![t] = "raised"]
      /\ UNCHANGED <<Outer, checks>>
  BY DEF Interrupt
<1>2. queue \in Queue /\ Indexes(queue) /\ StatusOf(queue, t) # "PENDING"
  BY <1>1 DEF IInv, TypeOK, Staged, Fits, Executing, Waiting, Working
<1>3. /\ Operation(queue, queue', t) /\ StatusOf(queue', t) # "PENDING"
      /\ disk' \in {disk, queue'.task}
  <2>1. CASE worker[t] = "spawned"
    <3>1. queue' = queue /\ disk' = disk
      BY <2>1 DEF Interrupt
    <3>2. QED
      BY <1>2, <3>1, SameOperation DEF Same
  <2>2. CASE worker[t] # "spawned"
    <3>1. PICK o \in MarkCancelled(queue, t) : queue' = o.q /\ disk' = o.q.task
      BY <2>2 DEF Interrupt
    <3>2. QED
      BY <1>2, <3>1, MarkCancelledOperation DEF Ok
  <2>3. QED
    BY <2>1, <2>2
<1>4. /\ worker' \in [Task -> Worker] /\ worker'[t] = "raised"
      /\ \A u \in Task \ {t} : worker'[u] = worker[u]
  BY <1>1 DEF IInv, TypeOK, Worker
<1>5. packages' = packages /\ packages \in [Task -> Nat] /\ checks' = checks
      /\ checks \in [Task -> Nat] /\ UNCHANGED <<dispatched, loop, stale, stop, sweep, history>>
  BY <1>1 DEF Outer, IInv, TypeOK
<1>6. ~Begun(t)' /\ worker[t] # "idle" /\ Fits(worker'[t], StatusOf(queue', t))
  BY <1>1, <1>3, <1>4 DEF Begun, Executing, Fits
<1>7. QED
  BY <1>1, <1>3, <1>4, <1>5, <1>6 DEF Turn, Executing

\* Every step of the outer coroutine is a turn of its task.
LEMMA KeepTurn ==
  ASSUME IInv, NEW t \in Task, Keep(t)
  PROVE  Turn(t)
<1>1. queue \in Queue /\ Indexes(queue)
  BY DEF IInv, TypeOK
<1>2. CASE Return(t)
  <2>1. Yielded /\ worker[t] = "settled" /\ Finish(t, {Ok(queue)})
    BY <1>2 DEF Return, InStage
  <2>2. \A o \in {Ok(queue)} : Operation(queue, o.q, t) /\ StatusOf(o.q, t) # "PENDING"
    BY <1>1, <2>1, SameOperation DEF Same, Ok, IInv, Staged, Fits
  <2>3. QED
    BY <2>1, <2>2, FinishTurn
<1>3. CASE Catch(t)
  <2>1. Yielded /\ worker[t] = "broken" /\ Finish(t, {Raise(queue)})
    BY <1>3 DEF Catch, InStage
  <2>2. \A o \in {Raise(queue)} : Operation(queue, o.q, t) /\ StatusOf(o.q, t) # "PENDING"
    BY <1>1, <2>1, SameOperation DEF Same, Raise, IInv, Staged, Fits, Waiting
  <2>3. QED
    BY <2>1, <2>2, FinishTurn
<1>4. CASE Expire(t)
  <2>1. Yielded /\ worker[t] = "expired" /\ Finish(t, MarkEscalated(queue, t))
    BY <1>4 DEF Expire, InStage
  <2>2. StatusOf(queue, t) # "PENDING"
    BY <2>1, AtWork DEF Waiting
  <2>3. \A o \in MarkEscalated(queue, t) :
          Operation(queue, o.q, t) /\ StatusOf(o.q, t) # "PENDING"
    BY <1>1, <2>2, MarkEscalatedOperation
  <2>4. QED
    BY <2>1, <2>3, FinishTurn
<1>5. QED
  BY <1>2, <1>3, <1>4, StartTurn, DeadlineTurn, InterruptTurn DEF Keep

-----------------------------------------------------------------------------
(* The dispatching coroutine, operators and other runs *)

\* A step outside the coroutines of the tasks: some of them may go, a task some
\* coroutine works on keeps its state or is cancelled by an operator.
LEMMA AsideKeeps ==
  ASSUME IInv, TypeOK', loop # "down", loop' # "down",
         Indexes(queue'), Founded(queue'), Final(queue, queue'), Holdings',
         \A u \in Task : worker'[u] \in {worker[u], "idle"},
         \A u \in Task : worker'[u] # "idle" =>
           \/ Beside(queue, queue', u)
           \/ /\ Operators /\ StatusOf(queue', u) = "CANCELLED"
              /\ queue'.ledger[u] = queue.ledger[u],
         \A u \in Task : StatusOf(queue, u) \notin Waiting => StatusOf(queue', u) \notin Waiting,
         disk' \in {disk, queue'.task}, packages' = packages, lost' = lost,
         Empty', ~Operators => ~stop' /\ (sweep' # {} => loop' = "saving"),
         asked' = asked \/ Asked'
  PROVE  IInv'
<1>1. ASSUME NEW u \in Task, worker'[u] # "idle"
      PROVE  /\ worker'[u] = worker[u]
             /\ \/ /\ StatusOf(queue', u) = StatusOf(queue, u)
                   /\ queue'.held[u] = queue.held[u]
                \/ Operators /\ StatusOf(queue', u) = "CANCELLED"
             /\ queue'.ledger[u] = queue.ledger[u] \/ queue'.ledger[u] \in {"QUEUED", "FAILED"}
  <2>1. worker'[u] = worker[u]
    BY <1>1
  <2>2. StatusOf(queue, u) # "PENDING"
    BY <1>1, <2>1 DEF IInv, Staged, Fits, Waiting, Working
  <2>3. QED
    BY <1>1, <2>1, <2>2 DEF Beside
<1>2. Staged'
  BY <1>1 DEF Staged, IInv, Fits
<1>3. InHand'
  <2>1. ASSUME NEW u \in Task, Engaged(u)', StatusOf(queue', u) # "CANCELLED"
        PROVE  queue'.held[u] = Resources(u)
    <3>1. worker'[u] # "idle"
      BY <2>1 DEF Engaged, Executing
    <3>2. QED
      BY <1>1, <2>1, <3>1 DEF IInv, InHand, Engaged
  <2>2. ASSUME NEW u \in Task, worker'[u] # "idle", NEW d \in Deps[u]
        PROVE  StatusOf(queue', d) = "COMPLETED"
    <3>1. worker[u] # "idle" /\ d \in Task
      BY <1>1, <2>2, QueueAssumption
    <3>2. StatusOf(queue, d) = "COMPLETED"
      BY <3>1 DEF IInv, InHand
    <3>3. QED
      BY <3>1, <3>2 DEF Final
  <2>3. QED
    BY <2>1, <2>2 DEF InHand
<1>4. Unasked'
  <2>1. SUFFICES ASSUME ~Operators, NEW u \in Task, Engaged(u)'
                 PROVE  StatusOf(queue', u) # "CANCELLED"
    BY DEF Unasked
  <2>2. worker'[u] # "idle"
    BY <2>1 DEF Engaged, Executing
  <2>3. QED
    BY <1>1, <2>1, <2>2 DEF IInv, Unasked, Engaged
<1>5. Spent'
  BY <1>1 DEF Spent, IInv, Executing
<1>6. Packed'
  BY DEF Packed, PackagesAreCompleted, IInv, Final
<1>7. Asked'
  BY DEF Asked, Final, IInv, TypeOK
<1>8. Saved'
  <2>1. SUFFICES ASSUME ~Operators, ~UpsertMayFail
                 PROVE  /\ \A u \in Task : Begun(u)' => disk'[u].status \notin Waiting
                        /\ \A u \in lost' : Outside(u) =>
                             /\ worker'[u] = "idle" /\ StatusOf(queue', u) \notin Waiting
                             /\ disk'[u].status \notin Waiting
    BY DEF Saved
  <2>2. \A u \in Task : disk'[u] = disk[u] \/ disk'[u].status = StatusOf(queue', u)
    BY DEF StatusOf
  <2>3. ASSUME NEW u \in Task, Begun(u)' PROVE disk'[u].status \notin Waiting
    <3>1. worker'[u] # "idle"
      BY <2>3 DEF Begun, Executing
    <3>2. Begun(u) /\ disk[u].status \notin Waiting
      BY <1>1, <2>1, <2>3, <3>1 DEF Begun, IInv, Saved
    <3>3. StatusOf(queue', u) \notin Waiting
      BY <1>2, <2>3 DEF Staged, Fits, Begun, Executing, Waiting, Working
    <3>4. QED
      BY <2>2, <3>2, <3>3
  <2>4. ASSUME NEW u \in lost', Outside(u)
        PROVE  /\ worker'[u] = "idle" /\ StatusOf(queue', u) \notin Waiting
               /\ disk'[u].status \notin Waiting
    <3>1. u \in lost /\ u \in Task
      BY <2>4 DEF IInv, TypeOK
    <3>2. worker[u] = "idle" /\ StatusOf(queue, u) \notin Waiting /\ disk[u].status \notin Waiting
      BY <2>1, <2>4, <3>1 DEF IInv, Saved
    <3>3. QED
      BY <2>2, <3>1, <3>2
  <2>5. QED
    BY <2>3, <2>4
<1>9. Alive'
  BY DEF Alive
<1>10. QED
  BY <1>2, <1>3, <1>4, <1>5, <1>6, <1>7, <1>8, <1>9 DEF IInv

\* While all are idle a task may be changed by any operation.
LEMMA IdleKeeps ==
  ASSUME IInv, NEW t \in Task, loop \notin {"down", "saving", "ended"}, loop' # "down",
         Operation(queue, queue', t),
         StatusOf(queue, t) \notin Waiting => StatusOf(queue', t) \notin Waiting,
         loop' \in {"dispatch", "wait", "closing", "saving", "ended"},
         InFlight = {},
         UNCHANGED <<disk, packages, dispatched, worker, checks, stale, stop, sweep, history>>
  PROVE  IInv'
<1>1. \A u \in Task : worker'[u] = "idle"
  BY DEF InFlight
<1>2. TypeOK'
  BY DEF Operation, IInv, TypeOK, history
<1>3. Indexes(queue') /\ Founded(queue') /\ Final(queue, queue')
  BY DEF Operation, IInv
<1>4. Holdings'
  BY OperationHoldings DEF IInv
<1>5. \A u \in Task : StatusOf(queue, u) \notin Waiting => StatusOf(queue', u) \notin Waiting
  BY DEF Operation, Beside, Waiting
<1>6. Empty' /\ (~Operators => ~stop' /\ (sweep' # {} => loop' = "saving"))
  BY <1>1 DEF Empty, IInv, Unasked
<1>7. disk' = disk /\ packages' = packages /\ lost' = lost /\ asked' = asked
  BY DEF history
<1>8. QED
  BY <1>1, <1>2, <1>3, <1>4, <1>5, <1>6, <1>7, AsideKeeps

\* Steps that leave the tasks, their resources and the ledger alone.
LEMMA StillKeeps ==
  ASSUME IInv, TypeOK', loop # "down", loop' # "down",
         \A u \in Task : StatusOf(queue', u) = StatusOf(queue, u),
         queue'.ready = queue.ready, queue'.blocked = queue.blocked, queue'.held = queue.held,
         queue'.ledger = queue.ledger,
         \A u \in Task : worker'[u] \in {worker[u], "idle"},
         disk' \in {disk, queue'.task}, packages' = packages, lost' = lost, asked' = asked,
         Empty', ~Operators => ~stop' /\ (sweep' # {} => loop' = "saving")
  PROVE  IInv'
<1>1. queue \in Queue /\ queue' \in Queue /\ queue'.ready \subseteq Task
  BY Fields DEF IInv, TypeOK
<1>2. Indexes(queue')
  BY <1>1 DEF IInv, Indexes
<1>3. Founded(queue')
  BY QueueAssumption DEF IInv, Founded
<1>4. Final(queue, queue') /\ Holdings'
  BY DEF Final, IInv, Holdings, Clash
<1>5. \A u \in Task : Beside(queue, queue', u)
  BY DEF Beside
<1>6. QED
  BY <1>2, <1>3, <1>4, <1>5, AsideKeeps

\* mark_cancelled from outside the coroutines of the task.
LEMMA CancelKeeps ==
  ASSUME IInv, NEW t \in Task, loop # "down", loop' # "down",
         loop' \in {"dispatch", "wait", "closing", "saving", "ended"},
         NEW o \in MarkCancelled(queue, t), queue' = o.q,
         Operators \/ \A u \in Task : worker[u] = "idle",
         Empty', ~Operators => ~stop' /\ (sweep' # {} => loop' = "saving"),
         stop' \in BOOLEAN, sweep' \subseteq Task,
         asked' = asked \/ (asked' = asked \union {t} /\ StatusOf(queue, t) # "COMPLETED"),
         UNCHANGED <<disk, packages, dispatched, worker, checks, stale, lost, crashes>>
  PROVE  IInv'
<1>1. queue \in Queue /\ Indexes(queue)
  BY DEF IInv, TypeOK
<1>2. /\ Operation(queue, queue', t)
      /\ \/ StatusOf(queue', t) = StatusOf(queue, t) /\ queue' = queue
         \/ StatusOf(queue', t) = "CANCELLED"
      /\ StatusOf(queue, t) # "COMPLETED" => StatusOf(queue', t) = "CANCELLED"
      /\ queue'.ledger[t] = queue.ledger[t]
  BY <1>1, MarkCancelledOperation DEF Ok
<1>3. TypeOK'
  BY <1>2 DEF Operation, IInv, TypeOK
<1>4. Indexes(queue') /\ Founded(queue') /\ Final(queue, queue')
  BY <1>2 DEF Operation, IInv
<1>5. Holdings'
  BY <1>2, OperationHoldings DEF IInv
<1>6. \A u \in Task : StatusOf(queue, u) \notin Waiting => StatusOf(queue', u) \notin Waiting
  BY <1>2 DEF Operation, Beside, Waiting
<1>7. ASSUME NEW u \in Task, worker'[u] # "idle"
      PROVE  \/ Beside(queue, queue', u)
             \/ /\ Operators /\ StatusOf(queue', u) = "CANCELLED"
                /\ queue'.ledger[u] = queue.ledger[u]
  <2>1. CASE u = t
    BY <1>2, <1>7, <2>1 DEF Beside
  <2>2. CASE u # t
    BY <1>2, <2>2 DEF Operation
  <2>3. QED
    BY <2>1, <2>2
<1>8. asked' = asked \/ Asked'
  <2>1. CASE asked' = asked
    BY <2>1
  <2>2. CASE asked' = asked \union {t} /\ StatusOf(queue, t) # "COMPLETED"
    BY <1>2, <1>4, <2>2 DEF Asked, IInv, TypeOK, Final
  <2>3. QED
    BY <2>1, <2>2
<1>9. QED
  BY <1>3, <1>4, <1>5, <1>6, <1>7, <1>8, AsideKeeps

\* What a task needs are resources.
LEMMA NeedsResources ==
  ASSUME NEW t \in Task
  PROVE  Resources(t) \subseteq Resource
<1>1. Locks[t] \subseteq Resource /\ Targets[t] \subseteq Resource
  BY QueueAssumption DEF Resource
<1>2. {Workspace, External, Exclusive} \subseteq Resource
  BY DEF Resource
<1>3. QED
  BY <1>1, <1>2 DEF Resources

\* pop_ready_task takes the resources of a ready task that conflicts with no task
\* that holds some; the ledger may refuse.
LEMMA PopFields ==
  ASSUME NEW q \in Queue, Indexes(q), NEW C, NEW p \in PopReady(q, C),
         NEW t, NEW o, t = p.t, o = p.out.q
  PROVE  /\ t \in Task /\ t \in q.ready /\ t \in C
         /\ ~Conflict(Resources(t), Holders(q)) /\ Leasable(q, t)
         /\ o \in Queue
         /\ \A u \in Task : StatusOf(o, u) = IF u = t THEN "RUNNING" ELSE StatusOf(q, u)
         /\ o.ready = q.ready \ {t} /\ o.blocked = q.blocked /\ o.running = q.running \union {t}
         /\ o.held = [q.held EXCEPT ![t] = Resources(t)]
         /\ \A r \in Resource : o.lease[r] = IF r \in Resources(t) THEN t ELSE q.lease[r]
         /\ \A u \in Task \ {t} : o.ledger[u] = q.ledger[u]
         /\ p.out.ok <=> ~Refuses(q, t, "RUNNING")
         /\ p.out.ok => o.ledger[t] = "RUNNING"
<1> DEFINE first == {x \in Poppable(q, C) : \A u \in Poppable(q, C) : Rank[x] <= Rank[u]}
           acquired(x) == [q EXCEPT
             !.ready = @ \ {x},
             !.held[x] = Resources(x),
             !.lease = [r \in Resource |-> IF r \in Resources(x) THEN x ELSE q.lease[r]]]
           running(x) == [Put(acquired(x), x, "RUNNING") EXCEPT !.running = @ \union {x}]
           outcome(x) ==
             IF ~CanMove(StatusOf(q, x), "RUNNING") THEN Raise(acquired(x))
             ELSE IF Refuses(q, x, "RUNNING") THEN Raise(running(x))
             ELSE Ok(Sync(running(x), x))
<1>1. PopReady(q, C) = {[t |-> x, out |-> outcome(x)] : x \in first}
  BY DEF PopReady
<1>2. PICK x \in first : p = [t |-> x, out |-> outcome(x)]
  BY <1>1
<1>3. t \in first /\ p.out = outcome(t)
  <2> HIDE DEF first, acquired, running, outcome
  <2>1. QED
    BY <1>2
<1>4. /\ t \in q.ready /\ t \in C /\ t \in Task
      /\ ~Conflict(Resources(t), Holders(q)) /\ Leasable(q, t)
  BY <1>3, Fields DEF Poppable
<1>5. CanMove(StatusOf(q, t), "RUNNING")
  BY <1>4, Moving DEF Indexes
<1>6. PICK held : held = [q.held EXCEPT ![t] = Resources(t)]
  OBVIOUS
<1>7. PICK lease : lease = [r \in Resource |-> IF r \in Resources(t) THEN t ELSE q.lease[r]]
  OBVIOUS
<1>8. /\ held \in [Task -> SUBSET Resource] /\ lease \in [Resource -> Task \union {Free, Elsewhere}]
      /\ q.ready \ {t} \subseteq Task
      /\ \A r \in Resource : lease[r] = IF r \in Resources(t) THEN t ELSE q.lease[r]
  BY <1>4, <1>6, <1>7, NeedsResources, Fields
<1>9. PICK a : a = [q EXCEPT !.ready = q.ready \ {t}, !.held = held, !.lease = lease]
  OBVIOUS
<1>10. a = acquired(t)
  BY <1>6, <1>7, <1>9
<1>11. /\ a \in Queue
       /\ a.ready = q.ready \ {t} /\ a.held = held /\ a.lease = lease
       /\ a.task = q.task /\ a.blocked = q.blocked /\ a.running = q.running
       /\ a.ledger = q.ledger
  BY <1>8, <1>9 DEF Queue
<1>12. PICK b : b = Put(a, t, "RUNNING")
  OBVIOUS
<1>13. /\ b \in Queue
       /\ \A u \in Task : StatusOf(b, u) = IF u = t THEN "RUNNING" ELSE StatusOf(q, u)
       /\ b.ready = q.ready \ {t} /\ b.held = held /\ b.lease = lease
       /\ b.blocked = q.blocked /\ b.running = q.running /\ b.ledger = q.ledger
  <2> DEFINE s == "RUNNING"
  <2>1. s \in Status /\ b = Put(a, t, s)
    BY <1>12 DEF Status
  <2>2. \A u \in Task : StatusOf(a, u) = StatusOf(q, u)
    BY <1>11 DEF StatusOf
  <2>3. QED
    BY <1>4, <1>11, <2>1, <2>2, PutFields
<1>14. PICK c : c = [b EXCEPT !.running = b.running \union {t}]
  OBVIOUS
<1>15. /\ c \in Queue
       /\ \A u \in Task : StatusOf(c, u) = IF u = t THEN "RUNNING" ELSE StatusOf(q, u)
       /\ c.ready = q.ready \ {t} /\ c.held = held /\ c.lease = lease
       /\ c.blocked = q.blocked /\ c.running = q.running \union {t} /\ c.ledger = q.ledger
  <2>1. b.running \union {t} \subseteq Task
    BY <1>4, <1>13, Fields
  <2>2. /\ c \in Queue /\ c.task = b.task
        /\ c.ready = b.ready /\ c.held = b.held /\ c.lease = b.lease
        /\ c.blocked = b.blocked /\ c.running = b.running \union {t} /\ c.ledger = b.ledger
    BY <1>13, <1>14, <2>1 DEF Queue
  <2>3. QED
    BY <1>13, <2>2 DEF StatusOf
<1>16. c = running(t)
  BY <1>10, <1>12, <1>14
<1> HIDE DEF first, acquired, running
<1>17. CASE Refuses(q, t, "RUNNING")
  <2>1. p.out = Raise(c)
    BY <1>3, <1>5, <1>16, <1>17
  <2>2. QED
    BY <1>3, <1>4, <1>6, <1>8, <1>15, <1>17, <2>1 DEF Raise
<1>18. CASE ~Refuses(q, t, "RUNNING")
  <2>1. p.out = Ok(Sync(c, t))
    BY <1>3, <1>5, <1>16, <1>18
  <2>2. PICK d : d = Sync(c, t)
    OBVIOUS
  <2>3. /\ d \in Queue
        /\ \A u \in Task : StatusOf(d, u) = StatusOf(c, u)
        /\ d.ready = c.ready /\ d.blocked = c.blocked /\ d.running = c.running
        /\ d.held = c.held /\ d.lease = c.lease
        /\ \A u \in Task : d.ledger[u] = IF u = t THEN StatusOf(c, t) ELSE c.ledger[u]
    BY <1>4, <1>15, <2>2, SyncFields
  <2>4. QED
    BY <1>3, <1>4, <1>6, <1>8, <1>15, <1>18, <2>1, <2>2, <2>3 DEF Ok
<1>19. QED
  BY <1>17, <1>18

\* The dispatch of a ready task succeeds only where the ledger lets it run.
LEMMA PopTold ==
  ASSUME NEW q, NEW C, NEW p \in PopReady(q, C), p.out.ok
  PROVE  ~Refuses(q, p.t, "RUNNING")
<1> DEFINE acquired(t) == [q EXCEPT
             !.ready = q.ready \ {t},
             !.held = [q.held EXCEPT ![t] = Resources(t)],
             !.lease = [r \in Resource |-> IF r \in Resources(t) THEN t ELSE q.lease[r]]]
           running(t) == [Put(acquired(t), t, "RUNNING") EXCEPT
             !.running = Put(acquired(t), t, "RUNNING").running \union {t}]
           outcome(t) ==
             IF ~CanMove(StatusOf(q, t), "RUNNING") THEN Raise(acquired(t))
             ELSE IF Refuses(q, t, "RUNNING") THEN Raise(running(t))
             ELSE Ok(Sync(running(t), t))
<1>1. \E x : p = [t |-> x, out |-> outcome(x)]
  BY DEF PopReady
<1> HIDE DEF acquired, running
<1>2. PICK x : p = [t |-> x, out |-> outcome(x)]
  BY <1>1
<1>3. p.t = x /\ p.out = outcome(x)
  BY <1>2
<1>4. Refuses(q, x, "RUNNING") => ~outcome(x).ok
  BY DEF Raise
<1>5. QED
  BY <1>3, <1>4

\* A task with no conflict among the holders clashes with none of them.
LEMMA NoConflictNoClash ==
  ASSUME NEW q \in Queue, NEW t \in Task, NEW u \in Task,
         ~Conflict(Resources(t), Holders(q)), q.held[u] = Resources(u),
         Resources(t) # {}, Resources(u) # {}
  PROVE  ~Clash(t, u) /\ ~Clash(u, t)
<1>1. Resources(u) \subseteq Holders(q)
  BY DEF Holders
<1> DEFINE R == Resources(t)
           S == Resources(u)
           H == Holders(q)
<1>2. /\ Exclusive \notin H /\ Exclusive \notin R
      /\ ~(Workspace \in H /\ R \intersect Writes # {})
      /\ ~(Workspace \in R /\ H \intersect Writes # {})
      /\ R \intersect H = {}
  BY <1>1 DEF Conflict
<1>3. QED
  BY <1>1, <1>2 DEF Clash

\* A dispatch keeps the invariant, even if the ledger refuses it.
LEMMA PopKeeps ==
  ASSUME IInv, Pop
  PROVE  IInv'
<1>1. PICK p \in PopReady(queue, Startable) :
        /\ queue' = p.out.q
        /\ IF p.out.ok
           THEN /\ dispatched' = dispatched + 1
                /\ worker' = [worker EXCEPT ![p.t] = "spawned"]
                /\ loop' = loop
           ELSE /\ loop' = "closing"
                /\ UNCHANGED <<dispatched, worker>>
  BY DEF Pop
<1>2. /\ loop = "dispatch"
      /\ UNCHANGED <<disk, packages, checks, stale, stop, sweep, asked, lost, crashes>>
  BY DEF Pop, history
<1>3. queue \in Queue /\ Indexes(queue) /\ Founded(queue) /\ Holdings
  BY <1>2 DEF IInv, TypeOK
<1>4. PICK t : t = p.t
  OBVIOUS
<1>5. /\ t \in Task /\ t \in queue.ready /\ t \in Startable
      /\ ~Conflict(Resources(t), Holders(queue))
      /\ queue' \in Queue
      /\ \A u \in Task : StatusOf(queue', u) = IF u = t THEN "RUNNING" ELSE StatusOf(queue, u)
      /\ queue'.ready = queue.ready \ {t} /\ queue'.blocked = queue.blocked
      /\ queue'.held = [queue.held EXCEPT ![t] = Resources(t)]
      /\ \A u \in Task \ {t} : queue'.ledger[u] = queue.ledger[u]
      /\ p.out.ok => queue'.ledger[t] = "RUNNING"
  BY <1>1, <1>3, <1>4, PopFields
<1>6. /\ StatusOf(queue, t) = "QUEUED" /\ queue.blocked[t] = {} /\ worker[t] = "idle"
      /\ \A d \in Deps[t] : StatusOf(queue, d) = "COMPLETED"
  <2>1. StatusOf(queue, t) = "QUEUED" /\ queue.blocked[t] = {}
    BY <1>3, <1>5 DEF Indexes
  <2>2. QED
    BY <1>3, <1>5, <2>1 DEF Founded, Waiting, Startable, InFlight
<1>7. /\ worker' \in [Task -> Worker] /\ dispatched' \in Nat /\ loop' \in {"dispatch", "closing"}
      /\ \A u \in Task \ {t} : worker'[u] = worker[u]
      /\ worker'[t] \in {"idle", "spawned"} /\ (worker'[t] = "spawned" => p.out.ok)
  BY <1>1, <1>2, <1>4, <1>6 DEF IInv, TypeOK, Worker
<1>8. TypeOK'
  BY <1>2, <1>5, <1>7 DEF IInv, TypeOK
<1>9. Indexes(queue') /\ Founded(queue') /\ Final(queue, queue')
  <2>1. Indexes(queue')
    BY <1>3, <1>5, <1>6, Fields DEF Indexes
  <2>2. Final(queue, queue')
    BY <1>5, <1>6 DEF Final
  <2>3. Founded(queue')
    BY <1>3, <1>5, <1>6, QueueAssumption DEF Founded, Waiting
  <2>4. QED
    BY <2>1, <2>2, <2>3
<1>10. queue'.held[t] = Resources(t) /\ \A u \in Task \ {t} : queue'.held[u] = queue.held[u]
  BY <1>3, <1>5, Fields
<1>11. Holdings'
  <2>1. \A u \in Task : queue'.held[u] \in {{}, Resources(u)}
    BY <1>3, <1>10 DEF Holdings
  <2>2. ASSUME NEW u \in Task, NEW v \in Task, u # v, queue'.held[u] # {}, queue'.held[v] # {}
        PROVE  ~Clash(u, v)
    <3>1. CASE u # t /\ v # t
      BY <1>3, <1>10, <2>2, <3>1 DEF Holdings
    <3>2. CASE u = t
      <4>1. queue.held[v] = Resources(v) /\ Resources(v) # {} /\ Resources(t) # {}
        BY <1>3, <1>10, <2>2, <3>2 DEF Holdings
      <4>2. QED
        BY <1>3, <1>5, <3>2, <4>1, NoConflictNoClash
    <3>3. CASE v = t
      <4>1. queue.held[u] = Resources(u) /\ Resources(u) # {} /\ Resources(t) # {}
        BY <1>3, <1>10, <2>2, <3>3 DEF Holdings
      <4>2. QED
        BY <1>3, <1>5, <3>3, <4>1, NoConflictNoClash
    <3>4. QED
      BY <3>1, <3>2, <3>3
  <2>3. QED
    BY <2>1, <2>2 DEF Holdings, Clash
<1>12. Staged'
  BY <1>5, <1>7 DEF Staged, IInv, Fits
<1>13. InHand'
  <2>1. ASSUME NEW u \in Task, Engaged(u)', StatusOf(queue', u) # "CANCELLED"
        PROVE  queue'.held[u] = Resources(u)
    BY <1>5, <1>7, <1>10, <2>1 DEF IInv, InHand, Engaged
  <2>2. ASSUME NEW u \in Task, worker'[u] # "idle", NEW d \in Deps[u]
        PROVE  StatusOf(queue', d) = "COMPLETED"
    <3>1. d \in Task
      BY QueueAssumption
    <3>2. StatusOf(queue, d) = "COMPLETED"
      BY <1>6, <1>7, <2>2 DEF IInv, InHand
    <3>3. QED
      BY <1>9, <3>1, <3>2 DEF Final
  <2>3. QED
    BY <2>1, <2>2 DEF InHand
<1>14. Empty' /\ Alive'
  BY <1>7 DEF Empty, Alive
<1>15. Unasked'
  <2>1. \A u \in Task : ~Operators /\ Engaged(u)' => StatusOf(queue', u) # "CANCELLED"
    BY <1>5, <1>7 DEF IInv, Unasked, Engaged
  <2>2. ~Operators => ~stop' /\ sweep' = {}
    BY <1>2 DEF IInv, Unasked
  <2>3. QED
    BY <2>1, <2>2 DEF Unasked
<1>16. Spent'
  BY <1>5, <1>7 DEF Spent, IInv, Executing
<1>17. Packed' /\ Asked'
  BY <1>2, <1>9 DEF Packed, PackagesAreCompleted, Asked, IInv, TypeOK, Final
<1>18. Saved'
  <2>1. \A u \in Task : Begun(u)' => Begun(u)
    BY <1>7 DEF Begun, Executing
  <2>2. \A u \in Task : u # t \/ ~(StatusOf(queue, u) \notin Waiting)
    BY <1>6 DEF Waiting
  <2>3. QED
    BY <1>2, <1>5, <1>7, <2>1, <2>2 DEF Saved, IInv, TypeOK
<1>19. QED
  BY <1>7, <1>8, <1>9, <1>11, <1>12, <1>13, <1>14, <1>15, <1>16, <1>17, <1>18 DEF IInv

\* The other steps of the dispatching coroutine.
LEMMA EscalateKeeps ==
  ASSUME IInv, NEW t \in Task, EscalateUnrunnable(t)
  PROVE  IInv'
<1>1. /\ loop = "dispatch" /\ InFlight = {} /\ t \in queue.ready
      /\ UNCHANGED <<disk, packages, dispatched, worker, checks, stale, stop, sweep, history>>
  BY DEF EscalateUnrunnable
<1>2. PICK o \in MarkEscalated(queue, t) :
        /\ queue' = o.q
        /\ loop' = IF o.ok /\ Pending(o.q) THEN "dispatch" ELSE "closing"
  BY DEF EscalateUnrunnable
<1>3. queue \in Queue /\ Indexes(queue) /\ StatusOf(queue, t) = "QUEUED"
  BY <1>1 DEF IInv, TypeOK, Indexes
<1>4. Operation(queue, queue', t)
  BY <1>2, <1>3, MarkEscalatedOperation
<1>5. loop' \in {"dispatch", "closing"}
  BY <1>2
<1>6. QED
  BY <1>1, <1>3, <1>4, <1>5, IdleKeeps DEF Waiting

\* The loop waits for its futures.
LEMMA WaitKeeps ==
  ASSUME IInv, Wait
  PROVE  IInv'
<1>1. /\ loop = "dispatch" /\ loop' = "wait"
      /\ UNCHANGED <<queue, disk, packages, dispatched, worker, checks, stale, stop, sweep,
                     history>>
  BY DEF Wait
<1>2. TypeOK' /\ Empty' /\ lost' = lost /\ asked' = asked
  BY <1>1 DEF IInv, TypeOK, Empty, history
<1>3. ~Operators => ~stop' /\ (sweep' # {} => loop' = "saving")
  BY <1>1 DEF IInv, Unasked
<1>4. QED
  BY <1>1, <1>2, <1>3, StillKeeps

\* It gives up, and some blocked tasks fail.
LEMMA GiveUpKeeps ==
  ASSUME IInv, GiveUp
  PROVE  IInv'
<1>1. /\ loop = "dispatch" /\ loop' = "closing" /\ InFlight = {}
      /\ UNCHANGED <<disk, packages, dispatched, worker, checks, stale, stop, sweep, history>>
      /\ queue' = queue \/ \E o \in FailUnfulfillable(queue) : queue' = o.q
  BY DEF GiveUp
<1>2. queue' = queue \/ \E o \in Cascade(queue) : queue' = o.q
  BY <1>1 DEF FailUnfulfillable, Ok
<1>3. CASE queue' = queue
  <2>1. TypeOK' /\ Empty' /\ lost' = lost /\ asked' = asked
    BY <1>1, <1>3 DEF IInv, TypeOK, Empty, history
  <2>2. ~Operators => ~stop' /\ (sweep' # {} => loop' = "saving")
    BY <1>1 DEF IInv, Unasked
  <2>3. QED
    BY <1>1, <1>3, <2>1, <2>2, StillKeeps
<1>4. CASE queue' # queue
  <2>1. PICK o \in Cascade(queue) : queue' = o.q
    BY <1>2, <1>4
  <2>2. queue \in Queue /\ Indexes(queue)
    BY DEF IInv, TypeOK
  <2>3. \A t \in Task : /\ Operation(queue, queue', t)
                        /\ StatusOf(queue, t) # "PENDING" => Leaves(queue, queue', t)
    BY <2>1, <2>2, CascadeOperation
  <2>4. CASE Task = {}
    <3>1. queue' \in Queue /\ \A D \in SUBSET Blocked(queue) : D = {}
      BY <2>1, <2>2, <2>4, CascadeFails DEF Fails, Blocked
    <3>2. queue'.held = queue.held /\ queue'.ready = queue.ready
      BY <2>1, <2>2, CascadeFails DEF Fails
    <3>3. TypeOK' /\ Empty' /\ lost' = lost /\ asked' = asked
      BY <1>1, <3>1 DEF IInv, TypeOK, Empty, history
    <3>4. Indexes(queue') /\ Founded(queue') /\ Final(queue, queue') /\ Holdings'
      BY <2>2, <2>4, <3>1, <3>2, Fields DEF Indexes, Founded, Final, Holdings
    <3>5. ~Operators => ~stop' /\ (sweep' # {} => loop' = "saving")
      BY <1>1 DEF IInv, Unasked
    <3>6. QED
      BY <1>1, <2>4, <3>3, <3>4, <3>5, AsideKeeps
  <2>5. CASE Task # {}
    <3>1. PICK t \in Task : TRUE
      BY <2>5
    <3>2. StatusOf(queue, t) \notin Waiting => StatusOf(queue', t) \notin Waiting
      BY <2>3, <3>1 DEF Leaves, Waiting
    <3>3. Operation(queue, queue', t)
      BY <2>3
    <3>4. QED
      BY <1>1, <3>2, <3>3, IdleKeeps
  <2>6. QED
    BY <2>4, <2>5
<1>5. QED
  BY <1>3, <1>4

\* It reaps the futures that have ended.
LEMMA ReapKeeps ==
  ASSUME IInv, Reap
  PROVE  IInv'
<1>1. /\ loop = "wait"
      /\ worker' = [t \in Task |-> IF t \in {u \in Task : Ended(u)} THEN "idle" ELSE worker[t]]
      /\ loop' \in {"closing", "dispatch"}
      /\ disk' \in {disk, queue.task}
      /\ stale' \in {stale, 0, stale + 1}
      /\ UNCHANGED <<queue, packages, dispatched, checks, stop, sweep, history>>
  BY DEF Reap
<1>2. \A u \in Task : worker'[u] \in {worker[u], "idle"}
  BY <1>1
<1>3. worker' \in [Task -> Worker] /\ stale' \in Nat /\ disk' \in [Task -> TaskRecord]
  <2>1. queue.task \in [Task -> TaskRecord]
    BY Fields DEF IInv, TypeOK
  <2>2. QED
    BY <1>1, <2>1 DEF IInv, TypeOK, Worker
<1>4. TypeOK'
  BY <1>1, <1>3 DEF IInv, TypeOK, history
<1>5. Empty' /\ lost' = lost /\ asked' = asked
  BY <1>1 DEF Empty, history
<1>6. ~Operators => ~stop' /\ (sweep' # {} => loop' = "saving")
  BY <1>1 DEF IInv, Unasked
<1>7. QED
  BY <1>1, <1>2, <1>4, <1>5, <1>6, StillKeeps

\* The futures have ended, and cancel_all begins.
LEMMA CloseKeepsInvariant ==
  ASSUME IInv, Close
  PROVE  IInv'
<1>1. /\ loop = "closing" /\ sweep' \in {Unfinished(queue), {}} /\ loop' = "saving"
      /\ worker' = [t \in Task |-> "idle"]
      /\ UNCHANGED <<queue, disk, packages, dispatched, checks, stale, stop, history>>
  BY DEF Close
<1>2. TypeOK'
  BY <1>1 DEF IInv, TypeOK, history, Worker, Unfinished
<1>3. Empty' /\ lost' = lost /\ asked' = asked /\ \A u \in Task : worker'[u] = "idle"
  BY <1>1 DEF Empty, history
<1>4. ~Operators => ~stop' /\ (sweep' # {} => loop' = "saving")
  BY <1>1 DEF IInv, Unasked
<1>5. QED
  BY <1>1, <1>2, <1>3, <1>4, StillKeeps

\* The run is over.
LEMMA SaveKeeps ==
  ASSUME IInv, Save
  PROVE  IInv'
<1>1. /\ loop = "saving" /\ sweep = {} /\ disk' = queue.task /\ loop' = "ended"
      /\ UNCHANGED <<queue, packages, dispatched, worker, checks, stale, stop, sweep, history>>
  BY DEF Save
<1>2. queue.task \in [Task -> TaskRecord]
  BY Fields DEF IInv, TypeOK
<1>3. TypeOK'
  BY <1>1, <1>2 DEF IInv, TypeOK, history
<1>4. Empty' /\ lost' = lost /\ asked' = asked
  BY <1>1 DEF IInv, Empty, history
<1>5. ~Operators => ~stop' /\ (sweep' # {} => loop' = "saving")
  BY <1>1 DEF IInv, Unasked
<1>6. QED
  BY <1>1, <1>3, <1>4, <1>5, StillKeeps

\* While cancel_all goes on the run is saving or waits for it.
LEMMA CancelNextKeeps ==
  ASSUME IInv, NEW t \in Task, CancelNext(t)
  PROVE  IInv'
<1>1. PICK o \in MarkCancelled(queue, t) :
        /\ queue' = o.q
        /\ sweep' = IF o.ok THEN sweep \ {t} ELSE {}
        /\ loop' = IF ~o.ok /\ loop = "saving" THEN "ended" ELSE loop
  BY DEF CancelNext
<1>2. /\ t \in sweep
      /\ UNCHANGED <<disk, packages, dispatched, worker, checks, stale, stop, history>>
  BY DEF CancelNext
<1>9. loop # "down"
  BY <1>2 DEF IInv, Empty
<1>3. /\ loop' \in {"dispatch", "wait", "closing", "saving", "ended"}
      /\ loop' = loop \/ (loop = "saving" /\ loop' = "ended" /\ sweep' = {})
      /\ sweep' \subseteq sweep
  BY <1>1, <1>9 DEF IInv, TypeOK
<1>4. Operators \/ \A u \in Task : worker[u] = "idle"
  BY <1>2 DEF IInv, Unasked, Empty
<1>5. Empty' /\ UNCHANGED <<asked, lost, crashes>>
  BY <1>2, <1>3 DEF IInv, Empty, history
<1>6. ~Operators => ~stop' /\ (sweep' # {} => loop' = "saving")
  BY <1>2, <1>3 DEF IInv, Unasked
<1>7. stop' \in BOOLEAN /\ sweep' \subseteq Task
  BY <1>2, <1>3 DEF IInv, TypeOK
<1>8. QED
  BY <1>1, <1>2, <1>3, <1>4, <1>5, <1>6, <1>7, <1>9, CancelKeeps

\* The steps of operators and of other runs.
LEMMA OperatorKeeps ==
  ASSUME IInv, CancelRun \/ \E t \in Task : CancelTask(t)
  PROVE  IInv'
<1>1. CASE CancelRun
  <2>1. /\ Operators /\ loop \in {"wait", "closing"} /\ stop' = TRUE /\ sweep' = Unfinished(queue)
        /\ UNCHANGED <<queue, disk, packages, dispatched, worker, checks, loop, stale, history>>
    BY <1>1 DEF CancelRun, Yielded
  <2>2. TypeOK' /\ Empty' /\ lost' = lost /\ asked' = asked
    BY <2>1 DEF IInv, TypeOK, Empty, history, Unfinished
  <2>3. QED
    BY <2>1, <2>2, StillKeeps
<1>2. ASSUME NEW t \in Task, CancelTask(t) PROVE IInv'
  <2>1. PICK o \in MarkCancelled(queue, t) : queue' = o.q
    BY <1>2 DEF CancelTask
  <2>2. /\ Operators /\ loop \in {"wait", "closing"}
        /\ StatusOf(queue, t) # "COMPLETED" /\ asked' = asked \union {t}
        /\ UNCHANGED <<disk, packages, dispatched, worker, checks, loop, stale, stop, sweep,
                       lost, crashes>>
    BY <1>2 DEF CancelTask, Yielded
  <2>3. Empty' /\ stop' \in BOOLEAN /\ sweep' \subseteq Task
    BY <2>2 DEF Empty, IInv, TypeOK
  <2>4. QED
    BY <2>1, <2>2, <2>3, CancelKeeps
<1>3. QED
  BY <1>1, <1>2

\* A lease changes hands, with no task of the run holding it.
LEMMA LeaseFields ==
  ASSUME IInv, NEW r \in Resource, ForeignLease(r) \/ Lapse(r)
  PROVE  /\ queue' \in Queue /\ queue'.task = queue.task
         /\ queue'.ready = queue.ready /\ queue'.blocked = queue.blocked
         /\ queue'.running = queue.running /\ queue'.held = queue.held
         /\ queue'.ledger = queue.ledger
         /\ \A u \in Task : StatusOf(queue', u) = StatusOf(queue, u)
         /\ \A x \in Resource \ {r} : queue'.lease[x] = queue.lease[x]
<1>1. PICK x \in {Free, Elsewhere} : queue' = [queue EXCEPT !.lease[r] = x]
  BY DEF ForeignLease, Lapse
<1>2. queue \in Queue
  BY DEF IInv, TypeOK
<1>3. PICK lease : lease = [queue.lease EXCEPT ![r] = x]
  OBVIOUS
<1>4. /\ lease \in [Resource -> Task \union {Free, Elsewhere}]
      /\ \A y \in Resource \ {r} : lease[y] = queue.lease[y]
  BY <1>2, <1>3, Fields
<1>5. queue' = [queue EXCEPT !.lease = lease]
  BY <1>1, <1>3
<1>6. /\ queue' \in Queue /\ queue'.task = queue.task
      /\ queue'.ready = queue.ready /\ queue'.blocked = queue.blocked
      /\ queue'.running = queue.running /\ queue'.held = queue.held
      /\ queue'.ledger = queue.ledger /\ queue'.lease = lease
  BY <1>2, <1>4, <1>5 DEF Queue
<1>7. QED
  BY <1>4, <1>6 DEF StatusOf

\* It disturbs nothing.
LEMMA LeaseKeeps ==
  ASSUME IInv, NEW r \in Resource, ForeignLease(r) \/ Lapse(r)
  PROVE  IInv'
<1>1. UNCHANGED <<disk, packages, dispatched, worker, checks, loop, stale, stop, sweep, history>>
  BY DEF ForeignLease, Lapse
<1>2. queue \in Queue
  BY DEF IInv, TypeOK
<1>3. /\ queue' \in Queue /\ queue'.task = queue.task
      /\ queue'.ready = queue.ready /\ queue'.blocked = queue.blocked /\ queue'.held = queue.held
      /\ queue'.ledger = queue.ledger
      /\ \A u \in Task : StatusOf(queue', u) = StatusOf(queue, u)
  BY LeaseFields
<1>4. TypeOK' /\ lost' = lost /\ asked' = asked
  BY <1>1, <1>3 DEF IInv, TypeOK, history
<1>5. Empty'
  BY <1>1 DEF IInv, Empty
<1>6. ~Operators => ~stop' /\ (sweep' # {} => loop' = "saving")
  BY <1>1 DEF IInv, Unasked
<1>7. CASE loop # "down"
  BY <1>1, <1>3, <1>4, <1>5, <1>6, <1>7, StillKeeps
<1>8. CASE loop = "down"
  <2>1. loop' = "down" /\ Indexes(queue') /\ Holdings'
    BY <1>1, <1>2, <1>3, <1>8, Fields DEF IInv, Indexes, Holdings, Clash
  <2>2. Staged' /\ InHand' /\ Unasked' /\ Spent'
    BY <1>1, <1>3, QueueAssumption DEF IInv, Staged, InHand, Unasked, Spent, Engaged
  <2>3. Packed' /\ Alive' /\ Asked'
    BY <1>1, <1>3, <1>4 DEF IInv, TypeOK, Packed, PackagesAreCompleted, Alive, Asked
  <2>4. Saved'
    BY <1>1, <1>3, <1>4 DEF IInv, TypeOK, Saved, Begun
  <2>5. QED
    BY <1>4, <1>5, <2>1, <2>2, <2>3, <2>4 DEF IInv
<1>9. QED
  BY <1>7, <1>8

-----------------------------------------------------------------------------
(* Crashes and resumption *)

\* A crash leaves leases, ledger and the files.
LEMMA DieKeeps ==
  ASSUME IInv, Die(queue), packages' \in [Task -> Nat]
  PROVE  IInv'
<1>1. /\ MaxCrashes # 0 /\ crashes' \in Nat /\ loop' = "down"
      /\ lost' = lost \union {t \in Task : Begun(t)}
      /\ worker' = [t \in Task |-> "idle"] /\ checks' = [t \in Task |-> 0]
      /\ stale' = 0 /\ stop' = FALSE /\ sweep' = {}
      /\ UNCHANGED <<disk, dispatched, asked>>
  BY RunAssumption DEF Die, Begun, IInv, TypeOK
<1>2. /\ queue' \in Queue
      /\ queue'.task = disk /\ queue'.ready = {}
      /\ queue'.blocked = [t \in Task |-> {}] /\ queue'.held = [t \in Task |-> {}]
      /\ queue'.ledger = queue.ledger
  BY DEF Die, Forget, Queue, IInv, TypeOK
<1>3. \A t \in Task : StatusOf(queue', t) = disk[t].status
  BY <1>2 DEF StatusOf
<1>4. worker' \in [Task -> Worker] /\ checks' \in [Task -> Nat] /\ lost' \subseteq Task
  BY <1>1 DEF Worker, IInv, TypeOK
<1>5. TypeOK'
  BY <1>1, <1>2, <1>4 DEF IInv, TypeOK
<1>6. Indexes(queue') /\ Holdings'
  BY <1>2 DEF Indexes, Holdings
<1>7. Staged' /\ InHand' /\ Empty' /\ Unasked' /\ Spent'
  BY <1>1 DEF Staged, Fits, InHand, Empty, Unasked, Spent, Engaged, Executing
<1>8. Packed' /\ Alive' /\ Asked'
  BY <1>1 DEF Packed, Alive, Asked
<1>9. Saved'
  <2>1. SUFFICES ASSUME ~Operators, ~UpsertMayFail, NEW t \in lost', Outside(t)
                 PROVE  StatusOf(queue', t) \notin Waiting /\ disk'[t].status \notin Waiting
    BY <1>1, <1>4 DEF Saved, Begun, Executing
  <2>2. t \in Task /\ disk[t].status \notin Waiting
    BY <1>1, <2>1 DEF IInv, TypeOK, Saved
  <2>3. QED
    BY <1>1, <1>3, <2>2
<1>10. QED
  BY <1>1, <1>5, <1>6, <1>7, <1>8, <1>9 DEF IInv

\* Whether the package was written or not.
LEMMA CrashKeeps ==
  ASSUME IInv, Crash \/ \E t \in Task : CrashInIntegration(t)
  PROVE  IInv'
<1>1. Die(queue) /\ packages' \in [Task -> Nat]
  BY DEF Crash, CrashInIntegration, IInv, TypeOK
<1>2. QED
  BY <1>1, DieKeeps

\* What recovery makes of a queue: the tasks whose dependencies have completed
\* are queued, the others blocked by what is left.
LEMMA RecoveredFields ==
  ASSUME NEW q \in Queue
  PROVE  LET p == Recovered(q) IN
         /\ p \in Queue
         /\ \A t \in Task : StatusOf(p, t) =
              IF StatusOf(q, t) \in Interrupted /\ NeedsReconciliation(q.task[t], t)
                THEN "ESCALATED"
              ELSE IF StatusOf(q, t) \notin Interrupted \union {"QUEUED", "PENDING"}
                THEN StatusOf(q, t)
              ELSE IF Deps[t] \ Completed(q) = {} THEN "QUEUED"
              ELSE "PENDING"
         /\ p.ready = {t \in Task : StatusOf(p, t) = "QUEUED"}
         /\ \A t \in Task : p.blocked[t] = IF StatusOf(p, t) = "PENDING" THEN Deps[t] \ Completed(q)
                                           ELSE {}
         /\ p.running = q.running /\ p.held = q.held /\ p.lease = q.lease /\ p.ledger = q.ledger
<1> DEFINE left(t) == Deps[t] \ Completed(q)
           status(t) ==
             LET s == StatusOf(q, t) IN
             IF s \in Interrupted /\ NeedsReconciliation(q.task[t], t) THEN "ESCALATED"
             ELSE IF s \notin Interrupted \union {"QUEUED", "PENDING"} THEN s
             ELSE IF left(t) = {} THEN "QUEUED"
             ELSE "PENDING"
           task == [t \in Task |-> [q.task[t] EXCEPT !.status = status(t)]]
           ready == {t \in Task : status(t) = "QUEUED"}
           blocked == [t \in Task |-> IF status(t) = "PENDING" THEN left(t) ELSE {}]
<1>1. \A t \in Task : status(t) \in Status
  BY Fields DEF Status
<1>2. \A t \in Task : left(t) \subseteq Task
  BY QueueAssumption
<1>3. Recovered(q) = [q EXCEPT !.task = task, !.ready = ready, !.blocked = blocked]
  BY DEF Recovered
<1>4. \A t \in Task : status(t) =
              IF StatusOf(q, t) \in Interrupted /\ NeedsReconciliation(q.task[t], t)
                THEN "ESCALATED"
              ELSE IF StatusOf(q, t) \notin Interrupted \union {"QUEUED", "PENDING"}
                THEN StatusOf(q, t)
              ELSE IF Deps[t] \ Completed(q) = {} THEN "QUEUED"
              ELSE "PENDING"
  OBVIOUS
<1> HIDE DEF status
<1>5. \A t \in Task : task[t] \in TaskRecord /\ task[t].status = status(t)
  <2>1. SUFFICES ASSUME NEW t \in Task
                 PROVE  task[t] \in TaskRecord /\ task[t].status = status(t)
    OBVIOUS
  <2>2. PICK r \in TaskRecord : r = q.task[t]
    BY Fields
  <2>3. PICK s \in Status : s = status(t)
    BY <1>1
  <2>4. [r EXCEPT !.status = s] \in TaskRecord /\ [r EXCEPT !.status = s].status = s
    BY DEF TaskRecord
  <2>5. QED
    BY <2>2, <2>3, <2>4
<1>6. task \in [Task -> TaskRecord] /\ ready \subseteq Task /\ blocked \in [Task -> SUBSET Task]
  BY <1>2, <1>5
<1>7. PICK T, D, B : T = task /\ D = ready /\ B = blocked
  OBVIOUS
<1>8. PICK p : p = [q EXCEPT !.task = T, !.ready = D, !.blocked = B]
  OBVIOUS
<1>9. p = Recovered(q)
  BY <1>3, <1>7, <1>8
<1> HIDE DEF task, ready, blocked, left
<1>10. /\ p \in Queue /\ p.task = T /\ p.ready = D /\ p.blocked = B
       /\ p.running = q.running /\ p.held = q.held /\ p.lease = q.lease /\ p.ledger = q.ledger
  BY <1>6, <1>7, <1>8 DEF Queue
<1>11. \A t \in Task : StatusOf(p, t) = status(t)
  BY <1>5, <1>7, <1>10 DEF StatusOf
<1>12. p.ready = {t \in Task : StatusOf(p, t) = "QUEUED"}
  BY <1>7, <1>10, <1>11 DEF ready
<1>13. \A t \in Task : p.blocked[t] = IF StatusOf(p, t) = "PENDING" THEN Deps[t] \ Completed(q)
                                      ELSE {}
  BY <1>7, <1>10, <1>11 DEF blocked, left
<1>14. QED
  BY <1>4, <1>9, <1>10, <1>11, <1>12, <1>13

\* A new engine finds the invariant in what it recovers.
LEMMA ResumeKeeps ==
  ASSUME IInv, Resume
  PROVE  IInv'
<1>1. /\ loop = "down" /\ queue' = Recovered(queue) /\ disk' = queue'.task
      /\ loop' \in {"dispatch", "closing"}
      /\ UNCHANGED <<packages, dispatched, worker, checks, stale, stop, sweep, history>>
  BY DEF Resume
<1>2. queue \in Queue /\ MaxCrashes # 0 /\ \A t \in Task : worker[t] = "idle"
  BY <1>1 DEF IInv, TypeOK, Alive, Empty
<1>3. /\ queue' \in Queue
      /\ \A t \in Task : StatusOf(queue', t) =
              IF StatusOf(queue, t) \in Interrupted /\ NeedsReconciliation(queue.task[t], t)
                THEN "ESCALATED"
              ELSE IF StatusOf(queue, t) \notin Interrupted \union {"QUEUED", "PENDING"}
                THEN StatusOf(queue, t)
              ELSE IF Deps[t] \ Completed(queue) = {} THEN "QUEUED"
              ELSE "PENDING"
      /\ queue'.ready = {t \in Task : StatusOf(queue', t) = "QUEUED"}
      /\ \A t \in Task : queue'.blocked[t] =
              IF StatusOf(queue', t) = "PENDING" THEN Deps[t] \ Completed(queue) ELSE {}
      /\ queue'.held = queue.held /\ queue'.ledger = queue.ledger
  BY <1>1, <1>2, RecoveredFields
<1>4. disk' \in [Task -> TaskRecord]
  BY <1>1, <1>3, Fields
<1>5. TypeOK'
  BY <1>1, <1>3, <1>4 DEF IInv, TypeOK, history
<1>6. Indexes(queue')
  BY <1>3 DEF Indexes
<1>7. Founded(queue')
  <2>1. SUFFICES ASSUME NEW t \in Task, StatusOf(queue', t) \in Waiting, NEW d \in Deps[t],
                        d \notin queue'.blocked[t]
                 PROVE  StatusOf(queue', d) = "COMPLETED"
    BY DEF Founded
  <2>2. StatusOf(queue, t) \in Interrupted \union {"QUEUED", "PENDING"}
    BY <1>3, <2>1 DEF Waiting
  <2>3. d \in Completed(queue)
    BY <1>3, <2>1, <2>2 DEF Waiting
  <2>4. d \in Task /\ StatusOf(queue, d) = "COMPLETED"
    BY <2>3 DEF Completed, StatusOf
  <2>5. QED
    BY <1>3, <2>4 DEF Interrupted
<1>8. Holdings' /\ Staged' /\ InHand' /\ Spent'
  BY <1>1, <1>2, <1>3 DEF IInv, Holdings, Clash, Staged, Fits, InHand, Spent, Engaged, Executing
<1>9. Empty' /\ Unasked' /\ Alive'
  BY <1>1, <1>2 DEF IInv, Empty, Unasked, Engaged, Executing, Alive
<1>10. Packed' /\ Asked'
  BY <1>2 DEF Packed, Asked
<1>11. Saved'
  <2>1. SUFFICES ASSUME ~Operators, ~UpsertMayFail, NEW t \in lost, Outside(t)
                 PROVE  StatusOf(queue', t) \notin Waiting /\ disk'[t].status \notin Waiting
    BY <1>1, <1>2 DEF Saved, Begun, Executing, history, IInv, TypeOK
  <2>2. t \in Task /\ StatusOf(queue, t) \notin Waiting
    BY <2>1 DEF IInv, TypeOK, Saved
  <2>3. StatusOf(queue, t) \in Interrupted => NeedsReconciliation(queue.task[t], t)
    BY <2>1 DEF Outside, NeedsReconciliation
  <2>4. StatusOf(queue', t) \notin Waiting
    BY <1>3, <2>2, <2>3 DEF Waiting
  <2>5. QED
    BY <1>1, <2>4 DEF StatusOf
<1>12. QED
  BY <1>5, <1>6, <1>7, <1>8, <1>9, <1>10, <1>11 DEF IInv

-----------------------------------------------------------------------------
(* The invariant holds *)

\* The queue of the plan.
LEMMA InitialQueue ==
  ASSUME Init
  PROVE  /\ queue \in Queue
         /\ \A t \in Task : StatusOf(queue, t) = IF Deps[t] = {} THEN "QUEUED" ELSE "PENDING"
         /\ queue.ready = {t \in Task : Deps[t] = {}} /\ queue.blocked = Deps
         /\ queue.held = [t \in Task |-> {}]
         /\ \A t \in Task : queue.ledger[t] = IF Deps[t] = {} THEN "QUEUED" ELSE "PENDING"
         /\ queue.running = {} /\ queue.lease = [r \in Resource |-> Free]
<1> DEFINE start == [t \in Task |-> IF Deps[t] = {} THEN "QUEUED" ELSE "PENDING"]
           task == [t \in Task |-> [status |-> start[t], retries |-> 0, repairs |-> 0,
                                    uncertain |-> FALSE]]
           held == [t \in Task |-> {}]
           lease == [r \in Resource |-> Free]
           ready == {t \in Task : Deps[t] = {}}
<1>1. start \in [Task -> Status]
  BY DEF Status
<1>2. task \in [Task -> TaskRecord] /\ \A t \in Task : task[t].status = start[t]
  BY <1>1 DEF TaskRecord
<1>3. held \in [Task -> SUBSET Resource] /\ lease \in [Resource -> Task \union {Free, Elsewhere}]
      /\ ready \subseteq Task /\ Deps \in [Task -> SUBSET Task]
  BY QueueAssumption
<1>4. queue = [task |-> task, ready |-> ready, blocked |-> Deps, running |-> {},
               held |-> held, lease |-> lease, ledger |-> start]
  BY DEF Init, Planned
<1>5. \A t \in Task : start[t] = IF Deps[t] = {} THEN "QUEUED" ELSE "PENDING"
  OBVIOUS
<1> HIDE DEF task, start
<1>6. queue \in Queue
  BY <1>1, <1>2, <1>3, <1>4 DEF Queue
<1>7. QED
  BY <1>2, <1>4, <1>5, <1>6 DEF StatusOf

\* The plan satisfies the invariant.
LEMMA InitialInvariant ==
  ASSUME Init
  PROVE  IInv
<1>1. /\ queue = Planned /\ disk = Planned.task
      /\ packages = [t \in Task |-> 0] /\ worker = [t \in Task |-> "idle"]
      /\ checks = [t \in Task |-> 0] /\ loop = "dispatch"
      /\ dispatched = 0 /\ stale = 0 /\ crashes = 0
      /\ stop = FALSE /\ sweep = {} /\ asked = {} /\ lost = {}
  BY DEF Init
<1>2. /\ queue \in Queue
      /\ \A t \in Task : StatusOf(queue, t) = IF Deps[t] = {} THEN "QUEUED" ELSE "PENDING"
      /\ queue.ready = {t \in Task : Deps[t] = {}} /\ queue.blocked = Deps
      /\ queue.held = [t \in Task |-> {}]
      /\ \A t \in Task : queue.ledger[t] = IF Deps[t] = {} THEN "QUEUED" ELSE "PENDING"
      /\ queue.running = {} /\ queue.lease = [r \in Resource |-> Free]
  BY InitialQueue
<1>3. disk \in [Task -> TaskRecord]
  BY <1>1, <1>2, Fields
<1>4. TypeOK
  BY <1>1, <1>2, <1>3 DEF TypeOK, Worker
<1>5. Indexes(queue)
  BY <1>2 DEF Indexes
<1>6. Founded(queue)
  BY <1>2 DEF Founded
<1>7. Holdings
  BY <1>2 DEF Holdings
<1>8. Staged /\ InHand /\ Empty /\ Unasked /\ Spent
  BY <1>1 DEF Staged, Fits, InHand, Empty, Unasked, Spent, Engaged, Executing
<1>9. Packed /\ Alive /\ Asked /\ Saved
  BY <1>1 DEF Packed, PackagesAreCompleted, Alive, Asked, Saved, Begun, Executing
<1>10. QED
  BY <1>4, <1>5, <1>6, <1>7, <1>8, <1>9 DEF IInv

\* Every step is a turn of a task or one of the steps beside.
LEMMA Steps ==
  ASSUME IInv, Next
  PROVE  \/ \E t \in Task : Turn(t)
         \/ Pop \/ Wait \/ GiveUp \/ Reap \/ Close \/ Save
         \/ \E t \in Task : EscalateUnrunnable(t) \/ CancelNext(t)
         \/ CancelRun \/ \E t \in Task : CancelTask(t)
         \/ \E r \in Resource : ForeignLease(r) \/ Lapse(r)
         \/ Crash \/ \E t \in Task : CrashInIntegration(t)
         \/ Resume
         \/ UNCHANGED vars
BY WorkTurn, KeepTurn DEF Next, Loop, Over

\* And every step keeps it.
LEMMA StepKeeps ==
  ASSUME IInv, [Next]_vars
  PROVE  IInv'
<1>1. CASE UNCHANGED vars
  <2>1. /\ UNCHANGED <<queue, disk, packages, dispatched, worker, checks, loop, stale, stop,
                       sweep, asked, lost, crashes>>
    BY <1>1 DEF vars
  <2>2. TypeOK' /\ Indexes(queue') /\ (loop' # "down" => Founded(queue')) /\ Holdings'
    BY <2>1 DEF IInv, TypeOK, Holdings, Clash
  <2>3. Staged' /\ InHand' /\ Empty' /\ Unasked' /\ Spent'
    BY <2>1 DEF IInv, Staged, InHand, Empty, Unasked, Spent, Engaged
  <2>4. Packed' /\ Alive' /\ Asked' /\ Saved'
    BY <2>1 DEF IInv, Packed, PackagesAreCompleted, Alive, Asked, Saved, Begun
  <2>5. QED
    BY <2>2, <2>3, <2>4 DEF IInv
<1>2. CASE Next
  BY <1>1, <1>2, Steps, TurnKeeps, PopKeeps, WaitKeeps, GiveUpKeeps, ReapKeeps, CloseKeepsInvariant,
     SaveKeeps, EscalateKeeps, CancelNextKeeps, OperatorKeeps, LeaseKeeps, CrashKeeps, ResumeKeeps
<1>3. QED
  BY <1>1, <1>2

\* The invariant holds in every run: whatever operators, other runs and crashes do.
THEOREM Inductive == Spec => []IInv
<1>1. Init => IInv
  BY InitialInvariant
<1>2. IInv /\ [Next]_vars => IInv'
  BY StepKeeps
<1>3. QED
  BY <1>1, <1>2, PTL DEF Spec

-----------------------------------------------------------------------------
(* What follows from it *)

\* A task works only when all it depends on has completed, with no hypothesis at
\* all: retries, failures, cancellations and recoveries included.
THEOREM DependenciesHold == Spec => []DependenciesFirst
<1>1. IInv => DependenciesFirst
  BY DEF IInv, InHand, DependenciesFirst, Active, Executing
<1>2. QED
  BY <1>1, Inductive, PTL

\* Two tasks that clash are not active together, unless one of them was cancelled
\* and has not noticed yet.
ExclusionOfTheLiving ==
  \A t, u \in Task :
    /\ t # u
    /\ Active(t) /\ StatusOf(queue, t) # "CANCELLED"
    /\ Active(u) /\ StatusOf(queue, u) # "CANCELLED"
    => ~Clash(t, u)

\* Two tasks that clash never work at the same time while both are meant to, with
\* no hypothesis: _resource_conflict_locked never lets the second one start.
THEOREM LivingTasksExclude == Spec => []ExclusionOfTheLiving
<1>1. ASSUME IInv PROVE ExclusionOfTheLiving
  <2>1. SUFFICES ASSUME NEW t \in Task, NEW u \in Task, t # u,
                        Active(t), StatusOf(queue, t) # "CANCELLED",
                        Active(u), StatusOf(queue, u) # "CANCELLED"
                 PROVE  ~Clash(t, u)
    BY DEF ExclusionOfTheLiving
  <2>2. queue.held[t] = Resources(t) /\ queue.held[u] = Resources(u)
    BY <1>1, <2>1 DEF Active, Engaged, IInv, InHand
  <2>3. CASE Resources(t) # {} /\ Resources(u) # {}
    BY <1>1, <2>1, <2>2, <2>3 DEF IInv, Holdings
  <2>4. CASE Resources(t) = {} \/ Resources(u) = {}
    BY <2>4 DEF Clash
  <2>5. QED
    BY <2>3, <2>4
<1>2. QED
  BY <1>1, Inductive, PTL

\* Without operators no task is cancelled at work, so none that clash work together.
THEOREM TasksExclude == ASSUME ~Operators PROVE Spec => []Exclusion
<1>1. ASSUME IInv, ExclusionOfTheLiving PROVE Exclusion
  <2>1. \A t \in Task : Active(t) => StatusOf(queue, t) # "CANCELLED"
    BY <1>1 DEF IInv, Unasked, Active, Engaged
  <2>2. QED
    BY <1>1, <2>1 DEF Exclusion, ExclusionOfTheLiving
<1>2. QED
  BY <1>1, Inductive, LivingTasksExclude, PTL

\* A package is delivered by a completed task, if nobody cancels a task during its
\* integration and no crash loses tasks.json.
THEOREM PackagesComplete == ASSUME MaxCrashes = 0, ~Operators PROVE Spec => []PackagesAreCompleted
<1>1. IInv => PackagesAreCompleted
  BY DEF IInv, Packed
<1>2. QED
  BY <1>1, Inductive, PTL

\* The types, for all constants.
THEOREM TypeCorrect == Spec => []TypeOK
<1>1. IInv => TypeOK
  BY DEF IInv
<1>2. QED
  BY <1>1, Inductive, PTL

\* The coroutines of a task go on in a step of their own, or are created by Pop.
LEMMA WhoMoves ==
  ASSUME IInv, [Next]_vars, NEW t \in Task, worker'[t] # worker[t], worker'[t] # "idle"
  PROVE  \/ Turn(t)
         \/ Pop /\ worker'[t] = "spawned"
<1>1. \A u \in Task : Turn(u) => u = t
  BY DEF Turn
<1>2. worker' # worker /\ ~(UNCHANGED vars)
  BY DEF vars
<1>3. ~Wait /\ ~GiveUp /\ ~Save /\ ~(\E u \in Task : EscalateUnrunnable(u) \/ CancelNext(u))
  BY <1>2 DEF Wait, GiveUp, Save, EscalateUnrunnable, CancelNext
<1>4. ~Reap /\ ~Close
  BY DEF Reap, Close
<1>5. ~CancelRun /\ ~(\E u \in Task : CancelTask(u))
      /\ ~(\E r \in Resource : ForeignLease(r) \/ Lapse(r)) /\ ~Resume
  BY <1>2 DEF CancelRun, CancelTask, ForeignLease, Lapse, Resume
<1>6. ~Crash /\ ~(\E u \in Task : CrashInIntegration(u))
  BY DEF Crash, CrashInIntegration, Die
<1>7. Pop => worker'[t] = "spawned"
  <2>1. ASSUME Pop PROVE \E x : worker' = worker \/ worker' = [worker EXCEPT ![x] = "spawned"]
    BY <2>1 DEF Pop
  <2>2. worker \in [Task -> Worker]
    BY DEF IInv, TypeOK
  <2>3. QED
    BY <1>2, <2>1, <2>2
<1>8. QED
  BY <1>1, <1>2, <1>3, <1>4, <1>5, <1>6, <1>7, Steps

\* Where a task begins to work, or goes on, the ledger has not completed it: not
\* even after a crash in which tasks.json missed the completion.
THEOREM CompletedStays == Spec => CompletedNeverReruns
<1> DEFINE Held(t) ==
      queue.ledger[t] = "COMPLETED" => worker'[t] \notin Executing \union {"spawned"}
<1>1. ASSUME IInv, [Next]_vars, NEW t \in Task PROVE Held(t)
  <2>1. SUFFICES ASSUME worker'[t] \in Executing \union {"spawned"}
                 PROVE  queue.ledger[t] # "COMPLETED"
    OBVIOUS
  <2>2. CASE worker[t] \in Executing \union {"spawned"}
    BY <1>1, <2>2 DEF IInv, Spent
  <2>3. CASE worker[t] \notin Executing \union {"spawned"}
    <3>1. Pop /\ worker'[t] = "spawned" /\ worker'[t] # worker[t]
      <4>1. worker'[t] # worker[t] /\ worker'[t] # "idle"
        BY <2>1, <2>3 DEF Executing
      <4>2. ~Turn(t)
        BY <2>1, <2>3 DEF Turn
      <4>3. QED
        BY <1>1, <2>3, <4>1, <4>2, WhoMoves
    <3>2. PICK p \in PopReady(queue, Startable) :
            p.out.ok /\ worker' = [worker EXCEPT ![p.t] = "spawned"]
      BY <3>1 DEF Pop
    <3>3. worker \in [Task -> Worker]
      BY <1>1 DEF IInv, TypeOK
    <3>4. p.t = t
      BY <3>1, <3>2, <3>3
    <3>5. ~Refuses(queue, t, "RUNNING")
      BY <3>2, <3>4, PopTold
    <3>6. QED
      BY <3>5, Moving DEF Refuses
  <2>4. QED
    BY <2>2, <2>3
<1>2. IInv /\ [Next]_vars => \A t \in Task : Held(t)
  BY <1>1
<1>3. QED
  BY <1>2, Inductive, PTL DEF Spec, CompletedNeverReruns

\* A task whose work outside a crash interrupted is not executed again, however
\* often the run crashes and resumes, if upsert_task does not fail.
THEOREM NoReplayOutside == ASSUME ~Operators, ~UpsertMayFail PROVE Spec => NoReplay
<1> DEFINE Still(t) == Scope[t] \in {"EXTERNAL", "EXCLUSIVE"} => worker'[t] \notin Executing
<1>1. ASSUME IInv, [Next]_vars, NEW t \in lost PROVE Still(t)
  <2>1. SUFFICES ASSUME Outside(t), worker'[t] \in Executing
                 PROVE  FALSE
    BY DEF Outside
  <2>2. t \in Task /\ worker[t] = "idle"
    BY <1>1, <2>1 DEF IInv, TypeOK, Saved
  <2>3. worker'[t] # worker[t] /\ worker'[t] # "idle" /\ worker'[t] # "spawned"
    BY <2>1, <2>2 DEF Executing
  <2>4. Turn(t)
    BY <1>1, <2>2, <2>3, WhoMoves
  <2>5. QED
    BY <2>2, <2>4 DEF Turn
<1>2. IInv /\ [Next]_vars => \A t \in lost : Still(t)
  BY <1>1
<1>3. QED
  BY <1>2, Inductive, PTL DEF Spec, NoReplay

\* A task cancelled between its dispatch and its start is not started, if no
\* crash loses the cancellation.
THEOREM CancelledStays == ASSUME MaxCrashes = 0 PROVE Spec => CancelHolds
<1> DEFINE Still(t) == worker[t] = "spawned" => worker'[t] # "produce"
<1>1. ASSUME IInv, [Next]_vars, NEW t \in asked PROVE Still(t)
  <2>1. SUFFICES ASSUME worker[t] = "spawned", worker'[t] = "produce"
                 PROVE  FALSE
    OBVIOUS
  <2>2. t \in Task /\ StatusOf(queue, t) = "CANCELLED"
    BY <1>1 DEF IInv, TypeOK, Asked
  <2>3. Turn(t)
    BY <1>1, <2>1, <2>2, WhoMoves
  <2>4. QED
    BY <2>1, <2>2, <2>3 DEF Turn
<1>2. IInv /\ [Next]_vars => \A t \in asked : Still(t)
  BY <1>1
<1>3. QED
  BY <1>2, Inductive, PTL DEF Spec, CancelHolds

-----------------------------------------------------------------------------
(* The indexes of the queue *)

\* The indexes, the leases and the ledger agree with the state of t.
Agrees(q, t) ==
  LET s == StatusOf(q, t) IN
  /\ s \in Working \union Waiting \union Terminal
  /\ t \in q.ready <=> s = "QUEUED"
  /\ q.blocked[t] # {} <=> s = "PENDING"
  /\ t \in q.running <=> s \in Working
  /\ q.held[t] # {} => s \in Working
  /\ \A r \in q.held[t] : q.lease[r] = t
  /\ s \in Waiting => q.ledger[t] = s
  /\ s \in Working => q.ledger[t] = "RUNNING"

Accurate(q) == \A t \in Task : Agrees(q, t)

\* Every lease belongs to a task that holds the resource.
Leased(q) ==
  \A r \in Resource : q.lease[r] # Free => q.lease[r] \in Task /\ r \in q.held[q.lease[r]]

\* A blocked task waits for tasks that can still complete.
Hopeful(q) ==
  \A t \in Task : \A d \in q.blocked[t] : d \in Deps[t] /\ StatusOf(q, d) \notin Terminal

\* When the loop has ended only the sweep of cancel_all is left.
Settling ==
  /\ loop \in {"saving", "ended"} => Unfinished(queue) \subseteq sweep
  /\ loop = "ended" => sweep = {}

\* No crash, and a node for every task.
Orderly == MaxCrashes = 0 /\ Task \subseteq Capable

QInv == Accurate(queue) /\ Settling

\* No operator and no other run, and dependencies without a cycle (PlannerAgent
\* refuses a plan that has one).
Acyclic == \A S \in SUBSET Task : S # {} => \E t \in S : Deps[t] \intersect S = {}
Alone == Orderly /\ ~Operators /\ Foreign = {} /\ Acyclic

\* A task in an active state has coroutines which go on, and a future raises
\* only when it is cancelled at the end.
Attended ==
  \A t \in Task :
    /\ StatusOf(queue, t) \in Working => worker[t] \notin {"idle", "settled", "done"}
    /\ worker[t] = "broken" => StatusOf(queue, t) \in Working
    /\ worker[t] = "raised" => loop = "closing"

\* The loop ends when nothing works, and nothing is left unless the dispatches
\* are used up.
Finished ==
  loop \in {"closing", "saving", "ended"} =>
    /\ \A t \in Task : StatusOf(queue, t) \notin Working
    /\ Unfinished(queue) = {} \/ dispatched >= MaxRounds

AInv == Leased(queue) /\ Hopeful(queue) /\ Attended /\ Finished

-----------------------------------------------------------------------------
(* What the operations do to the indexes *)

\* Nothing the indexes say of t has changed.
Alike(q, p, t) ==
  /\ StatusOf(p, t) = StatusOf(q, t)
  /\ t \in p.ready <=> t \in q.ready
  /\ p.blocked[t] # {} <=> q.blocked[t] # {}
  /\ t \in p.running <=> t \in q.running
  /\ p.held[t] = q.held[t]
  /\ \A r \in q.held[t] : q.lease[r] = t => p.lease[r] = t
  /\ p.ledger[t] = q.ledger[t]

\* Then they are as right as before.
LEMMA AlikeAgrees ==
  ASSUME NEW q, NEW p, NEW t, Agrees(q, t), Alike(q, p, t)
  PROVE  Agrees(p, t)
BY DEF Agrees, Alike

\* A queue that differs in counters only.
LEMMA SameAgrees ==
  ASSUME NEW q, NEW p, Same(q, p)
  PROVE  /\ Accurate(q) => Accurate(p)
         /\ Leased(q) => Leased(p)
         /\ Hopeful(q) => Hopeful(p)
<1>1. ASSUME NEW t \in Task PROVE Alike(q, p, t)
  BY DEF Same, Alike
<1>2. Accurate(q) => Accurate(p)
  BY <1>1, AlikeAgrees DEF Accurate
<1>3. Leased(q) => Leased(p)
  BY DEF Same, Leased
<1>4. Hopeful(q) => Hopeful(p)
  BY QueueAssumption DEF Same, Hopeful
<1>5. QED
  BY <1>2, <1>3, <1>4

\* A task at work goes on to another active state.
LEMMA PutAgrees ==
  ASSUME NEW q \in Queue, NEW t \in Task, NEW s \in Working, StatusOf(q, t) \in Working,
         NEW p, p = Put(q, t, s)
  PROVE  /\ Accurate(q) => Accurate(p)
         /\ Leased(q) => Leased(p)
         /\ Hopeful(q) => Hopeful(p)
<1>1. s \in Status
  BY DEF Working, Status
<1>2. /\ \A u \in Task : StatusOf(p, u) = IF u = t THEN s ELSE StatusOf(q, u)
      /\ p.ready = q.ready /\ p.blocked = q.blocked /\ p.running = q.running
      /\ p.held = q.held /\ p.lease = q.lease /\ p.ledger = q.ledger
  BY <1>1, PutFields
<1>3. ASSUME Accurate(q) PROVE Accurate(p)
  <2>1. ASSUME NEW u \in Task \ {t} PROVE Alike(q, p, u)
    BY <1>2, <2>1 DEF Alike
  <2>2. Agrees(q, t)
    BY <1>3 DEF Accurate
  <2>3. Agrees(p, t)
    BY <1>2, <2>2 DEF Agrees, Working, Waiting
  <2>4. \A u \in Task \ {t} : Agrees(p, u)
    BY <1>3, <2>1, AlikeAgrees DEF Accurate
  <2>5. QED
    BY <2>3, <2>4 DEF Accurate
<1>4. Leased(q) => Leased(p)
  BY <1>2 DEF Leased
<1>5. Hopeful(q) => Hopeful(p)
  BY <1>2, QueueAssumption DEF Hopeful, Working, Terminal, Dead
<1>6. QED
  BY <1>3, <1>4, <1>5

\* t has left the running tasks and its resources, and the others are as before.
Parted(q, c, t) ==
  /\ c \in Queue
  /\ \A u \in Task \ {t} :
       /\ StatusOf(c, u) = StatusOf(q, u)
       /\ u \in c.ready <=> u \in q.ready
       /\ c.blocked[u] = q.blocked[u] /\ c.held[u] = q.held[u] /\ c.ledger[u] = q.ledger[u]
  /\ c.running = q.running \ {t}
  /\ c.held[t] = {}
  /\ \A r \in Resource : c.lease[r] = IF r \in q.held[t] /\ q.lease[r] = t THEN Free
                                      ELSE q.lease[r]

\* t has given back what it held.
LEMMA LetGoParts ==
  ASSUME NEW q \in Queue, NEW t \in Task, NEW c, c = LetGo(q, t)
  PROVE  /\ Parted(q, c, t)
         /\ StatusOf(c, t) = StatusOf(q, t)
         /\ c.ready = q.ready /\ c.blocked = q.blocked /\ c.ledger = q.ledger
<1>1. /\ c \in Queue /\ c.ready = q.ready /\ c.blocked = q.blocked /\ c.ledger = q.ledger
      /\ \A u \in Task : StatusOf(c, u) = StatusOf(q, u)
      /\ c.running = q.running \ {t} /\ c.held = [q.held EXCEPT ![t] = {}]
      /\ \A r \in Resource : c.lease[r] = IF r \in q.held[t] /\ q.lease[r] = t THEN Free
                                          ELSE q.lease[r]
  BY LetGoFields
<1>2. c.held[t] = {} /\ \A u \in Task \ {t} : c.held[u] = q.held[u]
  BY <1>1, Fields
<1>3. QED
  BY <1>1, <1>2 DEF Parted

\* It stays so when t is changed further.
LEMMA PartedPut ==
  ASSUME NEW q, NEW a, NEW t \in Task, NEW s \in Status, Parted(q, a, t), NEW c, c = Put(a, t, s)
  PROVE  /\ Parted(q, c, t) /\ StatusOf(c, t) = s
         /\ c.ready = a.ready /\ c.blocked = a.blocked /\ c.ledger = a.ledger
<1>1. a \in Queue
  BY DEF Parted
<1>2. QED
  BY <1>1, PutFields DEF Parted

\* The ledger is told.
LEMMA PartedSync ==
  ASSUME NEW q, NEW a, NEW t \in Task, Parted(q, a, t), NEW c, c = Sync(a, t)
  PROVE  /\ Parted(q, c, t) /\ StatusOf(c, t) = StatusOf(a, t)
         /\ c.ready = a.ready /\ c.blocked = a.blocked /\ c.ledger[t] = StatusOf(a, t)
<1>1. a \in Queue
  BY DEF Parted
<1>2. QED
  BY <1>1, SyncFields DEF Parted

\* t leaves the ready queue and the blocked index.
LEMMA PartedDrop ==
  ASSUME NEW q, NEW a, NEW t \in Task, Parted(q, a, t), NEW c, c = Drop(a, t)
  PROVE  /\ Parted(q, c, t) /\ StatusOf(c, t) = StatusOf(a, t)
         /\ t \notin c.ready /\ c.blocked[t] = {}
<1>1. a \in Queue
  BY DEF Parted
<1>2. /\ c \in Queue /\ c.ready = a.ready \ {t} /\ c.blocked = [a.blocked EXCEPT ![t] = {}]
      /\ \A u \in Task : StatusOf(c, u) = StatusOf(a, u)
      /\ c.running = a.running /\ c.held = a.held /\ c.lease = a.lease /\ c.ledger = a.ledger
  BY <1>1, DropFields
<1>3. c.blocked[t] = {} /\ \A u \in Task \ {t} : c.blocked[u] = a.blocked[u]
  BY <1>1, <1>2, Fields
<1>4. QED
  BY <1>2, <1>3 DEF Parted

\* A counter of t changes.
LEMMA PartedSame ==
  ASSUME NEW q, NEW a, NEW t \in Task, Parted(q, a, t), NEW c, Same(a, c)
  PROVE  /\ Parted(q, c, t) /\ StatusOf(c, t) = StatusOf(a, t)
         /\ c.ready = a.ready /\ c.blocked = a.blocked
BY DEF Parted, Same

\* t is finished: the indexes and the leases are right if they were.
LEMMA PartedAgrees ==
  ASSUME NEW q \in Queue, NEW t \in Task, NEW c, Parted(q, c, t), Accurate(q),
         StatusOf(c, t) \in Terminal, t \notin c.ready, c.blocked[t] = {}
  PROVE  Accurate(c) /\ (Leased(q) => Leased(c))
<1>1. q.held \in [Task -> SUBSET Resource] /\ Free \notin Task
  BY Fields, QueueAssumption
<1>2. Agrees(c, t)
  BY DEF Agrees, Parted, Terminal, Dead, Waiting, Working
<1>3. ASSUME NEW u \in Task \ {t} PROVE Agrees(c, u)
  <2>1. \A r \in q.held[u] : q.lease[r] = u => c.lease[r] = u
    BY <1>1, <1>3 DEF Parted
  <2>2. Alike(q, c, u)
    BY <1>3, <2>1 DEF Alike, Parted
  <2>3. QED
    BY <1>3, <2>2, AlikeAgrees DEF Accurate
<1>4. ASSUME Leased(q), NEW r \in Resource, c.lease[r] # Free
      PROVE  c.lease[r] \in Task /\ r \in c.held[c.lease[r]]
  <2>1. c.lease[r] = q.lease[r] /\ ~(r \in q.held[t] /\ q.lease[r] = t)
    BY <1>4 DEF Parted
  <2>2. PICK w \in Task : w = q.lease[r] /\ r \in q.held[w]
    BY <1>4, <2>1 DEF Leased
  <2>3. QED
    BY <2>1, <2>2 DEF Parted
<1>5. QED
  BY <1>2, <1>3, <1>4 DEF Accurate, Leased


\* The cascade is never refused, and leaves no task that waits for a dead one.
LEMMA CascadeAgrees ==
  ASSUME NEW q \in Queue, Accurate(q), NEW o \in Cascade(q)
  PROVE  /\ o.ok /\ Accurate(o.q) /\ o.q \in Queue
         /\ Leased(q) => Leased(o.q)
         /\ (\A u \in Task : \A d \in q.blocked[u] : d \in Deps[u] /\ StatusOf(q, d) # "COMPLETED")
              => Hopeful(o.q)
         /\ \A u \in Task : StatusOf(o.q, u) \in {StatusOf(q, u), "FAILED"}
<1>1. ASSUME NEW b \in Blocked(q) PROVE ~Refuses(q, b, "FAILED")
  <2>1. b \in Task /\ Agrees(q, b) /\ q.blocked[b] # {}
    BY <1>1 DEF Accurate, Blocked
  <2>2. q.ledger[b] = "PENDING"
    BY <2>1 DEF Agrees, Waiting
  <2>3. QED
    BY <2>2, Moving DEF Refuses
<1>2. PICK D : D = Doomed(q)
  OBVIOUS
<1>3. D \in SUBSET Blocked(q) /\ Blocked(q) \subseteq Task
  BY <1>2 DEF Doomed, Blocked
<1>4. PICK p : p = Fail(q, D)
  OBVIOUS
<1>5. o = Ok(p)
  BY <1>1, <1>2, <1>4, CascadeFails
<1>6. o.ok /\ o.q = p
  BY <1>5 DEF Ok
<1>7. Fails(q, p, D) /\ \A u \in D : p.ledger[u] = "FAILED"
  BY <1>3, <1>4, FailFields
<1>8. Accurate(p)
  <2>1. ASSUME NEW u \in Task PROVE Agrees(p, u)
    <3>1. Agrees(q, u)
      BY <2>1 DEF Accurate
    <3>2. CASE u \in D
      <4>1. StatusOf(q, u) = "PENDING"
        BY <1>3, <3>1, <3>2 DEF Agrees, Blocked
      <4>2. QED
        BY <1>7, <3>1, <3>2, <4>1 DEF Agrees, Fails, Working, Waiting, Terminal, Dead
    <3>3. CASE u \notin D
      <4>1. Alike(q, p, u)
        BY <1>7, <2>1, <3>3 DEF Alike, Fails
      <4>2. QED
        BY <3>1, <4>1, AlikeAgrees
    <3>4. QED
      BY <3>2, <3>3
  <2>2. QED
    BY <2>1 DEF Accurate
<1>9. Leased(q) => Leased(p)
  BY <1>7 DEF Leased, Fails
<1>10. ASSUME \A u \in Task : \A d \in q.blocked[u] : d \in Deps[u] /\ StatusOf(q, d) # "COMPLETED"
       PROVE  Hopeful(p)
  <2>1. SUFFICES ASSUME NEW u \in Task, NEW d \in p.blocked[u]
                 PROVE  d \in Deps[u] /\ StatusOf(p, d) \notin Terminal
    BY DEF Hopeful
  <2>2. u \notin D /\ d \in q.blocked[u] /\ u \in Blocked(q)
    BY <1>7, <2>1 DEF Fails, Blocked
  <2>3. d \in Deps[u] /\ d \in Task /\ StatusOf(q, d) # "COMPLETED"
    BY <1>10, <2>1, <2>2, QueueAssumption
  <2>4. d \notin D /\ StatusOf(q, d) \notin Dead
    BY <1>2, <2>2 DEF Doomed
  <2>5. QED
    BY <1>7, <2>3, <2>4 DEF Fails, Terminal
<1>11. \A u \in Task : StatusOf(p, u) \in {StatusOf(q, u), "FAILED"}
  BY <1>7 DEF Fails
<1>12. QED
  BY <1>6, <1>7, <1>8, <1>9, <1>10, <1>11 DEF Fails

\* Nor is the completion of t refused to those that wait for it.
LEMMA UnblockAgrees ==
  ASSUME NEW q \in Queue, NEW t \in Task, Accurate(q), NEW o \in Unblock(q, t)
  PROVE  /\ o.ok /\ Accurate(o.q) /\ o.q \in Queue
         /\ Leased(q) => Leased(o.q)
         /\ (\A u \in Task : \A d \in q.blocked[u] :
               d \in Deps[u] /\ (d = t \/ StatusOf(q, d) \notin Terminal)) => Hopeful(o.q)
<1>1. ASSUME NEW b \in Blocked(q)
      PROVE  ~Refuses(q, b, "QUEUED") /\ b \in Task /\ StatusOf(q, b) = "PENDING"
  <2>1. b \in Task /\ Agrees(q, b) /\ q.blocked[b] # {}
    BY <1>1 DEF Accurate, Blocked
  <2>2. q.ledger[b] = "PENDING" /\ StatusOf(q, b) = "PENDING"
    BY <2>1 DEF Agrees, Waiting
  <2>3. CanMove("PENDING", "QUEUED")
    BY DEF CanMove, Moves
  <2>4. QED
    BY <2>1, <2>2, <2>3 DEF Refuses
<1>2. PICK F : F = {b \in Blocked(q) : q.blocked[b] = {t}}
  OBVIOUS
<1>3. PICK p : p = o.q
  OBVIOUS
<1>4. o.ok /\ Frees(q, p, t, F) /\ \A b \in F : p.ledger[b] = "QUEUED"
  BY <1>1, <1>2, <1>3, UnblockFrees
<1>5. Accurate(p)
  <2>1. ASSUME NEW u \in Task PROVE Agrees(p, u)
    <3>1. Agrees(q, u)
      BY <2>1 DEF Accurate
    <3>2. CASE u \in F
      <4>1. StatusOf(q, u) = "PENDING" /\ q.blocked[u] = {t}
        BY <1>1, <1>2, <3>2
      <4>2. u \in p.ready /\ p.blocked[u] = {} /\ StatusOf(p, u) = "QUEUED"
        BY <1>4, <2>1, <3>2, <4>1 DEF Frees
      <4>3. u \notin p.running /\ p.held[u] = {} /\ p.ledger[u] = "QUEUED"
        BY <1>4, <3>1, <3>2, <4>1 DEF Frees, Agrees, Working
      <4>4. QED
        BY <4>2, <4>3 DEF Agrees, Working, Waiting
    <3>3. CASE u \notin F
      <4>1. p.blocked[u] # {} <=> q.blocked[u] # {}
        <5>1. p.blocked[u] = q.blocked[u] \ {t}
          BY <1>4, <2>1 DEF Frees
        <5>2. q.blocked[u] # {t}
          BY <1>2, <2>1, <3>3 DEF Blocked
        <5>3. QED
          BY <5>1, <5>2
      <4>2. Alike(q, p, u)
        BY <1>4, <2>1, <3>3, <4>1 DEF Alike, Frees
      <4>3. QED
        BY <3>1, <4>2, AlikeAgrees
    <3>4. QED
      BY <3>2, <3>3
  <2>2. QED
    BY <2>1 DEF Accurate
<1>6. Leased(q) => Leased(p)
  BY <1>4 DEF Leased, Frees
<1>7. ASSUME \A u \in Task : \A d \in q.blocked[u] :
               d \in Deps[u] /\ (d = t \/ StatusOf(q, d) \notin Terminal)
      PROVE  Hopeful(p)
  <2>1. SUFFICES ASSUME NEW u \in Task, NEW d \in p.blocked[u]
                 PROVE  d \in Deps[u] /\ StatusOf(p, d) \notin Terminal
    BY DEF Hopeful
  <2>2. d \in q.blocked[u] /\ d # t
    BY <1>4, <2>1 DEF Frees
  <2>3. d \in Deps[u] /\ d \in Task /\ StatusOf(q, d) \notin Terminal
    BY <1>7, <2>1, <2>2, QueueAssumption
  <2>4. QED
    BY <1>4, <2>3 DEF Frees, Terminal, Dead
<1>8. QED
  BY <1>3, <1>4, <1>5, <1>6, <1>7 DEF Frees

\* Completing a task that the master has approved.
LEMMA CompletedAgrees ==
  ASSUME NEW q \in Queue, NEW t \in Task, Accurate(q),
         StatusOf(q, t) \in Terminal \union {"MASTER_REVIEW"}, NEW o \in MarkCompleted(q, t)
  PROVE  /\ Accurate(o.q)
         /\ Leased(q) => Leased(o.q)
         /\ StatusOf(q, t) = "MASTER_REVIEW" => o.ok /\ (Hopeful(q) => Hopeful(o.q))
<1>1. PICK a : a = LetGo(q, t)
  OBVIOUS
<1>2. /\ Parted(q, a, t) /\ StatusOf(a, t) = StatusOf(q, t)
      /\ a.ready = q.ready /\ a.blocked = q.blocked /\ a.ledger = q.ledger
  BY <1>1, LetGoParts
<1>3. Agrees(q, t)
  BY DEF Accurate
<1>4. t \notin q.ready /\ q.blocked[t] = {}
  BY <1>3 DEF Agrees, Terminal, Dead
<1> DEFINE s == "COMPLETED"
<1>5. s \in Status /\ s \in Terminal
  BY DEF Status, Terminal
<1>6. PICK b : b = Put(a, t, s)
  OBVIOUS
<1>7. /\ Parted(q, b, t) /\ StatusOf(b, t) = s
      /\ b.ready = a.ready /\ b.blocked = a.blocked /\ b.ledger = a.ledger
  BY <1>2, <1>5, <1>6, PartedPut
<1>8. CASE ~CanMove(StatusOf(q, t), "COMPLETED")
  <2>1. o.q = a
    BY <1>1, <1>8 DEF MarkCompleted, Raise
  <2>2. StatusOf(q, t) \in Terminal
    BY <1>8, Moving
  <2>3. QED
    BY <1>2, <1>4, <1>8, <2>1, <2>2, PartedAgrees, Moving
<1>9. CASE CanMove(StatusOf(q, t), "COMPLETED") /\ Refuses(q, t, "COMPLETED")
  <2>1. o.q = b
    BY <1>1, <1>6, <1>9 DEF MarkCompleted, Raise
  <2>2. StatusOf(q, t) # "MASTER_REVIEW"
    <3>1. StatusOf(q, t) = "MASTER_REVIEW" => q.ledger[t] = "RUNNING"
      BY <1>3 DEF Agrees, Working
    <3>2. CanMove("RUNNING", "COMPLETED")
      BY DEF CanMove, Moves
    <3>3. QED
      BY <1>9, <3>1, <3>2 DEF Refuses
  <2>3. QED
    BY <1>2, <1>4, <1>5, <1>7, <2>1, <2>2, PartedAgrees
<1>10. CASE CanMove(StatusOf(q, t), "COMPLETED") /\ ~Refuses(q, t, "COMPLETED")
  <2>1. PICK c : c = Sync(b, t)
    OBVIOUS
  <2>2. o \in Unblock(c, t)
    BY <1>1, <1>6, <1>10, <2>1 DEF MarkCompleted
  <2>3. /\ Parted(q, c, t) /\ StatusOf(c, t) = s
        /\ c.ready = q.ready /\ c.blocked = q.blocked
    BY <1>2, <1>7, <2>1, PartedSync
  <2>4. Accurate(c) /\ (Leased(q) => Leased(c)) /\ c \in Queue
    BY <1>4, <1>5, <2>3, PartedAgrees DEF Parted
  <2>5. ASSUME Hopeful(q), NEW u \in Task, NEW d \in c.blocked[u]
        PROVE  d \in Deps[u] /\ (d = t \/ StatusOf(c, d) \notin Terminal)
    <3>1. d \in Deps[u] /\ d \in Task /\ StatusOf(q, d) \notin Terminal
      BY <2>3, <2>5, QueueAssumption DEF Hopeful
    <3>2. QED
      BY <2>3, <3>1 DEF Parted
  <2>6. QED
    BY <2>2, <2>4, <2>5, UnblockAgrees
<1>11. QED
  BY <1>8, <1>9, <1>10

\* A task has died, and what waits for it fails with it.
LEMMA DeathAgrees ==
  ASSUME NEW q \in Queue, NEW t \in Task, NEW c, Parted(q, c, t), Accurate(q),
         StatusOf(c, t) \in Dead, t \notin c.ready, c.blocked[t] = {}, NEW o \in Cascade(c)
  PROVE  /\ o.ok /\ Accurate(o.q)
         /\ Leased(q) => Leased(o.q)
         /\ Hopeful(q) => Hopeful(o.q)
         /\ StatusOf(o.q, t) \in Dead
         /\ \A u \in Task \ {t} : StatusOf(o.q, u) \in {StatusOf(q, u), "FAILED"}
<1>1. c \in Queue /\ Accurate(c) /\ (Leased(q) => Leased(c))
  BY PartedAgrees DEF Parted, Terminal
<1>2. ASSUME Hopeful(q), NEW u \in Task, NEW d \in c.blocked[u]
      PROVE  d \in Deps[u] /\ StatusOf(c, d) # "COMPLETED"
  <2>1. u # t /\ d \in q.blocked[u]
    BY <1>2 DEF Parted
  <2>2. d \in Deps[u] /\ d \in Task /\ StatusOf(q, d) \notin Terminal
    BY <1>2, <2>1, QueueAssumption DEF Hopeful
  <2>3. QED
    BY <2>2 DEF Parted, Terminal, Dead
<1>3. /\ o.ok /\ Accurate(o.q)
      /\ Leased(c) => Leased(o.q)
      /\ Hopeful(q) => Hopeful(o.q)
      /\ \A u \in Task : StatusOf(o.q, u) \in {StatusOf(c, u), "FAILED"}
  BY <1>1, <1>2, CascadeAgrees
<1>4. /\ StatusOf(o.q, t) \in Dead
      /\ \A u \in Task \ {t} : StatusOf(o.q, u) \in {StatusOf(q, u), "FAILED"}
  BY <1>3 DEF Parted, Dead
<1>5. QED
  BY <1>1, <1>3, <1>4

\* A task that failed is queued again.
LEMMA AgainAgrees ==
  ASSUME NEW q \in Queue, NEW t \in Task, NEW b, Parted(q, b, t), Accurate(q),
         b.blocked[t] = {},
         NEW p, p = [Sync(Put(b, t, "QUEUED"), t) EXCEPT !.ready = @ \union {t}]
  PROVE  /\ Accurate(p)
         /\ Leased(q) => Leased(p)
         /\ Hopeful(q) => Hopeful(p)
         /\ StatusOf(p, t) = "QUEUED"
<1> DEFINE s == "QUEUED"
<1>1. s \in Status /\ q.held \in [Task -> SUBSET Resource] /\ Free \notin Task
  BY Fields, QueueAssumption DEF Status
<1>2. PICK f : f = Put(b, t, s)
  OBVIOUS
<1>3. Parted(q, f, t) /\ StatusOf(f, t) = s /\ f.ready = b.ready /\ f.blocked = b.blocked
  BY <1>1, <1>2, PartedPut
<1>4. PICK c : c = Sync(f, t)
  OBVIOUS
<1>5. /\ Parted(q, c, t) /\ StatusOf(c, t) = s /\ c.ready = b.ready /\ c.blocked = b.blocked
      /\ c.ledger[t] = s
  BY <1>3, <1>4, PartedSync
<1>6. p = [c EXCEPT !.ready = c.ready \union {t}]
  BY <1>2, <1>4
<1>7. /\ p.ready = c.ready \union {t} /\ p.task = c.task /\ p.blocked = c.blocked
      /\ p.running = c.running /\ p.held = c.held /\ p.lease = c.lease /\ p.ledger = c.ledger
  BY <1>5, <1>6 DEF Parted, Queue
<1>8. \A u \in Task : StatusOf(p, u) = StatusOf(c, u)
  BY <1>7 DEF StatusOf
<1>9. t \notin p.running /\ p.held[t] = {} /\ p.blocked[t] = {} /\ t \in p.ready
      /\ p.ledger[t] = s /\ StatusOf(p, t) = s
  BY <1>5, <1>7, <1>8 DEF Parted
<1>10. Agrees(p, t)
  BY <1>9 DEF Agrees, Waiting, Working
<1>11. ASSUME NEW u \in Task \ {t} PROVE Agrees(p, u)
  <2>1. \A r \in q.held[u] : q.lease[r] = u => p.lease[r] = u
    BY <1>1, <1>5, <1>7, <1>11 DEF Parted
  <2>2. Alike(q, p, u)
    BY <1>5, <1>7, <1>8, <1>11, <2>1 DEF Alike, Parted
  <2>3. QED
    BY <1>11, <2>2, AlikeAgrees DEF Accurate
<1>12. ASSUME Leased(q), NEW r \in Resource, p.lease[r] # Free
      PROVE  p.lease[r] \in Task /\ r \in p.held[p.lease[r]]
  <2>1. p.lease[r] = q.lease[r] /\ ~(r \in q.held[t] /\ q.lease[r] = t)
    BY <1>5, <1>7, <1>12 DEF Parted
  <2>2. PICK w \in Task : w = q.lease[r] /\ r \in q.held[w]
    BY <1>12, <2>1 DEF Leased
  <2>3. QED
    BY <1>5, <1>7, <2>1, <2>2 DEF Parted
<1>13. ASSUME Hopeful(q), NEW u \in Task, NEW d \in p.blocked[u]
       PROVE  d \in Deps[u] /\ StatusOf(p, d) \notin Terminal
  <2>1. u # t /\ d \in q.blocked[u]
    BY <1>5, <1>7, <1>9, <1>13 DEF Parted
  <2>2. d \in Deps[u] /\ d \in Task /\ StatusOf(q, d) \notin Terminal
    BY <1>13, <2>1, QueueAssumption DEF Hopeful
  <2>3. CASE d = t
    BY <1>9, <2>2, <2>3 DEF Terminal, Dead
  <2>4. CASE d # t
    BY <1>5, <1>8, <2>2, <2>4 DEF Parted
  <2>5. QED
    BY <2>3, <2>4
<1>14. QED
  BY <1>9, <1>10, <1>11, <1>12, <1>13 DEF Accurate, Leased, Hopeful

\* A task fails; one at work is never refused.
LEMMA FailedAgrees ==
  ASSUME NEW q \in Queue, NEW t \in Task, Accurate(q), StatusOf(q, t) \notin Waiting,
         NEW retryable \in BOOLEAN, NEW o \in MarkFailed(q, t, retryable)
  PROVE  /\ Accurate(o.q)
         /\ Leased(q) => Leased(o.q)
         /\ StatusOf(q, t) \in Working =>
              /\ o.ok
              /\ Hopeful(q) => Hopeful(o.q)
              /\ StatusOf(o.q, t) \in Dead \union {"QUEUED"}
<1>1. PICK l : l = LetGo(q, t)
  OBVIOUS
<1>2. /\ Parted(q, l, t) /\ StatusOf(l, t) = StatusOf(q, t)
      /\ l.ready = q.ready /\ l.blocked = q.blocked
  BY <1>1, LetGoParts
<1>3. Agrees(q, t)
  BY DEF Accurate
<1>4. t \notin q.ready /\ q.blocked[t] = {}
  BY <1>3 DEF Agrees, Waiting
<1>5. PICK a : a = [l EXCEPT !.task[t].retries = @ + 1]
  OBVIOUS
<1>6. Same(l, a)
  BY <1>2, <1>5, MarkFields DEF Parted
<1>7. /\ Parted(q, a, t) /\ StatusOf(a, t) = StatusOf(q, t)
      /\ a.ready = q.ready /\ a.blocked = q.blocked
  BY <1>2, <1>6, PartedSame
<1>8. CASE ~CanMove(StatusOf(q, t), "FAILED")
  <2>1. o.q = a
    BY <1>1, <1>5, <1>8 DEF MarkFailed, Raise
  <2>2. StatusOf(q, t) \in Terminal /\ StatusOf(q, t) \notin Working
    BY <1>3, <1>8, Moving DEF Agrees
  <2>3. QED
    BY <1>4, <1>7, <2>1, <2>2, PartedAgrees
<1>9. CASE CanMove(StatusOf(q, t), "FAILED")
  <2> DEFINE s == "FAILED"
  <2>1. s \in Status /\ s \in Dead /\ s \in Terminal
    BY DEF Status, Dead, Terminal
  <2>2. PICK b : b = Put(a, t, s)
    OBVIOUS
  <2>3. Parted(q, b, t) /\ StatusOf(b, t) = s /\ b.ready = q.ready /\ b.blocked = q.blocked
    BY <1>7, <2>1, <2>2, PartedPut
  <2>4. CASE Refuses(q, t, "FAILED")
    <3>1. o.q = b
      BY <1>1, <1>5, <1>9, <2>2, <2>4 DEF MarkFailed, Raise
    <3>2. CanMove("RUNNING", "FAILED")
      BY DEF CanMove, Moves
    <3>3. StatusOf(q, t) \notin Working
      BY <1>3, <2>4, <3>2 DEF Refuses, Agrees
    <3>4. QED
      BY <1>4, <2>1, <2>3, <3>1, <3>3, PartedAgrees
  <2>5. CASE ~Refuses(q, t, "FAILED") /\ retryable /\ a.task[t].retries <= MaxRetries
    <3>1. o = Ok([Sync(Put(b, t, "QUEUED"), t) EXCEPT !.ready = @ \union {t}])
      BY <1>1, <1>5, <1>9, <2>2, <2>5 DEF MarkFailed
    <3>2. o.ok /\ o.q = [Sync(Put(b, t, "QUEUED"), t) EXCEPT !.ready = @ \union {t}]
      BY <3>1 DEF Ok
    <3>3. QED
      BY <1>4, <2>3, <3>2, AgainAgrees
  <2>6. CASE ~Refuses(q, t, "FAILED") /\ ~(retryable /\ a.task[t].retries <= MaxRetries)
    <3>1. PICK c : c = Sync(b, t)
      OBVIOUS
    <3>2. o \in Cascade(c)
      BY <1>1, <1>5, <1>9, <2>2, <2>6, <3>1 DEF MarkFailed
    <3>3. Parted(q, c, t) /\ StatusOf(c, t) = s /\ c.ready = q.ready /\ c.blocked = q.blocked
      BY <2>3, <3>1, PartedSync
    <3>4. QED
      BY <1>4, <2>1, <3>2, <3>3, DeathAgrees
  <2>7. QED
    BY <2>4, <2>5, <2>6
<1>10. QED
  BY <1>8, <1>9

\* A task is escalated that does not wait.
LEMMA EscalatedAgrees ==
  ASSUME NEW q \in Queue, NEW t \in Task, Accurate(q), StatusOf(q, t) \notin Waiting,
         NEW o \in MarkEscalated(q, t)
  PROVE  /\ Accurate(o.q)
         /\ Leased(q) => Leased(o.q)
         /\ StatusOf(q, t) \in Working =>
              /\ o.ok
              /\ Hopeful(q) => Hopeful(o.q)
              /\ StatusOf(o.q, t) \in Dead
<1>1. PICK a : a = LetGo(q, t)
  OBVIOUS
<1>2. Parted(q, a, t) /\ StatusOf(a, t) = StatusOf(q, t)
  BY <1>1, LetGoParts
<1>3. PICK d : d = Drop(a, t)
  OBVIOUS
<1>4. Parted(q, d, t) /\ StatusOf(d, t) = StatusOf(q, t) /\ t \notin d.ready /\ d.blocked[t] = {}
  BY <1>2, <1>3, PartedDrop
<1>5. CASE ~(CanMove(StatusOf(q, t), "ESCALATED") \/ CanMove(StatusOf(q, t), "FAILED"))
  <2>1. o.q = d
    BY <1>1, <1>3, <1>5 DEF MarkEscalated, Raise
  <2>2. StatusOf(q, t) \in Terminal /\ StatusOf(q, t) \notin Working
    BY <1>5, Moving DEF Accurate, Agrees
  <2>3. QED
    BY <1>4, <2>1, <2>2, PartedAgrees
<1>6. CASE CanMove(StatusOf(q, t), "ESCALATED") \/ CanMove(StatusOf(q, t), "FAILED")
  <2> DEFINE s == "ESCALATED"
  <2>1. s \in Status /\ s \in Dead
    BY DEF Status, Dead
  <2>2. PICK b : b = Put(d, t, s)
    OBVIOUS
  <2>3. Parted(q, b, t) /\ StatusOf(b, t) = s /\ t \notin b.ready /\ b.blocked[t] = {}
    BY <1>4, <2>1, <2>2, PartedPut
  <2>4. o \in Cascade(b)
    BY <1>1, <1>3, <1>6, <2>2 DEF MarkEscalated
  <2>5. QED
    BY <2>1, <2>3, <2>4, DeathAgrees
<1>7. QED
  BY <1>5, <1>6

\* Any task is cancelled, unless it has completed.
LEMMA CancelledAgrees ==
  ASSUME NEW q \in Queue, NEW t \in Task, Accurate(q), NEW o \in MarkCancelled(q, t)
  PROVE  /\ o.ok /\ Accurate(o.q)
         /\ Leased(q) => Leased(o.q)
         /\ Hopeful(q) => Hopeful(o.q)
         /\ StatusOf(o.q, t) \in Terminal
         /\ \A u \in Task \ {t} : StatusOf(o.q, u) \in {StatusOf(q, u), "FAILED"}
<1>1. CASE StatusOf(q, t) \in {"COMPLETED", "CANCELLED"}
  <2>1. o.q = q /\ o.ok
    BY <1>1 DEF MarkCancelled, Ok
  <2>2. QED
    BY <1>1, <2>1 DEF Terminal, Dead
<1>2. CASE StatusOf(q, t) \notin {"COMPLETED", "CANCELLED"}
  <2>1. PICK a : a = LetGo(q, t)
    OBVIOUS
  <2>2. Parted(q, a, t)
    BY <2>1, LetGoParts
  <2>3. PICK d : d = Drop(a, t)
    OBVIOUS
  <2>4. Parted(q, d, t) /\ t \notin d.ready /\ d.blocked[t] = {}
    BY <2>2, <2>3, PartedDrop
  <2> DEFINE s == "CANCELLED"
  <2>5. s \in Status /\ s \in Dead
    BY DEF Status, Dead
  <2>6. PICK b : b = Put(d, t, s)
    OBVIOUS
  <2>7. Parted(q, b, t) /\ StatusOf(b, t) = s /\ t \notin b.ready /\ b.blocked[t] = {}
    BY <2>4, <2>5, <2>6, PartedPut
  <2>8. o \in Cascade(b)
    BY <1>2, <2>1, <2>3, <2>6 DEF MarkCancelled
  <2>9. QED
    BY <2>5, <2>7, <2>8, DeathAgrees DEF Terminal
<1>3. QED
  BY <1>1, <1>2

\* A dispatch is never refused, and takes no resource anyone holds.
LEMMA PopAgrees ==
  ASSUME NEW q \in Queue, Indexes(q), Accurate(q), NEW C, NEW p \in PopReady(q, C),
         NEW t, NEW o, t = p.t, o = p.out.q
  PROVE  /\ Accurate(o)
         /\ Leased(q) => Leased(o)
         /\ Hopeful(q) => Hopeful(o)
         /\ t \in Task /\ StatusOf(q, t) = "QUEUED" /\ p.out.ok
         /\ \A u \in Task : StatusOf(o, u) = IF u = t THEN "RUNNING" ELSE StatusOf(q, u)
<1>1. /\ t \in Task /\ t \in q.ready
      /\ ~Conflict(Resources(t), Holders(q))
      /\ \A u \in Task : StatusOf(o, u) = IF u = t THEN "RUNNING" ELSE StatusOf(q, u)
      /\ o.ready = q.ready \ {t} /\ o.blocked = q.blocked /\ o.running = q.running \union {t}
      /\ o.held = [q.held EXCEPT ![t] = Resources(t)]
      /\ \A r \in Resource : o.lease[r] = IF r \in Resources(t) THEN t ELSE q.lease[r]
      /\ \A u \in Task \ {t} : o.ledger[u] = q.ledger[u]
      /\ p.out.ok <=> ~Refuses(q, t, "RUNNING")
      /\ p.out.ok => o.ledger[t] = "RUNNING"
  BY PopFields
<1>2. Agrees(q, t)
  BY <1>1 DEF Accurate
<1>3. /\ StatusOf(q, t) = "QUEUED" /\ q.ledger[t] = "QUEUED" /\ q.blocked[t] = {}
      /\ q.held[t] = {}
  BY <1>1, <1>2 DEF Agrees, Waiting, Working
<1>4. p.out.ok
  BY <1>1, <1>3, Moving DEF Refuses
<1>5. /\ q.held \in [Task -> SUBSET Resource] /\ Resources(t) \subseteq Resource
      /\ o.held[t] = Resources(t) /\ \A u \in Task \ {t} : o.held[u] = q.held[u]
  BY <1>1, NeedsResources, Fields
<1>6. \A u \in Task : q.held[u] \intersect Resources(t) = {}
  <2>1. Resources(t) \intersect Holders(q) = {}
    BY <1>1 DEF Conflict
  <2>2. \A u \in Task : q.held[u] \subseteq Holders(q)
    BY DEF Holders
  <2>3. QED
    BY <2>1, <2>2
<1>7. Agrees(o, t)
  BY <1>1, <1>3, <1>4, <1>5 DEF Agrees, Working, Waiting
<1>8. ASSUME NEW u \in Task \ {t} PROVE Agrees(o, u)
  <2>1. \A r \in q.held[u] : q.lease[r] = u => o.lease[r] = u
    BY <1>1, <1>5, <1>6, <1>8
  <2>2. Alike(q, o, u)
    BY <1>1, <1>5, <1>8, <2>1 DEF Alike
  <2>3. QED
    BY <1>8, <2>2, AlikeAgrees DEF Accurate
<1>9. ASSUME Leased(q), NEW r \in Resource, o.lease[r] # Free
      PROVE  o.lease[r] \in Task /\ r \in o.held[o.lease[r]]
  <2>1. CASE r \in Resources(t)
    BY <1>1, <1>5, <2>1
  <2>2. CASE r \notin Resources(t)
    <3>1. o.lease[r] = q.lease[r]
      BY <1>1, <2>2
    <3>2. PICK w \in Task : w = q.lease[r] /\ r \in q.held[w]
      BY <1>9, <3>1 DEF Leased
    <3>3. QED
      BY <1>3, <1>5, <3>1, <3>2
  <2>3. QED
    BY <2>1, <2>2
<1>10. Hopeful(q) => Hopeful(o)
  BY <1>1, QueueAssumption DEF Hopeful, Terminal, Dead
<1>11. QED
  BY <1>1, <1>3, <1>4, <1>7, <1>8, <1>9, <1>10 DEF Accurate, Leased

-----------------------------------------------------------------------------
(* A step of the coroutines of one task, again *)

\* q is as good as the queue, and t is still at work in it.
Near(q, t) ==
  /\ q \in Queue /\ Indexes(q) /\ Accurate(q)
  /\ Leased(queue) => Leased(q)
  /\ Hopeful(queue) => Hopeful(q)
  /\ StatusOf(q, t) \in Working \union {"CANCELLED"}
  /\ ~Operators => StatusOf(q, t) \in Working

\* The coroutines of t leave the indexes right; without operators they end with
\* a task that is not at work any more, and cancel it only at the end of the run.
Clean(t) ==
  /\ Accurate(queue')
  /\ ~Operators /\ Attended =>
       /\ Leased(queue) => Leased(queue')
       /\ Hopeful(queue) => Hopeful(queue')
       /\ worker'[t] \in {"settled", "done"} => StatusOf(queue', t) \notin Working
       /\ worker'[t] = "broken" => StatusOf(queue', t) \in Working
       /\ worker'[t] = "raised" => loop = "closing"
       /\ StatusOf(queue', t) = "CANCELLED" => loop = "closing" \/ StatusOf(queue, t) = "CANCELLED"
       /\ StatusOf(queue', t) \in Working => StatusOf(queue, t) \in Working
       /\ StatusOf(queue, t) \in Terminal => StatusOf(queue', t) \in Terminal

\* The task whose coroutines run is at work, unless an operator has cancelled it.
LEMMA Busy ==
  ASSUME IInv, Accurate(queue), NEW t \in Task,
         worker[t] \in Executing \union {"spawned", "expired"}
  PROVE  Near(queue, t)
<1>1. /\ Fits(worker[t], StatusOf(queue, t)) /\ queue \in Queue /\ Indexes(queue)
      /\ ~Operators => StatusOf(queue, t) # "CANCELLED"
  BY DEF IInv, Staged, TypeOK, Unasked, Engaged
<1>2. StatusOf(queue, t) \in Working \union {"CANCELLED"}
  BY <1>1 DEF Fits, Working, Executing
<1>3. QED
  BY <1>1, <1>2 DEF Near

\* A counter of t changes, and t is still at work.
LEMMA NearSame ==
  ASSUME NEW t \in Task, NEW q, Near(q, t), NEW c, Same(q, c)
  PROVE  Near(c, t)
<1>1. c \in Queue /\ Indexes(c)
  BY SameOperation DEF Near, Operation
<1>2. StatusOf(c, t) = StatusOf(q, t)
  BY DEF Same
<1>3. QED
  BY <1>1, <1>2, SameAgrees DEF Near

\* t moves from one active state to another.
LEMMA NearPut ==
  ASSUME NEW t \in Task, NEW q, Near(q, t), StatusOf(q, t) \in Working, NEW s \in Working,
         NEW c, c = Put(q, t, s)
  PROVE  Near(c, t)
<1>1. s \in Status \ Waiting /\ StatusOf(q, t) \notin Waiting
      /\ StatusOf(q, t) \notin {"COMPLETED", "CANCELLED"}
  BY DEF Working, Waiting, Status
<1>2. c \in Queue /\ Indexes(c) /\ StatusOf(c, t) = s
  BY <1>1, PutOperation DEF Near, Operation
<1>3. QED
  BY <1>2, PutAgrees DEF Near

\* The coroutines go on.
LEMMA StageClean ==
  ASSUME IInv, Accurate(queue), NEW t \in Task, Near(queue, t), Near(queue', t),
         NEW stage \in Executing \union {"expired"}, worker' = [worker EXCEPT ![t] = stage]
  PROVE  Clean(t)
<1>1. worker'[t] = stage
  BY DEF IInv, TypeOK
<1>2. \A s \in Working : s \notin Terminal /\ s # "CANCELLED"
  BY DEF Working, Terminal, Dead
<1>3. QED
  BY <1>1, <1>2 DEF Clean, Near, Executing

\* The inner coroutine ends.
LEMMA SettleClean ==
  ASSUME IInv, NEW t \in Task, Near(queue, t), NEW S, Settle(t, S),
         \A o \in S :
           /\ Accurate(o.q)
           /\ ~Operators =>
                /\ Leased(queue) => Leased(o.q)
                /\ Hopeful(queue) => Hopeful(o.q)
                /\ StatusOf(o.q, t) # "CANCELLED"
                /\ o.ok <=> StatusOf(o.q, t) \notin Working
  PROVE  Clean(t)
<1>1. PICK o \in S : /\ queue' = o.q
                     /\ worker' = [worker EXCEPT ![t] = IF o.ok THEN "settled" ELSE "broken"]
  BY DEF Settle
<1>2. worker'[t] = IF o.ok THEN "settled" ELSE "broken"
  BY <1>1 DEF IInv, TypeOK
<1>3. \A s \in Working : s \notin Terminal
  BY DEF Working, Terminal, Dead
<1>4. QED
  BY <1>1, <1>2, <1>3 DEF Clean, Near

\* The inner coroutine raises and leaves t to the outer one.
LEMMA RaiseClean ==
  ASSUME IInv, NEW t \in Task, Near(queue, t), NEW q, Near(q, t), Settle(t, {Raise(q)})
  PROVE  Clean(t)
<1>1. ASSUME NEW o \in {Raise(q)} PROVE o.q = q /\ ~o.ok
  BY <1>1 DEF Raise
<1>2. "CANCELLED" \notin Working
  BY DEF Working
<1>3. QED
  BY <1>1, <1>2, SettleClean DEF Near

\* The inner coroutine escalates its task.
LEMMA EscalatedClean ==
  ASSUME IInv, NEW t \in Task, Near(queue, t), NEW q, Near(q, t), Settle(t, MarkEscalated(q, t))
  PROVE  Clean(t)
<1>1. q \in Queue /\ Indexes(q) /\ Accurate(q) /\ StatusOf(q, t) \notin Waiting
      /\ StatusOf(q, t) # "PENDING"
  BY DEF Near, Working, Waiting
<1>2. ASSUME NEW o \in MarkEscalated(q, t)
      PROVE  /\ Accurate(o.q)
             /\ Leased(q) => Leased(o.q)
             /\ StatusOf(q, t) \in Working =>
                  o.ok /\ (Hopeful(q) => Hopeful(o.q)) /\ StatusOf(o.q, t) = "ESCALATED"
  <2>1. StatusOf(o.q, t) \in {StatusOf(q, t), "ESCALATED"}
    BY <1>1, <1>2, MarkEscalatedOperation
  <2>2. StatusOf(q, t) \in Working => StatusOf(q, t) \notin Dead
    BY DEF Working, Dead
  <2>3. QED
    BY <1>1, <1>2, <2>1, <2>2, EscalatedAgrees
<1>3. "ESCALATED" \notin Working
  BY DEF Working
<1>4. QED
  BY <1>2, <1>3, SettleClean DEF Near

\* A coroutine that sees its task cancelled settles; without operators none does.
LEMMA CancelledClean ==
  ASSUME IInv, Accurate(queue), NEW t \in Task, worker[t] \in Executing \union {"spawned"},
         CheckCancelled(t), Settle(t, MarkCancelled(queue, t))
  PROVE  Clean(t)
<1>1. Near(queue, t)
  BY Busy
<1>2. Operators
  BY <1>1 DEF CheckCancelled, IInv, Unasked, Near, Working
<1>3. \A o \in MarkCancelled(queue, t) : Accurate(o.q)
  BY <1>1, CancelledAgrees DEF Near
<1>4. QED
  BY <1>1, <1>2, <1>3, SettleClean

\* The inner coroutine goes on to another stage, or the state machine refuses.
LEMMA AdvanceClean ==
  ASSUME IInv, Accurate(queue), NEW t \in Task, worker[t] \in Executing,
         NEW via, via # "CANCELLED", NEW s \in Working, NEW stage \in Executing,
         Advance(t, via, s, stage)
  PROVE  Clean(t)
<1>1. Near(queue, t)
  BY Busy
<1>2. CASE CanMove(StatusOf(queue, t), via)
  <2>1. queue' = Put(queue, t, s) /\ worker' = [worker EXCEPT ![t] = stage]
    BY <1>2 DEF Advance
  <2>2. StatusOf(queue, t) \in Working
    BY <1>1, <1>2, Moving DEF Near
  <2>3. Near(queue', t)
    BY <1>1, <2>1, <2>2, NearPut
  <2>4. QED
    BY <1>1, <2>1, <2>3, StageClean
<1>3. CASE ~CanMove(StatusOf(queue, t), via)
  <2>1. Settle(t, {Raise(queue)})
    BY <1>3 DEF Advance
  <2>2. QED
    BY <1>1, <2>1, RaiseClean
<1>4. QED
  BY <1>2, <1>3

\* A rejected candidate is repaired or escalated.
LEMMA RejectClean ==
  ASSUME IInv, Accurate(queue), NEW t \in Task, worker[t] \in Executing, NEW q, Near(q, t),
         Reject(t, q)
  PROVE  Clean(t)
<1>1. Near(queue, t) /\ q \in Queue
  BY Busy DEF Near
<1>2. PICK n \in Nat : n = q.task[t].repairs + 1
  BY <1>1, Fields DEF TaskRecord
<1>3. PICK c : c = [q EXCEPT !.task[t].repairs = n]
  OBVIOUS
<1>4. Same(q, c)
  BY <1>1, <1>2, <1>3, MarkFields
<1>5. Near(c, t) /\ StatusOf(c, t) = StatusOf(q, t)
  BY <1>4, NearSame DEF Same
<1>6. \/ Settle(t, MarkEscalated(c, t))
      \/ Settle(t, MarkEscalated(q, t))
      \/ /\ CanMove(StatusOf(q, t), "REPAIRING")
         /\ queue' = Put(c, t, "REPAIRING")
         /\ worker' = [worker EXCEPT ![t] = "repair"]
      \/ Settle(t, {Raise(c)})
  BY <1>2, <1>3 DEF Reject
<1>7. CASE Settle(t, MarkEscalated(c, t)) \/ Settle(t, MarkEscalated(q, t))
  BY <1>1, <1>5, <1>7, EscalatedClean
<1>8. CASE /\ CanMove(StatusOf(q, t), "REPAIRING")
           /\ queue' = Put(c, t, "REPAIRING")
           /\ worker' = [worker EXCEPT ![t] = "repair"]
  <2> DEFINE s == "REPAIRING"
             stage == "repair"
  <2>1. s \in Working /\ stage \in Executing
    BY DEF Working, Executing
  <2>2. StatusOf(c, t) \in Working
    BY <1>5, <1>8, Moving DEF Near
  <2>3. queue' = Put(c, t, s) /\ worker' = [worker EXCEPT ![t] = stage]
    BY <1>8
  <2> HIDE DEF s, stage
  <2>4. Near(queue', t)
    BY <1>5, <2>1, <2>2, <2>3, NearPut
  <2>5. QED
    BY <1>1, <2>1, <2>3, <2>4, StageClean
<1>9. CASE Settle(t, {Raise(c)})
  BY <1>1, <1>5, <1>9, RaiseClean
<1>10. QED
  BY <1>6, <1>7, <1>8, <1>9

\* The integration ends.
LEMMA IntegrationClean ==
  ASSUME IInv, Accurate(queue), NEW t \in Task, worker[t] = "integrate",
         \/ Settle(t, MarkCompleted(queue, t))
         \/ Settle(t, MarkFailed(queue, t, TRUE))
  PROVE  Clean(t)
<1>1. Near(queue, t) /\ worker[t] \in Executing
  BY Busy DEF Executing
<1>2. /\ queue \in Queue /\ Indexes(queue) /\ StatusOf(queue, t) \notin Waiting
      /\ StatusOf(queue, t) # "PENDING"
      /\ \A d \in Deps[t] : StatusOf(queue, d) = "COMPLETED"
  BY <1>1, AtWork DEF Waiting
<1>3. StatusOf(queue, t) \in {"MASTER_REVIEW", "CANCELLED"}
  BY DEF IInv, Staged, Fits
<1>4. ~Operators => StatusOf(queue, t) = "MASTER_REVIEW"
  BY <1>1, <1>3 DEF Near, Working
<1>5. /\ StatusOf(queue, t) \in Terminal \union {"MASTER_REVIEW"}
      /\ CanMove("MASTER_REVIEW", "COMPLETED")
  BY <1>3, Moving DEF Terminal, Dead
<1>6. "MASTER_REVIEW" \in Working /\ "COMPLETED" \notin Working /\ "QUEUED" \notin Working
      /\ "FAILED" \notin Working
  BY DEF Working
<1>7. CASE Settle(t, MarkCompleted(queue, t))
  <2>1. ASSUME NEW o \in MarkCompleted(queue, t)
        PROVE  /\ Accurate(o.q)
               /\ ~Operators =>
                    /\ Leased(queue) => Leased(o.q)
                    /\ Hopeful(queue) => Hopeful(o.q)
                    /\ StatusOf(o.q, t) = "COMPLETED"
                    /\ o.ok
    <3>1. CanMove(StatusOf(queue, t), "COMPLETED") => StatusOf(o.q, t) = "COMPLETED"
      BY <1>2, <2>1, MarkCompletedOperation
    <3>2. /\ Accurate(o.q)
          /\ Leased(queue) => Leased(o.q)
          /\ StatusOf(queue, t) = "MASTER_REVIEW" => o.ok /\ (Hopeful(queue) => Hopeful(o.q))
      BY <1>2, <1>5, <2>1, CompletedAgrees
    <3>3. QED
      BY <1>4, <1>5, <3>1, <3>2
  <2>2. QED
    BY <1>1, <1>6, <1>7, <2>1, SettleClean
<1>8. CASE Settle(t, MarkFailed(queue, t, TRUE))
  <2>1. ASSUME NEW o \in MarkFailed(queue, t, TRUE)
        PROVE  /\ Accurate(o.q)
               /\ ~Operators =>
                    /\ Leased(queue) => Leased(o.q)
                    /\ Hopeful(queue) => Hopeful(o.q)
                    /\ StatusOf(o.q, t) \in {"FAILED", "QUEUED"}
                    /\ o.ok
    <3>1. StatusOf(o.q, t) \in {StatusOf(queue, t), "FAILED", "QUEUED"}
      BY <1>2, <2>1, MarkFailedOperation
    <3>2. /\ Accurate(o.q)
          /\ Leased(queue) => Leased(o.q)
          /\ StatusOf(queue, t) \in Working =>
               /\ o.ok
               /\ Hopeful(queue) => Hopeful(o.q)
               /\ StatusOf(o.q, t) \in Dead \union {"QUEUED"}
      BY <1>2, <2>1, FailedAgrees
    <3>3. QED
      BY <1>4, <1>6, <3>1, <3>2 DEF Dead
  <2>2. QED
    BY <1>1, <1>6, <1>8, <2>1, SettleClean
<1>9. QED
  BY <1>7, <1>8

\* Validating again, or escalating.
LEMMA NotValidatedClean ==
  ASSUME IInv, Accurate(queue), NEW t \in Task, NotValidated(t)
  PROVE  Clean(t)
<1>1. worker[t] = "verify" /\ worker[t] \in Executing /\ Near(queue, t)
  BY Busy DEF NotValidated, InStage, Executing
<1>2. CASE ~CanMove(StatusOf(queue, t), "QUALITY_GATE")
  BY <1>1, <1>2, RaiseClean DEF NotValidated
<1>3. CASE CanMove(StatusOf(queue, t), "QUALITY_GATE") /\ checks[t] < MaxValidation /\ ~stop
  <2>1. queue' = queue /\ worker' = worker
    BY <1>3 DEF NotValidated
  <2>2. worker' = [worker EXCEPT ![t] = worker[t]] /\ Near(queue', t)
    BY <1>1, <2>1 DEF IInv, TypeOK
  <2>3. QED
    BY <1>1, <2>2, StageClean
<1>4. CASE CanMove(StatusOf(queue, t), "QUALITY_GATE") /\ ~(checks[t] < MaxValidation /\ ~stop)
  <2> DEFINE s == "QUALITY_GATE"
  <2>1. PICK q : q = Put(queue, t, s)
    OBVIOUS
  <2>2. Settle(t, MarkEscalated(q, t))
    BY <1>4, <2>1 DEF NotValidated
  <2>3. s \in Working /\ StatusOf(queue, t) \in Working
    BY <1>1, <1>4, Moving DEF Near, Working
  <2>4. Near(q, t)
    BY <1>1, <2>1, <2>3, NearPut
  <2>5. QED
    BY <1>1, <2>2, <2>4, EscalatedClean
<1>5. QED
  BY <1>2, <1>3, <1>4

\* Every step of the inner coroutine is clean.
LEMMA WorkClean ==
  ASSUME IInv, Accurate(queue), NEW t \in Task, Work(t)
  PROVE  Clean(t)
<1>1. worker[t] \in Executing => Near(queue, t)
  BY Busy
<1> DEFINE v == "VALIDATING"
           g == "QUALITY_GATE"
           m == "MASTER_REVIEW"
           verify == "verify"
           review == "review"
           integrate == "integrate"
<1>2. /\ v # "CANCELLED" /\ g # "CANCELLED"
      /\ v \in Working /\ g \in Working /\ m \in Working
      /\ verify \in Executing /\ review \in Executing /\ integrate \in Executing
  BY DEF Working, Executing
<1>3. CASE Break(t)
  BY <1>1, <1>3, RaiseClean DEF Break
<1>4. CASE Produced(t) \/ Repaired(t)
  <2>1. /\ worker[t] \in Executing
        /\ IF CheckCancelled(t) THEN Settle(t, MarkCancelled(queue, t))
           ELSE Advance(t, v, v, verify)
    BY <1>4 DEF Produced, Repaired, InStage, Executing
  <2> HIDE DEF v, verify
  <2>2. QED
    BY <1>2, <2>1, CancelledClean, AdvanceClean
<1>5. CASE Passed(t)
  <2>1. worker[t] \in Executing /\ Advance(t, g, m, review)
    BY <1>5 DEF Passed, InStage, Executing
  <2> HIDE DEF g, m, review
  <2>2. QED
    BY <1>2, <2>1, AdvanceClean
<1>6. CASE NotValidated(t)
  BY <1>6, NotValidatedClean
<1>7. CASE Rejected(t)
  <2>1. worker[t] \in Executing /\ Near(queue, t)
    BY <1>1, <1>7 DEF Rejected, InStage, Executing
  <2>2. PICK q : q = Put(queue, t, g)
    OBVIOUS
  <2>3. CASE CanMove(StatusOf(queue, t), "QUALITY_GATE")
    <3>1. Reject(t, q)
      BY <1>7, <2>2, <2>3 DEF Rejected
    <3>2. StatusOf(queue, t) \in Working
      BY <2>1, <2>3, Moving DEF Near
    <3>3. Near(q, t)
      BY <1>2, <2>1, <2>2, <3>2, NearPut
    <3>4. QED
      BY <2>1, <3>1, <3>3, RejectClean
  <2>4. CASE ~CanMove(StatusOf(queue, t), "QUALITY_GATE")
    BY <1>7, <2>1, <2>4, RaiseClean DEF Rejected
  <2>5. QED
    BY <2>3, <2>4
<1>8. CASE Approved(t)
  <2>1. /\ worker[t] \in Executing /\ Near(queue, t)
        /\ IF CheckCancelled(t) THEN Settle(t, MarkCancelled(queue, t))
           ELSE queue' = queue /\ worker' = [worker EXCEPT ![t] = integrate]
    BY <1>1, <1>8 DEF Approved, InStage, Executing
  <2>2. CASE CheckCancelled(t)
    BY <2>1, <2>2, CancelledClean
  <2>3. CASE ~CheckCancelled(t)
    <3> HIDE DEF integrate
    <3>1. Near(queue', t)
      BY <2>1, <2>3
    <3>2. QED
      BY <1>2, <2>1, <2>3, <3>1, StageClean
  <2>4. QED
    BY <2>2, <2>3
<1>9. CASE ReviewRejected(t)
  BY <1>1, <1>9, RejectClean DEF ReviewRejected, InStage, Executing
<1>10. CASE ReviewBlocked(t)
  BY <1>1, <1>10, EscalatedClean DEF ReviewBlocked, InStage, Executing
<1>11. CASE Integrated(t) \/ NotIntegrated(t)
  BY <1>11, IntegrationClean DEF Integrated, NotIntegrated, InStage
<1>12. QED
  BY <1>3, <1>4, <1>5, <1>6, <1>7, <1>8, <1>9, <1>10, <1>11 DEF Work

\* What the outer coroutine leaves.
LEMMA FinishOutcome ==
  ASSUME IInv, NEW t \in Task, NEW S, Finish(t, S)
  PROVE  \E o \in S :
           IF o.ok THEN queue' = o.q /\ worker'[t] = "done"
           ELSE \E f \in MarkFailed(o.q, t, FALSE) :
                  queue' = f.q /\ worker'[t] = IF f.ok THEN "done" ELSE "raised"
<1>1. worker \in [Task -> Worker]
  BY DEF IInv, TypeOK
<1>2. PICK o \in S :
        \E f \in IF o.ok THEN {o} ELSE MarkFailed(o.q, t, FALSE) :
          queue' = f.q /\ worker' = [worker EXCEPT ![t] = IF f.ok THEN "done" ELSE "raised"]
  BY DEF Finish
<1>3. PICK f \in IF o.ok THEN {o} ELSE MarkFailed(o.q, t, FALSE) :
        queue' = f.q /\ worker' = [worker EXCEPT ![t] = IF f.ok THEN "done" ELSE "raised"]
  BY <1>2
<1>4. worker'[t] = IF f.ok THEN "done" ELSE "raised"
  BY <1>1, <1>3
<1>5. CASE o.ok
  BY <1>3, <1>4, <1>5
<1>6. CASE ~o.ok
  BY <1>3, <1>4, <1>6
<1>7. QED
  BY <1>5, <1>6

\* Every step of the outer coroutine is clean.
LEMMA KeepClean ==
  ASSUME IInv, Accurate(queue), NEW t \in Task, Keep(t)
  PROVE  Clean(t)
<1>1. /\ queue \in Queue /\ Indexes(queue) /\ worker \in [Task -> Worker]
      /\ worker[t] \in Executing \union {"spawned", "expired"} => Near(queue, t)
      /\ Fits(worker[t], StatusOf(queue, t))
  BY Busy DEF IInv, TypeOK, Staged
<1>2. \A s \in Working : s \notin Terminal /\ s # "CANCELLED" /\ s \notin Waiting
  BY DEF Working, Terminal, Dead, Waiting
<1>3. CASE Start(t)
  <2>1. worker[t] = "spawned" /\ Near(queue, t)
    BY <1>1, <1>3 DEF Start, InStage
  <2>2. CASE CheckCancelled(t)
    BY <1>3, <2>1, <2>2, CancelledClean DEF Start
  <2>3. CASE ~CheckCancelled(t)
    <3> DEFINE stage == "produce"
    <3>1. queue' = queue /\ worker' = [worker EXCEPT ![t] = stage] /\ stage \in Executing
      BY <1>3, <2>3 DEF Start, Executing
    <3> HIDE DEF stage
    <3>2. Near(queue', t)
      BY <2>1, <3>1
    <3>3. QED
      BY <2>1, <3>1, <3>2, StageClean
  <2>4. QED
    BY <2>2, <2>3
<1>4. CASE Return(t)
  <2>1. worker[t] = "settled" /\ Finish(t, {Ok(queue)})
    BY <1>4 DEF Return, InStage
  <2>2. queue' = queue /\ worker'[t] = "done"
    <3>1. \A o \in {Ok(queue)} : o.ok /\ o.q = queue
      BY DEF Ok
    <3>2. PICK S : S = {Ok(queue)}
      OBVIOUS
    <3>3. PICK o \in S :
            IF o.ok THEN queue' = o.q /\ worker'[t] = "done"
            ELSE \E f \in MarkFailed(o.q, t, FALSE) :
                   queue' = f.q /\ worker'[t] = IF f.ok THEN "done" ELSE "raised"
      BY <2>1, <3>2, FinishOutcome
    <3>4. QED
      BY <3>1, <3>2, <3>3
  <2>3. ~Operators /\ Attended => StatusOf(queue, t) \notin Working
    BY <2>1 DEF Attended
  <2>4. QED
    BY <2>2, <2>3 DEF Clean
<1>5. CASE Catch(t)
  <2>1. worker[t] = "broken" /\ Finish(t, {Raise(queue)})
    BY <1>5 DEF Catch, InStage
  <2>2. PICK f \in MarkFailed(queue, t, FALSE) :
          queue' = f.q /\ worker'[t] = IF f.ok THEN "done" ELSE "raised"
    <3>1. \A o \in {Raise(queue)} : ~o.ok /\ o.q = queue
      BY DEF Raise
    <3>2. PICK S : S = {Raise(queue)}
      OBVIOUS
    <3>3. PICK o \in S :
            IF o.ok THEN queue' = o.q /\ worker'[t] = "done"
            ELSE \E f \in MarkFailed(o.q, t, FALSE) :
                   queue' = f.q /\ worker'[t] = IF f.ok THEN "done" ELSE "raised"
      BY <2>1, <3>2, FinishOutcome
    <3>4. QED
      BY <3>1, <3>2, <3>3
  <2>3. StatusOf(queue, t) \notin Waiting /\ StatusOf(queue, t) # "PENDING"
    BY <1>1, <2>1 DEF Fits, Waiting
  <2>4. \A d \in Deps[t] : StatusOf(queue, d) = "COMPLETED"
    BY <2>1, AtWork
  <2>5. StatusOf(f.q, t) \in {StatusOf(queue, t), "FAILED", "QUEUED"}
    BY <1>1, <2>2, <2>3, <2>4, MarkFailedOperation
  <2>6. /\ Accurate(f.q)
        /\ Leased(queue) => Leased(f.q)
        /\ StatusOf(queue, t) \in Working =>
             /\ f.ok
             /\ Hopeful(queue) => Hopeful(f.q)
             /\ StatusOf(f.q, t) \in Dead \union {"QUEUED"}
    BY <1>1, <2>2, <2>3, FailedAgrees
  <2>7. ~Operators /\ Attended => StatusOf(queue, t) \in Working
    BY <2>1 DEF Attended
  <2>8. ~Operators /\ Attended => StatusOf(f.q, t) \in {"FAILED", "QUEUED"}
    BY <1>2, <2>5, <2>6, <2>7 DEF Dead, Terminal
  <2>9. QED
    BY <1>2, <2>2, <2>6, <2>7, <2>8 DEF Clean, Working
<1>6. CASE Deadline(t)
  <2> DEFINE stage == "expired"
  <2>1. /\ Near(queue, t) /\ queue' = [queue EXCEPT !.task[t].uncertain = TRUE]
        /\ worker' = [worker EXCEPT ![t] = stage]
    BY <1>1, <1>6 DEF Deadline
  <2>2. Same(queue, queue')
    BY <1>1, <2>1, MarkFields
  <2>3. Near(queue', t)
    BY <2>1, <2>2, NearSame
  <2>4. stage \in Executing \union {"expired"}
    OBVIOUS
  <2> HIDE DEF stage
  <2>5. QED
    BY <2>1, <2>3, <2>4, StageClean
<1>7. CASE Expire(t)
  <2>1. worker[t] = "expired" /\ Finish(t, MarkEscalated(queue, t)) /\ Near(queue, t)
    BY <1>1, <1>7 DEF Expire, InStage
  <2>2. PICK o \in MarkEscalated(queue, t) :
          IF o.ok THEN queue' = o.q /\ worker'[t] = "done"
          ELSE \E f \in MarkFailed(o.q, t, FALSE) :
                 queue' = f.q /\ worker'[t] = IF f.ok THEN "done" ELSE "raised"
    BY <2>1, FinishOutcome
  <2>3. StatusOf(queue, t) \notin Waiting /\ StatusOf(queue, t) # "PENDING"
    BY <2>1 DEF Near, Working, Waiting
  <2>4. /\ Accurate(o.q)
        /\ Leased(queue) => Leased(o.q)
        /\ StatusOf(queue, t) \in Working =>
             /\ o.ok
             /\ Hopeful(queue) => Hopeful(o.q)
             /\ StatusOf(o.q, t) \in Dead
    BY <1>1, <2>2, <2>3, EscalatedAgrees
  <2>5. Operation(queue, o.q, t) /\ StatusOf(o.q, t) \in {StatusOf(queue, t), "ESCALATED"}
    BY <1>1, <2>2, <2>3, MarkEscalatedOperation
  <2>6. CASE o.ok
    <3>1. ~Operators => StatusOf(o.q, t) = "ESCALATED"
      BY <1>2, <2>1, <2>4, <2>5 DEF Near, Terminal
    <3>2. QED
      BY <1>2, <2>1, <2>2, <2>4, <2>6, <3>1 DEF Clean, Near, Working
  <2>7. CASE ~o.ok
    <3>1. PICK f \in MarkFailed(o.q, t, FALSE) : queue' = f.q
      BY <2>2, <2>7
    <3>2. o.q \in Queue /\ StatusOf(o.q, t) \notin Waiting
      BY <2>3, <2>5 DEF Operation, Waiting
    <3>3. Accurate(f.q)
      BY <2>4, <3>1, <3>2, FailedAgrees
    <3>4. Operators
      BY <2>1, <2>4, <2>7 DEF Near
    <3>5. QED
      BY <3>1, <3>3, <3>4 DEF Clean
  <2>8. QED
    BY <2>6, <2>7
<1>8. CASE Interrupt(t)
  <2>1. /\ stop \/ loop = "closing"
        /\ worker' = [worker EXCEPT ![t] = "raised"]
        /\ worker[t] \in Executing \union {"spawned", "settled", "broken", "expired"}
    BY <1>8 DEF Interrupt
  <2>2. worker'[t] = "raised" /\ (~Operators => loop = "closing")
    BY <1>1, <2>1 DEF IInv, Unasked
  <2>3. CASE worker[t] = "spawned"
    <3>1. queue' = queue
      BY <1>8, <2>3 DEF Interrupt
    <3>2. QED
      BY <2>2, <3>1 DEF Clean
  <2>4. CASE worker[t] # "spawned"
    <3>1. PICK o \in MarkCancelled(queue, t) : queue' = o.q
      BY <1>8, <2>4 DEF Interrupt
    <3>2. /\ Accurate(o.q)
          /\ Leased(queue) => Leased(o.q)
          /\ Hopeful(queue) => Hopeful(o.q)
          /\ StatusOf(o.q, t) \in Terminal
      BY <1>1, <3>1, CancelledAgrees
    <3>3. QED
      BY <1>2, <2>2, <3>1, <3>2 DEF Clean
  <2>5. QED
    BY <2>3, <2>4
<1>9. QED
  BY <1>3, <1>4, <1>5, <1>6, <1>7, <1>8 DEF Keep

\* So every step is a clean turn of some task, or is taken outside the coroutines.
LEMMA CleanSteps ==
  ASSUME IInv, Accurate(queue), Next
  PROVE  \/ \E t \in Task : Turn(t) /\ Clean(t)
         \/ Pop \/ Wait \/ GiveUp \/ Reap \/ Close \/ Save
         \/ \E t \in Task : EscalateUnrunnable(t) \/ CancelNext(t)
         \/ CancelRun \/ \E t \in Task : CancelTask(t)
         \/ \E r \in Resource : ForeignLease(r) \/ Lapse(r)
         \/ Crash \/ \E t \in Task : CrashInIntegration(t)
         \/ Resume
         \/ UNCHANGED vars
<1>1. \A t \in Task : Work(t) \/ Keep(t) => Turn(t) /\ Clean(t)
  BY WorkTurn, KeepTurn, WorkClean, KeepClean
<1>2. QED
  BY <1>1 DEF Next, Loop, Over

-----------------------------------------------------------------------------
(* The indexes are right in every orderly run *)

\* Queues that differ in a lease nobody of the run holds agree.
LEMMA LeaseAgrees ==
  ASSUME IInv, Accurate(queue), NEW r \in Resource, ForeignLease(r) \/ Lapse(r)
  PROVE  Accurate(queue') /\ \A u \in Task : StatusOf(queue', u) = StatusOf(queue, u)
<1>1. /\ queue'.task = queue.task
      /\ queue'.ready = queue.ready /\ queue'.blocked = queue.blocked
      /\ queue'.running = queue.running /\ queue'.held = queue.held
      /\ queue'.ledger = queue.ledger
      /\ \A u \in Task : StatusOf(queue', u) = StatusOf(queue, u)
      /\ \A x \in Resource \ {r} : queue'.lease[x] = queue.lease[x]
  BY LeaseFields
<1>2. queue \in Queue
  BY DEF IInv, TypeOK
<1>3. ASSUME NEW u \in Task PROVE Agrees(queue', u)
  <2>1. Agrees(queue, u) /\ queue.held[u] \subseteq Resource
    BY <1>2, <1>3, Fields DEF Accurate
  <2>2. r \notin queue.held[u]
    <3>1. SUFFICES ASSUME r \in queue.held[u] PROVE FALSE
      OBVIOUS
    <3>2. queue.lease[r] = u
      BY <2>1, <3>1 DEF Agrees
    <3>3. ~ForeignLease(r)
      BY <1>3, <3>2, QueueAssumption DEF ForeignLease
    <3>4. ~Lapse(r)
      BY <3>1, <3>2 DEF Lapse
    <3>5. QED
      BY <3>3, <3>4
  <2>3. \A x \in queue.held[u] : queue'.lease[x] = queue.lease[x]
    BY <1>1, <2>1, <2>2
  <2>4. Alike(queue, queue', u)
    BY <1>1, <1>3, <2>3 DEF Alike
  <2>5. QED
    BY <2>1, <2>4, AlikeAgrees
<1>4. QED
  BY <1>1, <1>3 DEF Accurate

\* A queue with nothing pending has finished its tasks.
LEMMA NothingPending ==
  ASSUME NEW q, Accurate(q), ~Pending(q)
  PROVE  Unfinished(q) = {}
<1>1. ASSUME NEW t \in Task PROVE StatusOf(q, t) \in Terminal
  <2>1. Agrees(q, t) /\ t \notin q.ready /\ t \notin q.running /\ q.blocked[t] = {}
    BY <1>1 DEF Accurate, Pending, Blocked
  <2>2. QED
    BY <2>1 DEF Agrees, Waiting
<1>2. QED
  BY <1>1 DEF Unfinished

\* A cancellation leaves nothing unfinished but what was, without the task it is for.
LEMMA CancelledLess ==
  ASSUME NEW q \in Queue, NEW t \in Task, Accurate(q), NEW o \in MarkCancelled(q, t)
  PROVE  Unfinished(o.q) \subseteq Unfinished(q) \ {t}
<1>1. /\ StatusOf(o.q, t) \in Terminal
      /\ \A u \in Task \ {t} : StatusOf(o.q, u) \in {StatusOf(q, u), "FAILED"}
  BY CancelledAgrees
<1>2. "FAILED" \in Terminal
  BY DEF Terminal, Dead
<1>3. QED
  BY <1>1, <1>2 DEF Unfinished

\* The plan is orderly, and whatever keeps the loop going keeps it so.
LEMMA InitialQInv ==
  ASSUME Init
  PROVE  QInv
<1>1. /\ \A t \in Task : StatusOf(queue, t) = IF Deps[t] = {} THEN "QUEUED" ELSE "PENDING"
      /\ queue.ready = {t \in Task : Deps[t] = {}} /\ queue.blocked = Deps
      /\ queue.held = [t \in Task |-> {}]
      /\ \A t \in Task : queue.ledger[t] = IF Deps[t] = {} THEN "QUEUED" ELSE "PENDING"
      /\ queue.running = {}
  BY InitialQueue
<1>2. Accurate(queue)
  BY <1>1 DEF Accurate, Agrees, Waiting, Working
<1>3. QED
  BY <1>2 DEF QInv, Settling, Init

\* Before the loop has ended only the indexes matter.
LEMMA Unsettled ==
  ASSUME Accurate(queue'), loop' \notin {"saving", "ended"}
  PROVE  QInv'
BY DEF QInv, Settling

\* A dispatch succeeds.
LEMMA PopSucceeds ==
  ASSUME IInv, Accurate(queue), Pop
  PROVE  \E t \in Task :
           /\ StatusOf(queue, t) = "QUEUED"
           /\ \A u \in Task : StatusOf(queue', u) = IF u = t THEN "RUNNING" ELSE StatusOf(queue, u)
           /\ worker' = [worker EXCEPT ![t] = "spawned"]
           /\ loop = "dispatch" /\ loop' = "dispatch"
           /\ Accurate(queue')
           /\ Leased(queue) => Leased(queue')
           /\ Hopeful(queue) => Hopeful(queue')
<1>1. queue \in Queue /\ Indexes(queue)
  BY DEF IInv, TypeOK
<1>2. PICK p \in PopReady(queue, Startable) :
        /\ queue' = p.out.q
        /\ p.out.ok => worker' = [worker EXCEPT ![p.t] = "spawned"] /\ loop' = loop
  BY DEF Pop
<1>3. PICK t, o : t = p.t /\ o = p.out.q
  OBVIOUS
<1>4. /\ Accurate(o)
      /\ Leased(queue) => Leased(o)
      /\ Hopeful(queue) => Hopeful(o)
      /\ t \in Task /\ StatusOf(queue, t) = "QUEUED" /\ p.out.ok
      /\ \A u \in Task : StatusOf(o, u) = IF u = t THEN "RUNNING" ELSE StatusOf(queue, u)
  BY <1>1, <1>3, PopAgrees
<1>5. QED
  BY <1>2, <1>3, <1>4 DEF Pop

\* The loop gives up with some tasks failed.
LEMMA GiveUpFails ==
  ASSUME IInv, Accurate(queue), GiveUp
  PROVE  /\ Accurate(queue')
         /\ Leased(queue) => Leased(queue')
         /\ Hopeful(queue) => Hopeful(queue')
         /\ \A u \in Task : StatusOf(queue', u) \in {StatusOf(queue, u), "FAILED"}
<1>1. queue \in Queue
  BY DEF IInv, TypeOK
<1>2. queue' = queue \/ \E o \in Cascade(queue) : queue' = o.q
  BY DEF GiveUp, FailUnfulfillable, Ok
<1>3. ASSUME NEW o \in Cascade(queue), queue' = o.q
      PROVE  /\ Accurate(queue')
             /\ Leased(queue) => Leased(queue')
             /\ Hopeful(queue) => Hopeful(queue')
             /\ \A u \in Task : StatusOf(queue', u) \in {StatusOf(queue, u), "FAILED"}
  <2>1. Hopeful(queue) =>
          \A u \in Task : \A d \in queue.blocked[u] :
            d \in Deps[u] /\ StatusOf(queue, d) # "COMPLETED"
    BY DEF Hopeful, Terminal
  <2>2. QED
    BY <1>1, <1>3, <2>1, CascadeAgrees
<1>4. QED
  BY <1>2, <1>3

\* Every step of an orderly run keeps the indexes and the sweep right.
LEMMA OrderlyKeeps ==
  ASSUME Orderly, IInv, QInv, [Next]_vars
  PROVE  QInv'
<1>1. queue \in Queue /\ Accurate(queue) /\ Settling /\ MaxCrashes = 0 /\ Task \subseteq Capable
  BY DEF Orderly, IInv, TypeOK, QInv
<1>2. CASE UNCHANGED vars
  BY <1>1, <1>2 DEF vars, QInv, Settling
<1>3. ASSUME NEW t \in Task, Turn(t), Clean(t) PROVE QInv'
  BY <1>3, Unsettled DEF Turn, Yielded, Clean
<1>4. CASE Pop
  BY <1>1, <1>4, PopSucceeds, Unsettled
<1>5. CASE Wait \/ Reap
  BY <1>1, <1>5, Unsettled DEF Wait, Reap
<1>6. CASE GiveUp
  BY <1>1, <1>6, GiveUpFails, Unsettled DEF GiveUp
<1>7. CASE Close
  <2>1. /\ queue' = queue /\ loop' = "saving"
        /\ sweep' = IF Pending(queue) THEN Unfinished(queue) ELSE {}
    BY <1>7 DEF Close
  <2>2. Unfinished(queue) \subseteq sweep'
    BY <1>1, <2>1, NothingPending
  <2>3. QED
    BY <1>1, <2>1, <2>2 DEF QInv, Settling
<1>8. CASE Save
  BY <1>1, <1>8 DEF Save, QInv, Settling
<1>9. ASSUME NEW t \in Task, CancelNext(t) PROVE QInv'
  <2>1. PICK o \in MarkCancelled(queue, t) :
          /\ queue' = o.q
          /\ o.ok => sweep' = sweep \ {t} /\ loop' = loop
    BY <1>9 DEF CancelNext
  <2>2. Accurate(o.q) /\ o.ok /\ Unfinished(o.q) \subseteq Unfinished(queue) \ {t}
    BY <1>1, <2>1, CancelledAgrees, CancelledLess
  <2>3. loop # "ended"
    BY <1>1, <1>9 DEF CancelNext, Settling
  <2>4. QED
    BY <1>1, <2>1, <2>2, <2>3 DEF QInv, Settling
<1>10. ASSUME NEW t \in Task, CancelTask(t) PROVE QInv'
  <2>1. PICK o \in MarkCancelled(queue, t) : queue' = o.q
    BY <1>10 DEF CancelTask
  <2>2. Accurate(queue') /\ loop' \in {"wait", "closing"}
    BY <1>1, <1>10, <2>1, CancelledAgrees DEF CancelTask, Yielded
  <2>3. QED
    BY <2>2, Unsettled
<1>11. CASE CancelRun
  BY <1>1, <1>11, Unsettled DEF CancelRun, Yielded
<1>12. ASSUME NEW r \in Resource, ForeignLease(r) \/ Lapse(r) PROVE QInv'
  <2>1. Accurate(queue') /\ \A u \in Task : StatusOf(queue', u) = StatusOf(queue, u)
    BY <1>1, <1>12, LeaseAgrees
  <2>2. loop' = loop /\ sweep' = sweep
    BY <1>12 DEF ForeignLease, Lapse
  <2>3. QED
    BY <1>1, <2>1, <2>2 DEF QInv, Settling, Unfinished
<1>13. ~Crash /\ ~(\E t \in Task : CrashInIntegration(t)) /\ ~Resume
  BY <1>1 DEF Crash, CrashInIntegration, Die, Resume, IInv, TypeOK, Alive
<1>14. ~(\E t \in Task : EscalateUnrunnable(t))
  BY <1>1, Fields DEF EscalateUnrunnable
<1>15. QED
  BY <1>1, <1>2, <1>3, <1>4, <1>5, <1>6, <1>7, <1>8, <1>9, <1>10, <1>11, <1>12, <1>13, <1>14,
     CleanSteps

\* So they are right in every orderly run.
LEMMA OrderlyInductive == ASSUME Orderly PROVE Spec => [](IInv /\ QInv)
<1>1. Init => IInv /\ QInv
  BY InitialInvariant, InitialQInv
<1>2. (IInv /\ QInv) /\ [Next]_vars => (IInv /\ QInv)'
  BY StepKeeps, OrderlyKeeps
<1>3. QED
  BY <1>1, <1>2, PTL DEF Spec

\* The indexes of PriorityTaskQueue, its leases and the states of the tasks agree
\* in every orderly run, whatever is retried, failed, escalated or cancelled by
\* operators: the four indexes each operation updates by hand never part.
THEOREM QueueCorrect == ASSUME Orderly PROVE Spec => []QueueInvariant
<1>1. ASSUME Accurate(queue) PROVE Indexed
  <2>1. SUFFICES ASSUME NEW t \in Task
                 PROVE  LET s == StatusOf(queue, t) IN
                        /\ t \in queue.ready <=> s = "QUEUED"
                        /\ t \in Blocked(queue) <=> s = "PENDING"
                        /\ t \in queue.running <=>
                             s \in Status \ (Terminal \union {"QUEUED", "PENDING"})
                        /\ queue.held[t] # {} => t \in queue.running
                        /\ \A r \in queue.held[t] : queue.lease[r] = t
    BY DEF Indexed
  <2>2. Agrees(queue, t)
    BY <1>1 DEF Accurate
  <2>3. t \in Blocked(queue) <=> queue.blocked[t] # {}
    BY DEF Blocked
  <2>4. StatusOf(queue, t) \in Working <=>
          StatusOf(queue, t) \in Status \ (Terminal \union {"QUEUED", "PENDING"})
    BY <2>2 DEF Agrees, Working, Waiting, Status, Terminal, Dead
  <2>5. QED
    BY <2>2, <2>3, <2>4 DEF Agrees
<1>2. IInv /\ QInv => QueueInvariant
  BY <1>1 DEF IInv, QInv, QueueInvariant
<1>3. QED
  BY <1>2, OrderlyInductive, PTL

\* When run() of an orderly run has returned every task has a final state: the
\* final cancel_all (engine.py, run) is never refused halfway.
THEOREM AllTasksEnd == ASSUME Orderly PROVE Spec => []EveryTaskEnds
<1>1. IInv /\ QInv => EveryTaskEnds
  BY DEF QInv, Settling, Unfinished, EveryTaskEnds
<1>2. QED
  BY <1>1, OrderlyInductive, PTL

-----------------------------------------------------------------------------
(* A run left alone finishes its tasks *)

\* Nothing works, nothing is ready: then nothing is left, since a blocked task
\* waits for tasks that are not finished, and dependencies have no cycle.
LEMMA Stuck ==
  ASSUME NEW q, Acyclic, Accurate(q), Hopeful(q), q.ready = {},
         \A t \in Task : StatusOf(q, t) \notin Working
  PROVE  Unfinished(q) = {}
<1>1. SUFFICES ASSUME Unfinished(q) # {} PROVE FALSE
  OBVIOUS
<1>2. PICK S : S = Unfinished(q)
  OBVIOUS
<1>3. S \in SUBSET Task /\ S # {}
  BY <1>1, <1>2 DEF Unfinished
<1>4. PICK t \in S : Deps[t] \intersect S = {}
  BY <1>3 DEF Acyclic
<1>5. t \in Task /\ StatusOf(q, t) \notin Terminal
  BY <1>2, <1>4 DEF Unfinished
<1>6. q.blocked[t] # {}
  <2>1. Agrees(q, t)
    BY <1>5 DEF Accurate
  <2>2. QED
    BY <1>5, <2>1 DEF Agrees, Waiting
<1>7. PICK x \in q.blocked[t] : TRUE
  BY <1>6
<1>8. x \in Deps[t] /\ StatusOf(q, x) \notin Terminal
  BY <1>5, <1>7 DEF Hopeful
<1>9. x \in S
  BY <1>2, <1>5, <1>8, QueueAssumption DEF Unfinished
<1>10. QED
  BY <1>4, <1>8, <1>9

\* Nothing works, nothing can be dispatched: nothing is ready, or the dispatches
\* are used up.
LEMMA NothingReady ==
  ASSUME IInv, Orderly, Accurate(queue), Leased(queue), InFlight = {}, ~CanPop,
         \A t \in Task : StatusOf(queue, t) \notin Working
  PROVE  queue.ready = {} \/ dispatched >= MaxRounds
<1>1. queue \in Queue /\ dispatched \in Nat /\ MaxRounds \in Nat /\ MaxWorkers \in Nat \ {0}
  BY RunAssumption DEF IInv, TypeOK
<1>2. Cardinality(InFlight) < MaxWorkers
  BY <1>1, FS_EmptySet
<1>3. Startable = Capable
  BY DEF Startable
<1>4. \A t \in Task : queue.held[t] = {}
  BY DEF Accurate, Agrees
<1>5. Holders(queue) = {}
  BY <1>4 DEF Holders
<1>6. \A r \in Resource : queue.lease[r] = Free
  BY <1>4 DEF Leased
<1>7. ASSUME NEW t \in queue.ready PROVE t \in Poppable(queue, Startable)
  <2>1. t \in Task /\ t \in Capable
    BY <1>1, <1>7, Fields DEF Orderly
  <2>2. Leasable(queue, t)
    BY <1>6, <2>1, NeedsResources DEF Leasable
  <2>3. ~Conflict(Resources(t), Holders(queue))
    BY <1>5 DEF Conflict
  <2>4. QED
    BY <1>3, <1>7, <2>1, <2>2, <2>3 DEF Poppable
<1>8. CASE dispatched < MaxRounds
  BY <1>2, <1>7, <1>8 DEF CanPop
<1>9. QED
  BY <1>1, <1>8

\* The loop converges when everything has completed, when the dispatches are used
\* up, or when nothing is ready.
LEMMA ConvergedFinished ==
  ASSUME IInv, Alone, QInv, AInv, NEW n, Converged(queue, n),
         \A t \in Task : StatusOf(queue, t) \notin Working
  PROVE  Unfinished(queue) = {} \/ dispatched >= MaxRounds
<1>1. Completed(queue) = Task => Unfinished(queue) = {}
  BY DEF Completed, Unfinished, StatusOf, Terminal
<1>2. queue.ready = {} => Unfinished(queue) = {}
  BY Stuck DEF Alone, QInv, AInv
<1>3. QED
  BY <1>1, <1>2 DEF Converged

\* Where only finished futures are left nothing works.
LEMMA NobodyWorks ==
  ASSUME Attended, loop # "closing", \A t \in Task : worker[t] = "idle" \/ Ended(t)
  PROVE  \A t \in Task : StatusOf(queue, t) \notin Working
BY DEF Attended, Ended

\* The plan has no leases, and every task can still complete.
LEMMA InitialAInv ==
  ASSUME Init
  PROVE  AInv
<1>1. /\ \A t \in Task : StatusOf(queue, t) = IF Deps[t] = {} THEN "QUEUED" ELSE "PENDING"
      /\ queue.blocked = Deps
      /\ queue.lease = [r \in Resource |-> Free]
  BY InitialQueue
<1>2. Leased(queue)
  BY <1>1 DEF Leased
<1>3. Hopeful(queue)
  BY <1>1, QueueAssumption DEF Hopeful, Terminal, Dead
<1>4. Attended /\ Finished
  BY <1>1 DEF Init, Attended, Finished, Working
<1>5. QED
  BY <1>2, <1>3, <1>4 DEF AInv

\* Fewer tasks at work and fewer unfinished.
LEMMA StaysFinished ==
  ASSUME Finished, loop \in {"closing", "saving", "ended"}, dispatched' = dispatched,
         \A t \in Task : StatusOf(queue', t) \in Working => StatusOf(queue, t) \in Working,
         \A t \in Task : StatusOf(queue, t) \in Terminal => StatusOf(queue', t) \in Terminal
  PROVE  Finished'
<1>1. Unfinished(queue') \subseteq Unfinished(queue)
  BY DEF Unfinished
<1>2. QED
  BY <1>1 DEF Finished

\* The coroutines of a task keep the invariant.
LEMMA TurnAlone ==
  ASSUME Alone, IInv, QInv, AInv, NEW t \in Task, Turn(t), Clean(t)
  PROVE  AInv'
<1>1. /\ ~Operators /\ Attended /\ Finished /\ Leased(queue) /\ Hopeful(queue)
  BY DEF Alone, AInv
<1>2. /\ loop \in {"wait", "closing"} /\ loop' = loop /\ dispatched' = dispatched
      /\ \A u \in Task \ {t} : worker'[u] = worker[u] /\ Beside(queue, queue', u)
      /\ worker'[t] # "idle"
  BY DEF Turn, Yielded, Operation
<1>3. /\ Leased(queue') /\ Hopeful(queue')
      /\ worker'[t] \in {"settled", "done"} => StatusOf(queue', t) \notin Working
      /\ worker'[t] = "broken" => StatusOf(queue', t) \in Working
      /\ worker'[t] = "raised" => loop = "closing"
      /\ StatusOf(queue', t) \in Working => StatusOf(queue, t) \in Working
      /\ StatusOf(queue, t) \in Terminal => StatusOf(queue', t) \in Terminal
  BY <1>1 DEF Clean
<1>4. ASSUME NEW u \in Task \ {t}
      PROVE  /\ StatusOf(queue', u) \in Working <=> StatusOf(queue, u) \in Working
             /\ StatusOf(queue, u) \in Terminal => StatusOf(queue', u) \in Terminal
  BY <1>2 DEF Beside, Working, Terminal, Dead
<1>5. Attended'
  BY <1>1, <1>2, <1>3, <1>4 DEF Attended
<1>6. Finished'
  <2>1. CASE loop = "wait"
    BY <1>2, <2>1 DEF Finished
  <2>2. CASE loop = "closing"
    BY <1>1, <1>2, <1>3, <1>4, <2>2, StaysFinished
  <2>3. QED
    BY <1>2, <2>1, <2>2
<1>7. QED
  BY <1>3, <1>5, <1>6 DEF AInv

\* The loop gives up only when it has finished.
LEMMA GiveUpAlone ==
  ASSUME Alone, IInv, QInv, AInv, GiveUp
  PROVE  AInv'
<1>1. /\ Accurate(queue) /\ Leased(queue) /\ Hopeful(queue) /\ Attended /\ Orderly /\ Acyclic
  BY DEF Alone, QInv, AInv
<1>2. /\ loop = "dispatch" /\ loop' = "closing" /\ ~CanPop /\ InFlight = {}
      /\ worker' = worker /\ dispatched' = dispatched
  BY DEF GiveUp
<1>3. \A t \in Task : StatusOf(queue, t) \notin Working /\ worker[t] = "idle"
  BY <1>1, <1>2, NobodyWorks DEF InFlight
<1>4. Unfinished(queue) = {} \/ dispatched >= MaxRounds
  BY <1>1, <1>2, <1>3, NothingReady, Stuck
<1>5. /\ Leased(queue') /\ Hopeful(queue')
      /\ \A u \in Task : StatusOf(queue', u) \in {StatusOf(queue, u), "FAILED"}
  BY <1>1, GiveUpFails
<1>6. "FAILED" \notin Working /\ "FAILED" \in Terminal
  BY DEF Working, Terminal, Dead
<1>7. Attended'
  BY <1>2, <1>3, <1>5, <1>6 DEF Attended
<1>8. Finished'
  <2>1. Unfinished(queue') \subseteq Unfinished(queue)
    BY <1>5, <1>6 DEF Unfinished
  <2>2. QED
    BY <1>2, <1>3, <1>4, <1>5, <1>6, <2>1 DEF Finished
<1>9. QED
  BY <1>5, <1>7, <1>8 DEF AInv

\* So does the loop that has reaped finished futures: none of them raised.
LEMMA ReapAlone ==
  ASSUME Alone, IInv, QInv, AInv, Reap
  PROVE  AInv'
<1> DEFINE finished == {t \in Task : Ended(t)}
           progress == IF \E t \in finished : StatusOf(queue, t) = "COMPLETED" THEN 0 ELSE stale + 1
           over == \/ InFlight \ finished = {} /\ Converged(queue, progress)
                   \/ Completed(queue) = Task
                   \/ ~Pending(queue)
                   \/ stop
<1>1. /\ Accurate(queue) /\ Attended /\ ~Operators
      /\ loop = "wait" /\ queue' = queue /\ dispatched' = dispatched
      /\ worker' = [t \in Task |-> IF t \in finished THEN "idle" ELSE worker[t]]
  BY DEF Alone, QInv, AInv, Reap
<1>2. \A t \in Task : worker[t] # "raised"
  BY <1>1 DEF Attended
<1>3. loop' = IF over THEN "closing" ELSE "dispatch"
  BY <1>2 DEF Reap
<1>4. \A t \in finished : StatusOf(queue, t) \notin Working
  BY <1>1, <1>2 DEF Attended, Ended
<1>5. Attended'
  BY <1>1, <1>2, <1>4 DEF Attended
<1>6. ASSUME over
      PROVE  /\ \A t \in Task : StatusOf(queue, t) \notin Working
             /\ Unfinished(queue) = {} \/ dispatched >= MaxRounds
  <2>1. ~stop
    BY <1>1 DEF IInv, Unasked
  <2>2. CASE InFlight \ finished = {} /\ Converged(queue, progress)
    <3>1. \A t \in Task : worker[t] = "idle" \/ Ended(t)
      BY <2>2 DEF InFlight
    <3>2. \A t \in Task : StatusOf(queue, t) \notin Working
      BY <1>1, <3>1, NobodyWorks
    <3>3. QED
      BY <2>2, <3>2, ConvergedFinished
  <2>3. CASE Completed(queue) = Task
    BY <2>3 DEF Completed, StatusOf, Unfinished, Terminal, Working
  <2>4. CASE ~Pending(queue)
    <3>1. Unfinished(queue) = {}
      BY <1>1, <2>4, NothingPending
    <3>2. QED
      BY <3>1 DEF Unfinished, Terminal, Dead, Working
  <2>5. QED
    BY <1>6, <2>1, <2>2, <2>3, <2>4
<1>7. Finished'
  <2>1. CASE over
    BY <1>1, <1>6, <2>1 DEF Finished
  <2>2. CASE ~over
    BY <1>3, <2>2 DEF Finished
  <2>3. QED
    BY <2>1, <2>2
<1>8. QED
  BY <1>1, <1>5, <1>7 DEF AInv, Leased, Hopeful

\* The end of the run cancels only what the dispatches did not reach.
LEMMA CancelNextAlone ==
  ASSUME Alone, IInv, QInv, AInv, NEW t \in Task, CancelNext(t)
  PROVE  AInv' /\ loop = "saving"
<1>1. /\ Accurate(queue) /\ Leased(queue) /\ Hopeful(queue) /\ Attended /\ Finished /\ ~Operators
      /\ queue \in Queue
  BY DEF Alone, QInv, AInv, IInv, TypeOK
<1>2. PICK o \in MarkCancelled(queue, t) :
        /\ queue' = o.q
        /\ o.ok => loop' = loop
  BY DEF CancelNext
<1>3. t \in sweep /\ worker' = worker /\ dispatched' = dispatched
  BY DEF CancelNext
<1>4. /\ o.ok /\ Leased(o.q) /\ Hopeful(o.q)
      /\ StatusOf(o.q, t) \in Terminal
      /\ \A u \in Task \ {t} : StatusOf(o.q, u) \in {StatusOf(queue, u), "FAILED"}
  BY <1>1, <1>2, CancelledAgrees
<1>5. loop = "saving"
  BY <1>1, <1>3 DEF IInv, Unasked
<1>6. \A u \in Task : worker[u] = "idle" /\ StatusOf(queue, u) \notin Working
  BY <1>1, <1>5 DEF IInv, Empty, Finished
<1>7. "FAILED" \in Terminal /\ \A s \in Terminal : s \notin Working
  BY DEF Terminal, Dead, Working
<1>8. /\ \A u \in Task : StatusOf(queue', u) \in Working => StatusOf(queue, u) \in Working
      /\ \A u \in Task : StatusOf(queue, u) \in Terminal => StatusOf(queue', u) \in Terminal
  BY <1>2, <1>4, <1>7
<1>9. Finished'
  BY <1>1, <1>3, <1>5, <1>8, StaysFinished
<1>10. Attended'
  BY <1>3, <1>6, <1>8 DEF Attended
<1>11. QED
  BY <1>2, <1>4, <1>5, <1>9, <1>10 DEF AInv

\* Every step of such a run is one of these.
LEMMA AloneSteps ==
  ASSUME Alone, IInv, QInv, AInv, [Next]_vars
  PROVE  \/ \E t \in Task : Turn(t) /\ Clean(t)
         \/ Pop \/ Wait \/ GiveUp \/ Reap \/ Close \/ Save
         \/ \E t \in Task : CancelNext(t)
         \/ UNCHANGED vars
<1>1. /\ Accurate(queue) /\ Leased(queue) /\ Orderly /\ ~Operators /\ Foreign = {}
      /\ MaxCrashes = 0 /\ Task \subseteq Capable
  BY DEF Alone, Orderly, QInv, AInv
<1>2. ~CancelRun /\ ~(\E t \in Task : CancelTask(t))
  BY <1>1 DEF CancelRun, CancelTask
<1>3. ASSUME NEW r \in Resource PROVE ~ForeignLease(r) /\ ~Lapse(r)
  BY <1>1, QueueAssumption DEF ForeignLease, Lapse, Leased
<1>4. ~Crash /\ ~(\E t \in Task : CrashInIntegration(t)) /\ ~Resume
  BY <1>1 DEF Crash, CrashInIntegration, Die, Resume, IInv, TypeOK, Alive
<1>5. ~(\E t \in Task : EscalateUnrunnable(t))
  BY <1>1, Fields DEF EscalateUnrunnable, IInv, TypeOK
<1>6. QED
  BY <1>1, <1>2, <1>3, <1>4, <1>5, CleanSteps

\* Every step of such a run keeps its invariant.
LEMMA AloneKeeps ==
  ASSUME Alone, IInv, QInv, AInv, [Next]_vars
  PROVE  AInv'
<1>1. /\ queue \in Queue /\ worker \in [Task -> Worker]
      /\ Accurate(queue) /\ Leased(queue) /\ Hopeful(queue) /\ Attended /\ Finished
  BY DEF IInv, TypeOK, QInv, AInv
<1>2. CASE UNCHANGED vars
  BY <1>1, <1>2 DEF vars, AInv, Attended, Finished
<1>3. CASE Pop
  <2>1. PICK t \in Task :
          /\ \A u \in Task : StatusOf(queue', u) = IF u = t THEN "RUNNING" ELSE StatusOf(queue, u)
          /\ worker' = [worker EXCEPT ![t] = "spawned"]
          /\ loop = "dispatch" /\ loop' = "dispatch"
          /\ Leased(queue') /\ Hopeful(queue')
    BY <1>1, <1>3, PopSucceeds
  <2>2. Attended'
    BY <1>1, <2>1 DEF Attended
  <2>3. Finished'
    BY <2>1 DEF Finished
  <2>4. QED
    BY <2>1, <2>2, <2>3 DEF AInv
<1>4. CASE Wait
  BY <1>1, <1>4 DEF Wait, AInv, Attended, Finished
<1>5. CASE Close
  <2>1. /\ loop = "closing" /\ loop' = "saving" /\ queue' = queue /\ dispatched' = dispatched
        /\ worker' = [t \in Task |-> "idle"]
    BY <1>5 DEF Close
  <2>2. \A t \in Task : StatusOf(queue, t) \notin Working
    BY <1>1, <2>1 DEF Finished
  <2>3. Attended'
    BY <2>1, <2>2 DEF Attended
  <2>4. Finished'
    BY <1>1, <2>1 DEF Finished
  <2>5. QED
    BY <1>1, <2>1, <2>3, <2>4 DEF AInv
<1>6. CASE Save
  <2>1. /\ loop = "saving" /\ loop' = "ended" /\ queue' = queue /\ dispatched' = dispatched
        /\ worker' = worker
    BY <1>6 DEF Save
  <2>2. Attended'
    BY <1>1, <2>1 DEF Attended
  <2>3. Finished'
    BY <1>1, <2>1 DEF Finished
  <2>4. QED
    BY <1>1, <2>1, <2>2, <2>3 DEF AInv
<1>7. QED
  BY <1>2, <1>3, <1>4, <1>5, <1>6, AloneSteps, TurnAlone, GiveUpAlone, ReapAlone, CancelNextAlone

\* So it holds in every run left alone.
LEMMA AloneInductive == ASSUME Alone PROVE Spec => [](IInv /\ QInv /\ AInv)
<1>1. Orderly
  BY DEF Alone
<1>2. Init => IInv /\ QInv /\ AInv
  BY InitialInvariant, InitialQInv, InitialAInv
<1>3. (IInv /\ QInv /\ AInv) /\ [Next]_vars => (IInv /\ QInv /\ AInv)'
  BY <1>1, StepKeeps, OrderlyKeeps, AloneKeeps
<1>4. QED
  BY <1>2, <1>3, PTL DEF Spec

\* In a run left alone the failure of one task never takes its siblings along
\* (engine.py, run): a task fails with what it depends on or goes on, and it is
\* cancelled only when the dispatches are used up.
THEOREM TasksAreIsolated == ASSUME Alone PROVE Spec => Isolation
<1> DEFINE Spared(t) ==
      /\ StatusOf(queue, t) \notin Terminal
      /\ StatusOf(queue', t) = "CANCELLED"
      => t \in asked' \/ stop' \/ dispatched >= MaxRounds
<1>1. ASSUME IInv, QInv, AInv, [Next]_vars, NEW t \in Task PROVE Spared(t)
  <2>1. SUFFICES ASSUME StatusOf(queue, t) \notin Terminal, StatusOf(queue', t) = "CANCELLED"
                 PROVE  dispatched >= MaxRounds
    OBVIOUS
  <2>2. t \in Unfinished(queue) /\ StatusOf(queue, t) # "CANCELLED"
    BY <2>1 DEF Unfinished, Terminal, Dead
  <2>3. loop \in {"closing", "saving", "ended"} => dispatched >= MaxRounds
    BY <1>1, <2>2 DEF AInv, Finished
  <2>4. ASSUME NEW u \in Task, Turn(u), Clean(u) PROVE dispatched >= MaxRounds
    <3>1. CASE u = t
      BY <1>1, <2>1, <2>2, <2>3, <2>4, <3>1 DEF Clean, Alone, AInv
    <3>2. CASE u # t
      BY <2>1, <2>2, <2>4, <3>2 DEF Turn, Operation, Beside
    <3>3. QED
      BY <3>1, <3>2
  <2>5. ASSUME NEW u \in Task, CancelNext(u) PROVE dispatched >= MaxRounds
    BY <1>1, <2>3, <2>5, CancelNextAlone
  <2>6. ~Pop
    <3>1. Pop => \A u \in Task : StatusOf(queue', u) \in {"RUNNING", StatusOf(queue, u)}
      BY <1>1, PopSucceeds DEF QInv
    <3>2. QED
      BY <2>1, <2>2, <3>1
  <2>7. ~GiveUp
    <3>1. GiveUp => \A u \in Task : StatusOf(queue', u) \in {StatusOf(queue, u), "FAILED"}
      BY <1>1, GiveUpFails DEF QInv
    <3>2. QED
      BY <2>1, <2>2, <3>1
  <2>8. queue' # queue
    BY <2>1, <2>2
  <2>9. ~Wait /\ ~Reap /\ ~Close /\ ~Save /\ ~(UNCHANGED vars)
    BY <2>8 DEF Wait, Reap, Close, Save, vars
  <2>10. QED
    BY <1>1, <2>4, <2>5, <2>6, <2>7, <2>9, AloneSteps
<1>2. IInv /\ QInv /\ AInv /\ [Next]_vars => \A t \in Task : Spared(t)
  BY <1>1
<1>3. QED
  BY <1>2, AloneInductive, PTL DEF Spec, Isolation
=============================================================================
