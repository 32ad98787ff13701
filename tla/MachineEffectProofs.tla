------------------------- MODULE MachineEffectProofs -------------------------
(***************************************************************************)
(* Types of MachineEffect, for every assignment of locks to processes.     *)
(***************************************************************************)
EXTENDS MachineEffect, TLAPS

LEMMA KeyInKeys == ASSUME NEW o \in Op PROVE Key(o) \in Keys
<1>1. MachineOf[o] \in Machine
  BY EffectAssumption
<1>2. CASE o \in Observation
  <2>1. (o \in Observation) = TRUE
    BY <1>2
  <2>2. QED
    BY <1>1, <2>1 DEF Key, Keys
<1>3. CASE o \notin Observation
  <2>1. (o \in Observation) = FALSE
    BY <1>3
  <2>2. QED
    BY <1>1, <2>1 DEF Key, Keys
<1>4. QED
  BY <1>2, <1>3

\* A call that has read fits the type of calls.
LEMMA HoldType ==
  ASSUME TypeOK, NEW p \in Process, NEW o \in Op, NEW kind \in CallKind,
         NEW to \in OpState \union RunState, Hold(p, kind, o, to)
  PROVE  call' \in [Scope -> Call \union {NoCall}]
<1>1. op[o] \in Row /\ run \in RunState
  BY DEF TypeOK
<1>2. [kind |-> kind, proc |-> p, op |-> o, row |-> op[o], to |-> to,
       run |-> run, hit |-> {}] \in Call
  BY <1>1 DEF Call
<1>3. QED
  BY <1>2 DEF Hold, TypeOK

LEMMA DoneType ==
  ASSUME TypeOK, NEW p \in Process, Done(p)
  PROVE  call' \in [Scope -> Call \union {NoCall}]
  BY DEF Done, TypeOK

\* The calls that write a row of operations, and the states they write.
Writes == {"admit", "result", "late", "update"}
WritesState ==
  \A s \in Scope : call[s] # NoCall /\ call[s].kind \in Writes \union {"release", "drop"}
                     => call[s].op \in Op /\ call[s].to \in OpState
WritesRun == \A s \in Scope : call[s] # NoCall /\ call[s].kind = "run" => call[s].to \in RunState

\* An operation on its way has the process that reserved it.
HomeKnown ==
  \A o \in Op : home[o] \in Process \/ (waiter[o] = "none" /\ worker[o] = "none")

\* Types with what they need to be inductive.
Typed == TypeOK /\ WritesState /\ WritesRun /\ HomeKnown

LEMMA HoldTyped ==
  ASSUME Typed, NEW p \in Process, NEW o \in Op, NEW kind \in Writes \union {"release", "drop"},
         NEW to \in OpState, Hold(p, kind, o, to)
  PROVE  call' \in [Scope -> Call \union {NoCall}] /\ WritesState' /\ WritesRun'
<1>1. kind \in CallKind /\ kind # "run"
  BY DEF Writes, CallKind
<1>2. call' \in [Scope -> Call \union {NoCall}]
  BY <1>1, HoldType DEF Typed
<1>3. \A s \in Scope : \/ call'[s] = call[s]
                       \/ call'[s].kind = kind /\ call'[s].op = o /\ call'[s].to = to
  BY DEF Hold, Typed, TypeOK
<1>4. QED
  BY <1>1, <1>2, <1>3 DEF WritesState, WritesRun, Typed

LEMMA DoneTyped ==
  ASSUME Typed, NEW p \in Process, Done(p)
  PROVE  call' \in [Scope -> Call \union {NoCall}] /\ WritesState' /\ WritesRun'
<1>1. call' \in [Scope -> Call \union {NoCall}]
  BY DoneType DEF Typed
<1>2. \A s \in Scope : call'[s] = call[s] \/ call'[s] = NoCall
  BY DEF Done, Typed, TypeOK
<1>3. QED
  BY <1>1, <1>2 DEF WritesState, WritesRun, Typed

LEMMA SameTyped ==
  ASSUME Typed, UNCHANGED call
  PROVE  call' \in [Scope -> Call \union {NoCall}] /\ WritesState' /\ WritesRun'
  BY DEF Typed, TypeOK, WritesState, WritesRun

LEMMA WriteRowType ==
  ASSUME Typed, NEW p \in Process, NEW o \in Op, NEW kind \in Writes, Committing(p, kind, o), WriteRow(p, o)
  PROVE  op' \in [Op -> Row]
<1> DEFINE k == call[ScopeOf[p]]
<1>1. ScopeOf[p] \in Scope
  BY EffectAssumption
<1>2. k \in Call /\ k.to \in OpState
  BY <1>1 DEF Committing, Typed, TypeOK, WritesState
<1>3. k.row.started \in BOOLEAN
  BY <1>2 DEF Call, Row
<1>4. [state |-> k.to, started |-> k.row.started] \in Row
  BY <1>2, <1>3 DEF Row
<1>5. QED
  BY <1>4 DEF WriteRow, Typed, TypeOK

LEMMA RowState == ASSUME NEW r \in Row, r.state # "ABSENT" PROVE r.state \in OpState
  BY DEF Row

\* Every action preserves the types.
LEMMA TypedStep == Typed /\ [Next]_vars => Typed'
<1> SUFFICES ASSUME Typed, [Next]_vars
             PROVE  Typed'
  OBVIOUS
<1> DEFINE CallTyped == call' \in [Scope -> Call \union {NoCall}] /\ WritesState' /\ WritesRun'
           Others == /\ op' \in [Op -> Row] /\ run' \in RunState
                     /\ lease' \in [Keys -> Op \union {NoOp}] /\ live' \in [Keys -> BOOLEAN]
                     /\ home' \in [Op -> Process \union {NoProcess}]
                     /\ waiter' \in [Op -> WaiterStage] /\ worker' \in [Op -> WorkerStage]
                     /\ res' \in [Op -> OpState] /\ answer' \in [Op -> SUBSET Terminal]
                     /\ begun' \subseteq Op /\ sent' \in [Op -> Nat] /\ HomeKnown'
<1>a. CallTyped /\ Others => Typed'
  BY DEF Typed, TypeOK
<1>b. \A o \in Op : waiter[o] # "none" \/ worker[o] # "none" => home[o] \in Process
  BY DEF Typed, HomeKnown
<1>1. ASSUME NEW p \in Process, NEW o \in Op, Reserve(p, o)
      PROVE  Typed'
  <2>1. CallTyped
    BY <1>1, SameTyped DEF Reserve
  <2>2. Others
    BY <1>1, KeyInKeys DEF Reserve, ReservedState, OpState, Become, Typed, TypeOK, HomeKnown, Row, WaiterStage, WorkerStage
  <2>3. QED
    BY <2>1, <2>2, <1>a
<1>2. ASSUME NEW p \in Process, NEW o \in Op, Resubmit(p, o)
      PROVE  Typed'
  <2>1. CallTyped
    BY <1>2, SameTyped DEF Resubmit
  <2>2. Others
    BY <1>2 DEF Resubmit, Become, Terminal, OpState, Typed, TypeOK, HomeKnown, Row, WaiterStage, WorkerStage
  <2>3. QED
    BY <2>1, <2>2, <1>a
<1>3. ASSUME NEW o \in Op, Leave(o)
      PROVE  Typed'
  <2>1. CallTyped
    BY <1>3, SameTyped DEF Leave
  <2>2. Others
    BY <1>3 DEF Leave, Become, Typed, TypeOK, HomeKnown, Row, WaiterStage, WorkerStage
  <2>3. QED
    BY <2>1, <2>2, <1>a
<1>4. ASSUME NEW o \in Op, AdmitRunning(o)
      PROVE  Typed'
  <2>1. CallTyped
    BY <1>4, SameTyped DEF AdmitRunning
  <2>2. Others
    BY <1>4 DEF AdmitRunning, Pass, WaiterStage, WorkerStage, Typed, TypeOK, HomeKnown, Row
  <2>3. QED
    BY <2>1, <2>2, <1>a
<1>5. ASSUME NEW o \in Op, AdmitRead(o)
      PROVE  Typed'
  <2>0. home[o] \in Process
    BY <1>5, <1>b DEF AdmitRead, Asking
  <2>1. "RUNNING" \in OpState
    BY DEF OpState
  <2>2. "admit" \in Writes \union {"release", "drop"}
    BY DEF Writes
  <2>3. CallTyped
    BY <1>5, <2>0, <2>1, <2>2, HoldTyped DEF AdmitRead
  <2>4. Others
    BY <1>5 DEF AdmitRead, Typed, TypeOK, HomeKnown
  <2>5. QED
    BY <2>3, <2>4, <1>a
<1>6. ASSUME NEW o \in Op, AdmitCommit(o)
      PROVE  Typed'
  <2>0. home[o] \in Process
    BY <1>6, <1>b DEF AdmitCommit, Asking
  <2>1. CallTyped
    BY <1>6, <2>0, DoneTyped DEF AdmitCommit
  <2>2. op' \in [Op -> Row]
    <3>1. "admit" \in Writes
      BY DEF Writes
    <3>2. QED
      BY <1>6, <2>0, <3>1, WriteRowType DEF AdmitCommit
  <2>3. Others
    BY <1>6, <2>2 DEF AdmitCommit, Pass, WaiterStage, WorkerStage, Become, Typed, TypeOK, HomeKnown, WaiterStage, WorkerStage
  <2>4. QED
    BY <2>1, <2>3, <1>a
<1>7. ASSUME NEW o \in Op, Hear(o)
      PROVE  Typed'
  <2>1. CallTyped
    BY <1>7, SameTyped DEF Hear
  <2>2. Others
    BY <1>7 DEF Hear, Become, OpState, Typed, TypeOK, HomeKnown, Row, WaiterStage, WorkerStage
  <2>3. QED
    BY <2>1, <2>2, <1>a
<1>8. ASSUME NEW o \in Op, Deny(o)
      PROVE  Typed'
  <2>1. CallTyped
    BY <1>8, SameTyped DEF Deny
  <2>2. Others
    BY <1>8 DEF Deny, Become, OpState, Typed, TypeOK, HomeKnown, Row, WaiterStage, WorkerStage
  <2>3. QED
    BY <2>1, <2>2, <1>a
<1>9. ASSUME NEW o \in Op, GiveUp(o)
      PROVE  Typed'
  <2>1. CallTyped
    BY <1>9, SameTyped DEF GiveUp
  <2>2. Others
    BY <1>9 DEF GiveUp, Become, OpState, Typed, TypeOK, HomeKnown, Row, WaiterStage, WorkerStage
  <2>3. QED
    BY <2>1, <2>2, <1>a
<1>10. ASSUME NEW o \in Op, RecordRead(o)
      PROVE  Typed'
  <2>0. home[o] \in Process
    BY <1>10, <1>b DEF RecordRead, Asking
  <2>1. res[o] \in OpState
    BY DEF Typed, TypeOK
  <2>2. "result" \in Writes \union {"release", "drop"}
    BY DEF Writes
  <2>3. CallTyped
    BY <1>10, <2>0, <2>1, <2>2, HoldTyped DEF RecordRead
  <2>4. Others
    BY <1>10 DEF RecordRead, Typed, TypeOK, HomeKnown
  <2>5. QED
    BY <2>3, <2>4, <1>a
<1>11. ASSUME NEW o \in Op, RecordRefused(o)
      PROVE  Typed'
  <2>1. CallTyped
    BY <1>11, SameTyped DEF RecordRefused
  <2>2. Others
    BY <1>11 DEF RecordRefused, Become, Tell, Terminal, Typed, TypeOK, HomeKnown, Row, WaiterStage, WorkerStage
  <2>3. QED
    BY <2>1, <2>2, <1>a
<1>12. ASSUME NEW o \in Op, RecordCommit(o)
      PROVE  Typed'
  <2>0. home[o] \in Process
    BY <1>12, <1>b DEF RecordCommit, Asking
  <2>1. CallTyped
    BY <1>12, <2>0, DoneTyped DEF RecordCommit
  <2>2. op' \in [Op -> Row]
    <3>1. "result" \in Writes
      BY DEF Writes
    <3>2. QED
      BY <1>12, <2>0, <3>1, WriteRowType DEF RecordCommit
  <2>3. Others
    BY <1>12, <2>2 DEF RecordCommit, Tell, Terminal, Releases, Become, Typed, TypeOK, HomeKnown, WaiterStage, WorkerStage
  <2>4. QED
    BY <2>1, <2>3, <1>a
<1>13. ASSUME NEW o \in Op, ReleaseRead(o)
      PROVE  Typed'
  <2>0. home[o] \in Process
    BY <1>13, <1>b DEF ReleaseRead, Asking
  <2>1. res[o] \in OpState
    BY DEF Typed, TypeOK
  <2>2. "release" \in Writes \union {"release", "drop"}
    BY DEF Writes
  <2>3. CallTyped
    BY <1>13, <2>0, <2>1, <2>2, HoldTyped DEF ReleaseRead
  <2>4. Others
    BY <1>13 DEF ReleaseRead, Typed, TypeOK, HomeKnown
  <2>5. QED
    BY <2>3, <2>4, <1>a
<1>14. ASSUME NEW o \in Op, ReleaseRefused(o)
      PROVE  Typed'
  <2>1. CallTyped
    BY <1>14, SameTyped DEF ReleaseRefused
  <2>2. answer' \in [Op -> SUBSET Terminal]
    BY <1>14 DEF ReleaseRefused, Tell, Typed, TypeOK
  <2>3. waiter' \in [Op -> WaiterStage] /\ HomeKnown'
    BY <1>14, <1>b DEF ReleaseRefused, Tell, Typed, TypeOK, WaiterStage, HomeKnown
  <2>4. Others
    BY <1>14, <2>2, <2>3 DEF ReleaseRefused, Typed, TypeOK
  <2>5. QED
    BY <2>1, <2>4, <1>a
<1>15. ASSUME NEW o \in Op, ReleaseCommit(o)
      PROVE  Typed'
  <2>0. home[o] \in Process
    BY <1>15, <1>b DEF ReleaseCommit
  <2>1. CallTyped
    BY <1>15, <2>0, DoneTyped DEF ReleaseCommit
  <2>2. Others
    BY <1>15, KeyInKeys DEF ReleaseCommit, Tell, Terminal, Typed, TypeOK, HomeKnown, WaiterStage
  <2>3. QED
    BY <2>1, <2>2, <1>a
<1>16. ASSUME NEW o \in Op, Lock(o)
      PROVE  Typed'
  <2>1. CallTyped
    BY <1>16, SameTyped DEF Lock
  <2>2. Others
    BY <1>16 DEF Lock, Become, Typed, TypeOK, HomeKnown, Row, WaiterStage, WorkerStage
  <2>3. QED
    BY <2>1, <2>2, <1>a
<1>17. ASSUME NEW o \in Op, Refuse(o)
      PROVE  Typed'
  <2>1. CallTyped
    BY <1>17, SameTyped DEF Refuse
  <2>2. Others
    BY <1>17 DEF Refuse, Become, Typed, TypeOK, HomeKnown, Row, WaiterStage, WorkerStage
  <2>3. QED
    BY <2>1, <2>2, <1>a
<1>18. ASSUME NEW o \in Op, Begin(o)
      PROVE  Typed'
  <2>1. CallTyped
    BY <1>18, SameTyped DEF Begin
  <2>2. Others
    BY <1>18 DEF Begin, Become, Typed, TypeOK, HomeKnown, Row, WaiterStage, WorkerStage
  <2>3. QED
    BY <2>1, <2>2, <1>a
<1>19. ASSUME NEW o \in Op, Abandon(o)
      PROVE  Typed'
  <2>1. CallTyped
    BY <1>19, SameTyped DEF Abandon
  <2>2. Others
    BY <1>19 DEF Abandon, Become, Typed, TypeOK, HomeKnown, Row, WaiterStage, WorkerStage
  <2>3. QED
    BY <2>1, <2>2, <1>a
<1>20. ASSUME NEW o \in Op, Dispatch(o)
      PROVE  Typed'
  <2>1. CallTyped
    BY <1>20, SameTyped DEF Dispatch
  <2>2. Others
    BY <1>20 DEF Dispatch, Become, Typed, TypeOK, HomeKnown, Row, WaiterStage, WorkerStage
  <2>3. QED
    BY <2>1, <2>2, <1>a
<1>21. ASSUME NEW o \in Op, Return(o)
      PROVE  Typed'
  <2>1. CallTyped
    BY <1>21, SameTyped DEF Return
  <2>2. res' \in [Op -> OpState]
    <3>1. Outcome \subseteq OpState
      BY EffectAssumption DEF OpState, Terminal
    <3>2. QED
      BY <1>21, <3>1 DEF Return, Typed, TypeOK
  <2>3. Others
    BY <1>21, <2>2 DEF Return, Become, Typed, TypeOK, HomeKnown, WorkerStage
  <2>4. QED
    BY <2>1, <2>3, <1>a
<1>22. ASSUME NEW o \in Op, LateRead(o)
      PROVE  Typed'
  <2>0. home[o] \in Process
    BY <1>22, <1>b DEF LateRead, Asking
  <2>1. op[o].state \in OpState
    BY <1>22, RowState DEF LateRead, Typed, TypeOK
  <2>2. "late" \in Writes \union {"release", "drop"}
    BY DEF Writes
  <2>3. CallTyped
    BY <1>22, <2>0, <2>1, <2>2, HoldTyped DEF LateRead
  <2>4. Others
    BY <1>22 DEF LateRead, Typed, TypeOK, HomeKnown
  <2>5. QED
    BY <2>3, <2>4, <1>a
<1>23. ASSUME NEW o \in Op, LateCommit(o)
      PROVE  Typed'
  <2>0. home[o] \in Process
    BY <1>23, <1>b DEF LateCommit, Asking
  <2>1. CallTyped
    BY <1>23, <2>0, DoneTyped DEF LateCommit
  <2>2. op' \in [Op -> Row]
    <3>1. "late" \in Writes
      BY DEF Writes
    <3>2. QED
      BY <1>23, <2>0, <3>1, WriteRowType DEF LateCommit
  <2>3. Others
    BY <1>23, <2>2 DEF LateCommit, Become, Typed, TypeOK, HomeKnown, WaiterStage, WorkerStage
  <2>4. QED
    BY <2>1, <2>3, <1>a
<1>24. ASSUME NEW o \in Op, End(o)
      PROVE  Typed'
  <2>1. CallTyped
    BY <1>24, SameTyped DEF End
  <2>2. Others
    BY <1>24 DEF End, Become, Typed, TypeOK, HomeKnown, Row, WaiterStage, WorkerStage
  <2>3. QED
    BY <2>1, <2>2, <1>a
<1>25. ASSUME NEW p \in Process, NEW to \in Request, NEW o \in Op, UpdateRead(p, o, to)
      PROVE  Typed'
  <2>1. to \in OpState
    BY EffectAssumption
  <2>2. "update" \in Writes \union {"release", "drop"}
    BY DEF Writes
  <2>3. CallTyped
    BY <1>25, <2>1, <2>2, HoldTyped DEF UpdateRead
  <2>4. Others
    BY <1>25 DEF UpdateRead, Typed, TypeOK, HomeKnown
  <2>5. QED
    BY <2>3, <2>4, <1>a
<1>26. ASSUME NEW p \in Process, NEW o \in Op, UpdateCommit(p, o)
      PROVE  Typed'
  <2>1. CallTyped
    BY <1>26, DoneTyped DEF UpdateCommit
  <2>2. op' \in [Op -> Row]
    <3>1. "update" \in Writes
      BY DEF Writes
    <3>2. QED
      BY <1>26, <3>1, WriteRowType DEF UpdateCommit
  <2>3. Others
    BY <1>26, <2>2 DEF UpdateCommit, Become, Typed, TypeOK, HomeKnown, WaiterStage, WorkerStage
  <2>4. QED
    BY <2>1, <2>3, <1>a
<1>27. ASSUME NEW p \in Process, NEW o \in Op, DropRead(p, o)
      PROVE  Typed'
  <2>1. res[o] \in OpState
    BY DEF Typed, TypeOK
  <2>2. "drop" \in Writes \union {"release", "drop"}
    BY DEF Writes
  <2>3. CallTyped
    BY <1>27, <2>1, <2>2, HoldTyped DEF DropRead
  <2>4. Others
    BY <1>27 DEF DropRead, Typed, TypeOK, HomeKnown
  <2>5. QED
    BY <2>3, <2>4, <1>a
<1>28. ASSUME NEW p \in Process, NEW o \in Op, DropCommit(p, o)
      PROVE  Typed'
  <2>1. CallTyped
    BY <1>28, DoneTyped DEF DropCommit
  <2>2. Others
    BY <1>28, KeyInKeys DEF DropCommit, Typed, TypeOK, HomeKnown, WaiterStage
  <2>3. QED
    BY <2>1, <2>2, <1>a
<1>29. ASSUME NEW p \in Process, NEW to \in RunRequest, RunRead(p, to)
      PROVE  Typed'
  <2> DEFINE new == [kind |-> "run", proc |-> p, op |-> NoOp,
                     row |-> [state |-> "ABSENT", started |-> FALSE],
                     to |-> to, run |-> run, hit |-> {}]
  <2>1. new \in Call /\ to \in RunState
    BY EffectAssumption DEF Call, CallKind, Row, Typed, TypeOK
  <2>2. \A s \in Scope : call'[s] = call[s] \/ call'[s] = new
    BY <1>29 DEF RunRead, Typed, TypeOK
  <2>3. call' \in [Scope -> Call \union {NoCall}]
    BY <1>29, <2>1 DEF RunRead, Typed, TypeOK
  <2>4. CallTyped
    BY <2>1, <2>2, <2>3 DEF Typed, WritesState, WritesRun, Writes
  <2>5. Others
    BY <1>29 DEF RunRead, Typed, TypeOK, HomeKnown
  <2>6. QED
    BY <2>4, <2>5, <1>a
<1>30. ASSUME NEW p \in Process, RunCommit(p)
      PROVE  Typed'
  <2>1. CallTyped
    BY <1>30, DoneTyped DEF RunCommit
  <2>2. call[ScopeOf[p]].to \in RunState
    BY <1>30, EffectAssumption DEF RunCommit, Committing, Typed, WritesRun
  <2>3. Others
    BY <1>30, <2>2 DEF RunCommit, Typed, TypeOK, HomeKnown
  <2>4. QED
    BY <2>1, <2>3, <1>a
<1>31. ASSUME NEW p \in Process, ReconcileRead(p)
      PROVE  Typed'
  <2>1. PICK S \in (SUBSET Stallable) \ {{}} :
          call' = [call EXCEPT ![ScopeOf[p]] =
            [kind |-> "reconcile", proc |-> p, op |-> NoOp,
             row |-> [state |-> "ABSENT", started |-> FALSE],
             to |-> "UNCERTAIN", run |-> run, hit |-> S]]
    BY <1>31 DEF ReconcileRead
  <2> DEFINE new == [kind |-> "reconcile", proc |-> p, op |-> NoOp,
                     row |-> [state |-> "ABSENT", started |-> FALSE],
                     to |-> "UNCERTAIN", run |-> run, hit |-> S]
  <2>2. new \in Call
    BY DEF Call, CallKind, Row, OpState, Typed, TypeOK, Stallable
  <2>3. \A s \in Scope : call'[s] = call[s] \/ call'[s] = new
    BY <2>1 DEF Typed, TypeOK
  <2>4. call' \in [Scope -> Call \union {NoCall}]
    BY <2>1, <2>2 DEF Typed, TypeOK
  <2>5. CallTyped
    BY <2>3, <2>4 DEF Typed, WritesState, WritesRun, Writes
  <2>6. Others
    BY <1>31 DEF ReconcileRead, Typed, TypeOK, HomeKnown
  <2>7. QED
    BY <2>5, <2>6, <1>a
<1>32. ASSUME NEW p \in Process, ReconcileCommit(p)
      PROVE  Typed'
  <2>1. CallTyped
    BY <1>32, DoneTyped DEF ReconcileCommit
  <2>2. \A r \in Row : [r EXCEPT !.state = "UNCERTAIN"] \in Row
    BY DEF Row, OpState
  <2>3. op' \in [Op -> Row]
    BY <1>32, <2>2 DEF ReconcileCommit, Typed, TypeOK
  <2>4. Others
    BY <1>32, <2>3 DEF ReconcileCommit, Typed, TypeOK, HomeKnown, RunState
  <2>5. QED
    BY <2>1, <2>4, <1>a
<1>33. ASSUME NEW k \in Keys, Expire(k)
      PROVE  Typed'
  <2>1. CallTyped
    BY <1>33, SameTyped DEF Expire
  <2>2. Others
    BY <1>33 DEF Expire, Typed, TypeOK, HomeKnown
  <2>3. QED
    BY <2>1, <2>2, <1>a
<1>34. ASSUME NEW p \in Process, Crash(p)
      PROVE  Typed'
  <2>1. \A s \in Scope : call'[s] = call[s] \/ call'[s] = NoCall
    BY <1>34 DEF Crash, Typed, TypeOK
  <2>2. call' \in [Scope -> Call \union {NoCall}]
    BY <1>34 DEF Crash, Typed, TypeOK
  <2>3. CallTyped
    BY <2>1, <2>2 DEF Typed, WritesState, WritesRun
  <2>4. Others
    BY <1>34 DEF Crash, Typed, TypeOK, HomeKnown, WaiterStage, WorkerStage
  <2>5. QED
    BY <2>3, <2>4, <1>a
<1>35. ASSUME NEW o \in Op, LateCheck(o)
      PROVE  Typed'
  <2>1. CallTyped
    BY <1>35, SameTyped DEF LateCheck
  <2>2. Others
    BY <1>35 DEF LateCheck, Become, Typed, TypeOK, HomeKnown, WorkerStage
  <2>3. QED
    BY <2>1, <2>2, <1>a
<1>36. CASE UNCHANGED vars
  <2>1. CallTyped
    BY <1>36, SameTyped DEF vars
  <2>2. Others
    BY <1>36 DEF vars, Typed, TypeOK, HomeKnown
  <2>3. QED
    BY <2>1, <2>2, <1>a
<1>37. QED
  BY <1>1, <1>2, <1>3, <1>4, <1>5, <1>6, <1>7, <1>8, <1>9, <1>10, <1>11, <1>12, <1>13, <1>14, <1>15, <1>16, <1>17, <1>18, <1>19, <1>20, <1>21, <1>22, <1>23, <1>24, <1>25, <1>26, <1>27, <1>28, <1>29, <1>30, <1>31, <1>32, <1>33, <1>34, <1>35, <1>36
     DEF Next, Submit, Work, Operator

LEMMA TypedInit == Init => Typed
  BY EffectAssumption DEF Init, Typed, TypeOK, WritesState, WritesRun, HomeKnown, Row,
     RunState, OpState, WaiterStage, WorkerStage

(***************************************************************************)
(* Rows, leases, calls and stages have the shape TypeOK gives them.        *)
(***************************************************************************)
THEOREM TypeCorrect == Spec => []TypeOK
<1>1. Init => Typed
  BY TypedInit
<1>2. Typed /\ [Next]_vars => Typed'
  BY TypedStep
<1>3. Typed => TypeOK
  BY DEF Typed
<1>4. QED
  BY <1>1, <1>2, <1>3, PTL DEF Spec
=============================================================================
