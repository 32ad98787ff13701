------------------------- MODULE MachineEffectSafety -------------------------
(***************************************************************************)
(* Safety theorems about MachineEffect.  The first two hold for every      *)
(* assignment of locks to processes; the others when all calls share one.  *)
(***************************************************************************)
EXTENDS MachineEffectProofs

-----------------------------------------------------------------------------
(***************************************************************************)
(* Sending: a worker is handed out once, and sends once.                   *)
(***************************************************************************)

Unsent == {"none", "locking", "holding", "checked", "begun"}

Once ==
  \A o \in Op :
    /\ op[o].state = "ABSENT" => waiter[o] = "none"
    /\ waiter[o] \in {"none", "reserved"} => worker[o] = "none"
    /\ worker[o] \in Unsent => sent[o] = 0
    /\ sent[o] <= 1

\* The OS lock of a machine has one holder.
OneHolder ==
  \A o, q \in Op : o # q /\ MachineOf[o] = MachineOf[q] => ~(Holding(o) /\ Holding(q))

\* A reserved operation stays in the table.
LEMMA StaysPresent ==
  ASSUME Typed, [Next]_vars, NEW o \in Op, op[o].state # "ABSENT"
  PROVE  op'[o].state # "ABSENT"
<1>1. "ABSENT" \notin OpState
  BY DEF OpState
<1>2. ASSUME NEW p \in Process, NEW q \in Op, NEW kind \in Writes,
             Committing(p, kind, q), WriteRow(p, q)
      PROVE  op'[o].state # "ABSENT"
  <2>1. call[ScopeOf[p]].to \in OpState
    BY <1>2, EffectAssumption DEF Committing, Typed, WritesState
  <2>2. QED
    BY <1>1, <1>2, <2>1 DEF WriteRow, Typed, TypeOK
<1>3. ASSUME NEW p \in Process, NEW q \in Op, Reserve(p, q)
      PROVE  op'[o].state # "ABSENT"
  BY <1>3 DEF Reserve, ReservedState, Typed, TypeOK, Row
<1>4. ASSUME NEW q \in Op, Begin(q)
      PROVE  op'[o].state # "ABSENT"
  BY <1>4 DEF Begin, Typed, TypeOK, Row
<1>5. ASSUME NEW p \in Process, ReconcileCommit(p)
      PROVE  op'[o].state # "ABSENT"
  BY <1>5 DEF ReconcileCommit, Typed, TypeOK, Row
<1>6. ASSUME NEW q \in Op, AdmitCommit(q) \/ RecordCommit(q) \/ LateCommit(q)
      PROVE  op'[o].state # "ABSENT"
  <2>1. home[q] \in Process
    BY <1>6 DEF AdmitCommit, RecordCommit, LateCommit, Asking, Typed, HomeKnown
  <2>2. QED
    BY <1>2, <1>6, <2>1 DEF AdmitCommit, RecordCommit, LateCommit, Writes
<1>7. ASSUME NEW p \in Process, NEW q \in Op, UpdateCommit(p, q)
      PROVE  op'[o].state # "ABSENT"
  BY <1>2, <1>7 DEF UpdateCommit, Writes
<1>8. CASE UNCHANGED op
  BY <1>8
<1>9. QED
  BY <1>3, <1>4, <1>5, <1>6, <1>7, <1>8
     DEF Next, Submit, Work, Operator, vars, Resubmit, Leave, AdmitRunning, AdmitRead, Hear,
         Deny, GiveUp, RecordRead, RecordRefused, ReleaseRead, ReleaseRefused, ReleaseCommit,
         Lock, Refuse, Abandon, Dispatch, Return, LateCheck, LateRead, End, UpdateRead,
         DropRead, DropCommit, RunRead, RunCommit, ReconcileRead, Expire, Crash

LEMMA OnceStep == ASSUME Typed, Once, [Next]_vars PROVE Once'
<1> SUFFICES ASSUME NEW o \in Op
             PROVE  /\ op'[o].state = "ABSENT" => waiter'[o] = "none"
                    /\ waiter'[o] \in {"none", "reserved"} => worker'[o] = "none"
                    /\ worker'[o] \in Unsent => sent'[o] = 0
                    /\ sent'[o] <= 1
  BY DEF Once
<1>0. op'[o].state = "ABSENT" => op[o].state = "ABSENT"
  BY StaysPresent
<1>1. CASE UNCHANGED <<waiter, worker, sent>>
  BY <1>0, <1>1 DEF Once
<1>2. ASSUME NEW p \in Process, NEW q \in Op, Reserve(p, q)
      PROVE  Once'
  <2>1. op'[q].state # "ABSENT" /\ \A r \in Op \ {q} : op'[r] = op[r]
    BY <1>2 DEF Reserve, ReservedState, Typed, TypeOK, Row
  <2>2. QED
    BY <1>2, <2>1 DEF Reserve, Once, Unsent, Typed, TypeOK
<1>3. ASSUME NEW q \in Op, Leave(q)
      PROVE  Once'
  BY <1>3, StaysPresent DEF Leave, Once, Unsent, Typed, TypeOK
<1>4. ASSUME NEW q \in Op, AdmitRunning(q)
      PROVE  Once'
  BY <1>4, StaysPresent DEF AdmitRunning, Asking, Pass, Once, Unsent, Typed, TypeOK
<1>5. ASSUME NEW q \in Op, AdmitCommit(q)
      PROVE  Once'
  BY <1>5, StaysPresent DEF AdmitCommit, Asking, Pass, Once, Unsent, Typed, TypeOK
<1>6. ASSUME NEW q \in Op, Hear(q)
      PROVE  Once'
  BY <1>6, StaysPresent DEF Hear, Once, Unsent, Typed, TypeOK
<1>7. ASSUME NEW q \in Op, Deny(q)
      PROVE  Once'
  BY <1>7, StaysPresent DEF Deny, Once, Unsent, Typed, TypeOK
<1>8. ASSUME NEW q \in Op, GiveUp(q)
      PROVE  Once'
  BY <1>8, StaysPresent DEF GiveUp, Once, Unsent, Typed, TypeOK
<1>9. ASSUME NEW q \in Op, RecordRefused(q)
      PROVE  Once'
  BY <1>9, StaysPresent DEF RecordRefused, Once, Unsent, Typed, TypeOK
<1>10. ASSUME NEW q \in Op, RecordCommit(q)
      PROVE  Once'
  BY <1>10, StaysPresent DEF RecordCommit, Tell, Once, Unsent, Typed, TypeOK
<1>11. ASSUME NEW q \in Op, ReleaseRefused(q)
      PROVE  Once'
  BY <1>11, StaysPresent DEF ReleaseRefused, Tell, Once, Unsent, Typed, TypeOK
<1>12. ASSUME NEW q \in Op, ReleaseCommit(q)
      PROVE  Once'
  BY <1>12, StaysPresent DEF ReleaseCommit, Tell, Once, Unsent, Typed, TypeOK
<1>13. ASSUME NEW q \in Op, Lock(q)
      PROVE  Once'
  BY <1>13, StaysPresent DEF Lock, Become, Once, Unsent, Typed, TypeOK
<1>14. ASSUME NEW q \in Op, Refuse(q)
      PROVE  Once'
  BY <1>14, StaysPresent DEF Refuse, Become, Once, Unsent, Typed, TypeOK
<1>15. ASSUME NEW q \in Op, Begin(q)
      PROVE  Once'
  BY <1>15, StaysPresent DEF Begin, Become, Once, Unsent, Typed, TypeOK
<1>16. ASSUME NEW q \in Op, Abandon(q)
      PROVE  Once'
  BY <1>16, StaysPresent DEF Abandon, Become, Once, Unsent, Typed, TypeOK
<1>17. ASSUME NEW q \in Op, Dispatch(q)
      PROVE  Once'
  BY <1>17, StaysPresent DEF Dispatch, Become, Once, Unsent, Typed, TypeOK
<1>18. ASSUME NEW q \in Op, Return(q)
      PROVE  Once'
  BY <1>18, StaysPresent DEF Return, Become, Once, Unsent, Typed, TypeOK
<1>19. ASSUME NEW q \in Op, LateCheck(q)
      PROVE  Once'
  BY <1>19, StaysPresent DEF LateCheck, Become, Once, Unsent, Typed, TypeOK
<1>20. ASSUME NEW q \in Op, LateCommit(q)
      PROVE  Once'
  BY <1>20, StaysPresent DEF LateCommit, Become, Once, Unsent, Typed, TypeOK
<1>21. ASSUME NEW q \in Op, End(q)
      PROVE  Once'
  BY <1>21, StaysPresent DEF End, Become, Once, Unsent, Typed, TypeOK
<1>22. ASSUME NEW p \in Process, Crash(p)
      PROVE  Once'
  BY <1>22 DEF Crash, Once, Unsent, Typed, TypeOK
<1>23. QED
  BY <1>1, <1>2, <1>3, <1>4, <1>5, <1>6, <1>7, <1>8, <1>9, <1>10, <1>11, <1>12, <1>13, <1>14, <1>15, <1>16, <1>17, <1>18, <1>19, <1>20, <1>21, <1>22
     DEF Once, Next, Submit, Work, Operator, vars, Resubmit, AdmitRead, RecordRead, ReleaseRead,
         LateRead, UpdateRead, UpdateCommit, DropRead, DropCommit, RunRead, RunCommit,
         ReconcileRead, ReconcileCommit, Expire

(***************************************************************************)
(* An operation is performed at most once, however its calls interleave    *)
(* and whatever locks they hold.                                           *)
(***************************************************************************)
THEOREM PerformedOnce == Spec => []AtMostOnce
<1>1. Init => Typed /\ Once
  BY TypedInit DEF Init, Once, Unsent
<1>2. Typed /\ Once /\ [Next]_vars => Typed' /\ Once'
  BY TypedStep, OnceStep
<1>3. Once => AtMostOnce
  BY DEF Once, AtMostOnce
<1>4. QED
  BY <1>1, <1>2, <1>3, PTL DEF Spec

LEMMA HolderStep == ASSUME Typed, OneHolder, [Next]_vars PROVE OneHolder'
<1>1. ASSUME \A o \in Op : Holding(o)' => Holding(o)
      PROVE  OneHolder'
  BY <1>1 DEF OneHolder
<1>2. ASSUME NEW q \in Op, Lock(q)
      PROVE  OneHolder'
  <2>1. \A o \in Op : Holding(o)' <=> (o = q \/ Holding(o))
    BY <1>2 DEF Lock, Become, Holding, Typed, TypeOK
  <2>2. QED
    BY <1>2, <2>1 DEF Lock, FlockFree, OneHolder
<1>3. CASE UNCHANGED worker
  BY <1>3, <1>1 DEF Holding
<1>4. ASSUME NEW q \in Op, AdmitRunning(q) \/ AdmitCommit(q)
      PROVE  OneHolder'
  BY <1>1, <1>4 DEF AdmitRunning, AdmitCommit, Pass, Holding, Typed, TypeOK
<1>5. ASSUME NEW q \in Op, Deny(q) \/ Refuse(q) \/ Abandon(q) \/ End(q)
      PROVE  OneHolder'
  BY <1>1, <1>5 DEF Deny, Refuse, Abandon, End, Become, Holding, Typed, TypeOK
<1>6. ASSUME NEW q \in Op, Begin(q) \/ Dispatch(q) \/ Return(q) \/ LateCheck(q) \/ LateCommit(q)
      PROVE  OneHolder'
  BY <1>1, <1>6 DEF Begin, Dispatch, Return, LateCheck, LateCommit, Become, Holding, Typed, TypeOK
<1>7. ASSUME NEW p \in Process, Crash(p)
      PROVE  OneHolder'
  BY <1>1, <1>7 DEF Crash, Holding, Typed, TypeOK
<1>8. QED
  BY <1>2, <1>3, <1>4, <1>5, <1>6, <1>7
     DEF Next, Submit, Work, Operator, vars, Reserve, Resubmit, Leave, AdmitRead, Hear, GiveUp,
         RecordRead, RecordRefused, RecordCommit, ReleaseRead, ReleaseRefused, ReleaseCommit,
         LateRead, UpdateRead, UpdateCommit, DropRead, DropCommit, RunRead, RunCommit,
         ReconcileRead, ReconcileCommit, Expire

(***************************************************************************)
(* One machine performs one effect at a time: the OS lock alone keeps      *)
(* workers apart, whatever locks the service calls hold.                   *)
(***************************************************************************)
THEOREM MachineDoesOneThing == Spec => []OneInFlight
<1>1. Init => Typed /\ OneHolder
  BY TypedInit DEF Init, OneHolder, Holding
<1>2. Typed /\ OneHolder /\ [Next]_vars => Typed' /\ OneHolder'
  BY TypedStep, HolderStep
<1>3. OneHolder => OneInFlight
  BY DEF OneHolder, OneInFlight, Holding
<1>4. QED
  BY <1>1, <1>2, <1>3, PTL DEF Spec

-----------------------------------------------------------------------------
(***************************************************************************)
(* Under one lock, what a call has read is still in the tables.            *)
(***************************************************************************)

CurrentCall(k) ==
  /\ k.run = run
  /\ k.kind \in Writes => k.row = op[k.op] /\ op[k.op].state # "ABSENT" /\ k.to \in OpMoves(op[k.op].state)
  /\ k.kind = "run" => k.to \in RunMoves(run)
  /\ k.kind = "reconcile" => k.to = "UNCERTAIN" /\ \A o \in k.hit : op[o].state \notin Terminal \union {"ABSENT"}
  /\ k.kind = "result" => /\ waiter[k.op] = "answering"
                          /\ home[k.op] = k.proc
                          /\ k.to = res[k.op]

ReadIsCurrent ==
  \A p \in Process : call[ScopeOf[p]] # NoCall => CurrentCall(call[ScopeOf[p]])

\* A worker in these stages has not reached the durable mark.
Early == {"none", "locking", "holding", "checked"}

MarkedAt(o) ==
  /\ o \in begun => op[o].started /\ op[o].state # "ABSENT"
  /\ worker[o] \in Early => o \notin begun
  /\ worker[o] = "begun" => o \in begun

\* The mark of an effect that began is in its row, and stays there.
Marked == \A o \in Op : MarkedAt(o)

\* The lease of a machine passes over no effect that is not settled.
Quarantined ==
  \A pair \in Rivals : pair[1] \in begun /\ lease[Key(pair[1])] = pair[2] => Settled(pair[1])

\* What submit is about to tell has been recorded.
Recorded == \A o \in Op : waiter[o] = "releasing" /\ res[o] \in Terminal => op[o].state = res[o]
-----------------------------------------------------------------------------
\* The transition tables.
LEMMA TerminalMoves == \A t \in Terminal : OpMoves(t) = {t} /\ RunMoves(t) = {t}
  BY DEF Terminal, OpMoves, RunMoves

LEMMA UncertainMoves == \A t \in OpState \ Terminal : "UNCERTAIN" \in OpMoves(t)
  BY DEF OpState, Terminal, OpMoves

LEMMA StayMoves == \A t : t \in OpMoves(t) /\ t \in RunMoves(t)
  BY DEF OpMoves, RunMoves

LEMMA AdmitMoves == "RUNNING" \in OpMoves("STARTING")
  BY DEF OpMoves

\* A call that begins reads the tables as they are.
LEMMA HoldCurrent ==
  ASSUME OneScope, Typed, NEW p \in Process, NEW k,
         call' = [call EXCEPT ![ScopeOf[p]] = k], CurrentCall(k)'
  PROVE  ReadIsCurrent'
<1>1. \A q \in Process : ScopeOf[q] = ScopeOf[p] /\ ScopeOf[q] \in Scope
  BY EffectAssumption DEF OneScope
<1>2. \A q \in Process : call'[ScopeOf[q]] = k
  BY <1>1 DEF Typed, TypeOK
<1>3. QED
  BY <1>2 DEF ReadIsCurrent

\* A call that commits leaves no call behind it.
LEMMA DoneCurrent ==
  ASSUME OneScope, Typed, NEW p \in Process, Done(p)
  PROVE  ReadIsCurrent'
<1>1. \A q \in Process : ScopeOf[q] = ScopeOf[p] /\ ScopeOf[q] \in Scope
  BY EffectAssumption DEF OneScope
<1>2. \A q \in Process : call'[ScopeOf[q]] = NoCall
  BY <1>1 DEF Done, Typed, TypeOK
<1>3. QED
  BY <1>2 DEF ReadIsCurrent

\* One transaction under the lock finds no call.
LEMMA FreeCurrent ==
  ASSUME OneScope, Typed, NEW p \in Process, Free(p), UNCHANGED call
  PROVE  ReadIsCurrent'
<1>1. \A q \in Process : ScopeOf[q] = ScopeOf[p]
  BY DEF OneScope
<1>2. QED
  BY <1>1 DEF Free, ReadIsCurrent

\* Nothing that a call has read changes, and no result that is being written.
LEMMA KeepCurrent ==
  ASSUME ReadIsCurrent, UNCHANGED <<op, run, call, home>>,
         \A o \in Op : waiter[o] = "answering" => waiter'[o] = "answering" /\ res'[o] = res[o],
         Typed
  PROVE  ReadIsCurrent'
<1> SUFFICES ASSUME NEW p \in Process, call[ScopeOf[p]] # NoCall
             PROVE  CurrentCall(call[ScopeOf[p]])'
  BY DEF ReadIsCurrent
<1> DEFINE k == call[ScopeOf[p]]
<1>1. CurrentCall(k)
  BY DEF ReadIsCurrent
<1>2. k.kind = "result" => k.op \in Op
  BY EffectAssumption DEF Typed, WritesState, Writes
<1>3. QED
  BY <1>1, <1>2 DEF CurrentCall

LEMMA CurrentStep ==
  ASSUME OneScope, Typed, Once, ReadIsCurrent, [Next]_vars
  PROVE  ReadIsCurrent'
<1>h. \A o \in Op : waiter[o] # "none" \/ worker[o] # "none" => home[o] \in Process
  BY DEF Typed, HomeKnown
<1>1. ASSUME NEW p \in Process, NEW o \in Op, Reserve(p, o) \/ Resubmit(p, o)
      PROVE  ReadIsCurrent'
  BY <1>1, FreeCurrent DEF Reserve, Resubmit
<1>2. ASSUME NEW o \in Op,
             \/ Leave(o) \/ AdmitRunning(o) \/ RecordRefused(o) \/ ReleaseRefused(o)
             \/ Refuse(o) \/ Begin(o) \/ LateCheck(o)
      PROVE  ReadIsCurrent'
  <2>1. home[o] \in Process
    BY <1>2, <1>h DEF Leave, AdmitRunning, Asking, RecordRefused, ReleaseRefused, Refuse, Begin, LateCheck
  <2>2. Free(home[o]) /\ UNCHANGED call
    BY <1>2 DEF Leave, AdmitRunning, RecordRefused, ReleaseRefused, Refuse, Begin, LateCheck
  <2>3. QED
    BY <2>1, <2>2, FreeCurrent
<1>3. ASSUME NEW o \in Op,
             AdmitCommit(o) \/ RecordCommit(o) \/ ReleaseCommit(o) \/ LateCommit(o)
      PROVE  ReadIsCurrent'
  <2>1. home[o] \in Process /\ Done(home[o])
    BY <1>3, <1>h DEF AdmitCommit, Asking, RecordCommit, ReleaseCommit, LateCommit
  <2>2. QED
    BY <2>1, DoneCurrent
<1>4. ASSUME NEW p \in Process, NEW o \in Op, UpdateCommit(p, o) \/ DropCommit(p, o)
      PROVE  ReadIsCurrent'
  BY <1>4, DoneCurrent DEF UpdateCommit, DropCommit
<1>5. ASSUME NEW p \in Process, RunCommit(p) \/ ReconcileCommit(p)
      PROVE  ReadIsCurrent'
  BY <1>5, DoneCurrent DEF RunCommit, ReconcileCommit
<1>6. ASSUME NEW o \in Op, Hear(o) \/ Deny(o) \/ GiveUp(o)
      PROVE  ReadIsCurrent'
  BY <1>6, KeepCurrent DEF Hear, Deny, GiveUp, Typed, TypeOK
<1>7. ASSUME NEW o \in Op, Lock(o) \/ Abandon(o) \/ Dispatch(o) \/ Return(o) \/ End(o)
      PROVE  ReadIsCurrent'
  BY <1>7, KeepCurrent DEF Lock, Abandon, Dispatch, Return, End, Typed, TypeOK
<1>8. ASSUME NEW k \in Keys, Expire(k)
      PROVE  ReadIsCurrent'
  BY <1>8, KeepCurrent DEF Expire
<1>9. CASE UNCHANGED vars
  BY <1>9, KeepCurrent DEF vars
<1>10. ASSUME NEW o \in Op, AdmitRead(o)
       PROVE  ReadIsCurrent'
  <2> DEFINE k == [kind |-> "admit", proc |-> home[o], op |-> o, row |-> op[o],
                   to |-> "RUNNING", run |-> run, hit |-> {}]
  <2>1. home[o] \in Process
    BY <1>10, <1>h DEF AdmitRead, Asking
  <2>2. CurrentCall(k)'
    BY <1>10, AdmitMoves DEF AdmitRead, CurrentCall
  <2>3. QED
    BY <1>10, <2>1, <2>2, HoldCurrent DEF AdmitRead, Hold
<1>11. ASSUME NEW o \in Op, RecordRead(o)
       PROVE  ReadIsCurrent'
  <2> DEFINE k == [kind |-> "result", proc |-> home[o], op |-> o, row |-> op[o],
                   to |-> res[o], run |-> run, hit |-> {}]
  <2>1. home[o] \in Process
    BY <1>11, <1>h DEF RecordRead
  <2>2. op[o].state # "ABSENT"
    BY <1>11 DEF RecordRead, Once
  <2>3. CurrentCall(k)'
    BY <1>11, <2>2 DEF RecordRead, Recordable, CurrentCall
  <2>4. QED
    BY <1>11, <2>1, <2>3, HoldCurrent DEF RecordRead, Hold
<1>12. ASSUME NEW o \in Op, ReleaseRead(o)
       PROVE  ReadIsCurrent'
  <2> DEFINE k == [kind |-> "release", proc |-> home[o], op |-> o, row |-> op[o],
                   to |-> res[o], run |-> run, hit |-> {}]
  <2>1. home[o] \in Process
    BY <1>12, <1>h DEF ReleaseRead
  <2>2. CurrentCall(k)'
    BY <1>12 DEF ReleaseRead, CurrentCall, Writes
  <2>3. QED
    BY <1>12, <2>1, <2>2, HoldCurrent DEF ReleaseRead, Hold
<1>13. ASSUME NEW o \in Op, LateRead(o)
       PROVE  ReadIsCurrent'
  <2> DEFINE k == [kind |-> "late", proc |-> home[o], op |-> o, row |-> op[o],
                   to |-> op[o].state, run |-> run, hit |-> {}]
  <2>1. home[o] \in Process
    BY <1>13, <1>h DEF LateRead
  <2>2. CurrentCall(k)'
    BY <1>13, StayMoves DEF LateRead, CurrentCall
  <2>3. QED
    BY <1>13, <2>1, <2>2, HoldCurrent DEF LateRead, Hold
<1>14. ASSUME NEW p \in Process, NEW o \in Op, NEW to \in Request, UpdateRead(p, o, to)
       PROVE  ReadIsCurrent'
  <2> DEFINE k == [kind |-> "update", proc |-> p, op |-> o, row |-> op[o],
                   to |-> to, run |-> run, hit |-> {}]
  <2>1. CurrentCall(k)'
    BY <1>14 DEF UpdateRead, CurrentCall
  <2>2. QED
    BY <1>14, <2>1, HoldCurrent DEF UpdateRead, Hold
<1>15. ASSUME NEW p \in Process, NEW o \in Op, DropRead(p, o)
       PROVE  ReadIsCurrent'
  <2> DEFINE k == [kind |-> "drop", proc |-> p, op |-> o, row |-> op[o],
                   to |-> res[o], run |-> run, hit |-> {}]
  <2>1. CurrentCall(k)'
    BY <1>15 DEF DropRead, CurrentCall, Writes
  <2>2. QED
    BY <1>15, <2>1, HoldCurrent DEF DropRead, Hold
<1>16. ASSUME NEW p \in Process, NEW to \in RunRequest, RunRead(p, to)
       PROVE  ReadIsCurrent'
  <2> DEFINE k == [kind |-> "run", proc |-> p, op |-> NoOp,
                   row |-> [state |-> "ABSENT", started |-> FALSE],
                   to |-> to, run |-> run, hit |-> {}]
  <2>1. CurrentCall(k)'
    BY <1>16 DEF RunRead, CurrentCall, Writes
  <2>2. QED
    BY <1>16, <2>1, HoldCurrent DEF RunRead
<1>17. ASSUME NEW p \in Process, ReconcileRead(p)
       PROVE  ReadIsCurrent'
  <2>1. PICK S \in (SUBSET Stallable) \ {{}} :
          call' = [call EXCEPT ![ScopeOf[p]] =
            [kind |-> "reconcile", proc |-> p, op |-> NoOp,
             row |-> [state |-> "ABSENT", started |-> FALSE],
             to |-> "UNCERTAIN", run |-> run, hit |-> S]]
    BY <1>17 DEF ReconcileRead
  <2> DEFINE k == [kind |-> "reconcile", proc |-> p, op |-> NoOp,
                   row |-> [state |-> "ABSENT", started |-> FALSE],
                   to |-> "UNCERTAIN", run |-> run, hit |-> S]
  <2>2. CurrentCall(k)'
    BY <1>17 DEF ReconcileRead, CurrentCall, Writes, Stallable
  <2>3. QED
    BY <1>17, <2>1, <2>2, HoldCurrent DEF ReconcileRead
<1>18. ASSUME NEW p \in Process, Crash(p)
       PROVE  ReadIsCurrent'
  <2> SUFFICES ASSUME NEW r \in Process, call'[ScopeOf[r]] # NoCall
               PROVE  CurrentCall(call[ScopeOf[r]])' /\ call'[ScopeOf[r]] = call[ScopeOf[r]]
    BY DEF ReadIsCurrent, CurrentCall
  <2> DEFINE k == call[ScopeOf[r]]
  <2>1. k # NoCall /\ k.proc # p /\ call'[ScopeOf[r]] = k
    BY <1>18, EffectAssumption DEF Crash
  <2>2. CurrentCall(k)
    BY <2>1 DEF ReadIsCurrent
  <2>3. k.kind = "result" => k.op \in Op
    BY <2>1, EffectAssumption DEF Typed, WritesState, Writes
  <2>4. k.kind = "result" => waiter'[k.op] = waiter[k.op]
    BY <1>18, <2>1, <2>2, <2>3 DEF Crash, CurrentCall
  <2>5. QED
    BY <1>18, <2>1, <2>2, <2>4 DEF Crash, CurrentCall
<1>19. QED
  BY <1>1, <1>2, <1>3, <1>4, <1>5, <1>6, <1>7, <1>8, <1>9, <1>10, <1>11, <1>12, <1>13, <1>14,
     <1>15, <1>16, <1>17, <1>18 DEF Next, Submit, Work, Operator
-----------------------------------------------------------------------------
(***************************************************************************)
(* Rows of operations and the run move along the transition tables.        *)
(***************************************************************************)

\* A call that commits moves the row it read.
LEMMA WriteMoves ==
  ASSUME Typed, ReadIsCurrent, NEW p \in Process, NEW o \in Op, NEW kind \in Writes,
         Committing(p, kind, o), WriteRow(p, o)
  PROVE  /\ op[o].state # "ABSENT"
         /\ op'[o].state = call[ScopeOf[p]].to
         /\ op'[o].state \in OpMoves(op[o].state)
         /\ op'[o].started = op[o].started
         /\ \A q \in Op \ {o} : op'[q] = op[q]
<1> DEFINE k == call[ScopeOf[p]]
<1>1. k # NoCall /\ k.kind \in Writes /\ k.op = o
  BY DEF Committing
<1>2. k.row = op[o] /\ op[o].state # "ABSENT" /\ k.to \in OpMoves(op[o].state)
  BY <1>1 DEF ReadIsCurrent, CurrentCall
<1>3. QED
  BY <1>2 DEF WriteRow, Typed, TypeOK

RowMoves(o) ==
  op[o].state # "ABSENT" =>
    /\ op'[o].state \in OpMoves(op[o].state)
    /\ op[o].started => op'[o].started

LEMMA RowsMove ==
  ASSUME Typed, ReadIsCurrent, [Next]_vars, NEW o \in Op
  PROVE  RowMoves(o)
<1>1. ASSUME NEW p \in Process, NEW q \in Op, NEW kind \in Writes,
             Committing(p, kind, q), WriteRow(p, q)
      PROVE  RowMoves(o)
  BY <1>1, WriteMoves, StayMoves DEF RowMoves
<1>2. ASSUME NEW p \in Process, NEW q \in Op, Reserve(p, q)
      PROVE  RowMoves(o)
  BY <1>2, StayMoves DEF RowMoves, Reserve, Typed, TypeOK, Row
<1>3. ASSUME NEW q \in Op, Begin(q)
      PROVE  RowMoves(o)
  <2>1. op'[o].state = op[o].state /\ (op[o].started => op'[o].started)
    BY <1>3 DEF Begin, Typed, TypeOK, Row
  <2>2. QED
    BY <2>1, StayMoves DEF RowMoves
<1>4. ASSUME NEW p \in Process, ReconcileCommit(p)
      PROVE  RowMoves(o)
  <2> DEFINE k == call[ScopeOf[p]]
  <2>1. CurrentCall(k) /\ k.kind = "reconcile"
    BY <1>4 DEF ReconcileCommit, Committing, ReadIsCurrent
  <2>2. CASE o \in k.hit
    <3>1. op[o] \in Row /\ op[o].state \notin Terminal \union {"ABSENT"}
      BY <2>1, <2>2 DEF CurrentCall, Typed, TypeOK
    <3>2. op'[o] = [op[o] EXCEPT !.state = "UNCERTAIN"]
      BY <1>4, <2>2 DEF ReconcileCommit
    <3>3. op'[o].state = "UNCERTAIN" /\ op'[o].started = op[o].started
      BY <3>1, <3>2 DEF Row
    <3>4. op[o].state \in OpState \ Terminal
      BY <3>1, RowState
    <3>5. QED
      BY <3>3, <3>4, UncertainMoves DEF RowMoves
  <2>3. CASE o \notin k.hit
    BY <1>4, <2>3, StayMoves DEF ReconcileCommit, RowMoves
  <2>4. QED
    BY <2>2, <2>3
<1>5. ASSUME NEW q \in Op, AdmitCommit(q) \/ RecordCommit(q) \/ LateCommit(q)
      PROVE  RowMoves(o)
  <2>1. home[q] \in Process
    BY <1>5 DEF AdmitCommit, RecordCommit, LateCommit, Asking, Typed, HomeKnown
  <2>2. QED
    BY <1>1, <1>5, <2>1 DEF AdmitCommit, RecordCommit, LateCommit, Writes
<1>6. ASSUME NEW p \in Process, NEW q \in Op, UpdateCommit(p, q)
      PROVE  RowMoves(o)
  BY <1>1, <1>6 DEF UpdateCommit, Writes
<1>7. CASE UNCHANGED op
  BY <1>7, StayMoves DEF RowMoves
<1>8. QED
  BY <1>2, <1>3, <1>4, <1>5, <1>6, <1>7
     DEF Next, Submit, Work, Operator, vars, Resubmit, Leave, AdmitRunning, AdmitRead, Hear,
         Deny, GiveUp, RecordRead, RecordRefused, ReleaseRead, ReleaseRefused, ReleaseCommit,
         Lock, Refuse, Abandon, Dispatch, Return, LateCheck, LateRead, End, UpdateRead,
         DropRead, DropCommit, RunRead, RunCommit, ReconcileRead, Expire, Crash

LEMMA RunMovesOn ==
  ASSUME Typed, ReadIsCurrent, [Next]_vars
  PROVE  run \in Terminal => run' = run
<1>1. ASSUME NEW p \in Process, RunCommit(p)
      PROVE  run \in Terminal => run' = run
  <2>1. run' \in RunMoves(run)
    BY <1>1 DEF RunCommit, Committing, ReadIsCurrent, CurrentCall
  <2>2. QED
    BY <2>1, TerminalMoves
<1>2. ASSUME NEW p \in Process, ReconcileCommit(p)
      PROVE  run \in Terminal => run' = run
  <2>1. call[ScopeOf[p]].run = run
    BY <1>2 DEF ReconcileCommit, Committing, ReadIsCurrent, CurrentCall
  <2>2. QED
    BY <1>2, <2>1 DEF ReconcileCommit, Terminal
<1>3. CASE UNCHANGED run
  BY <1>3
<1>4. QED
  BY <1>1, <1>2, <1>3
     DEF Next, Submit, Work, Operator, vars, Reserve, Resubmit, Leave, AdmitRunning, AdmitRead,
         AdmitCommit, Hear, Deny, GiveUp, RecordRead, RecordRefused, RecordCommit, ReleaseRead,
         ReleaseRefused, ReleaseCommit, Lock, Refuse, Begin, Abandon, Dispatch, Return,
         LateCheck, LateRead, LateCommit, End, UpdateRead, UpdateCommit, DropRead, DropCommit,
         RunRead, ReconcileRead, Expire, Crash

LEMMA SettledStays ==
  ASSUME Typed, ReadIsCurrent, [Next]_vars, NEW o \in Op, Settled(o)
  PROVE  Settled(o)' /\ op'[o].state = op[o].state
<1>1. op[o].state \in Terminal /\ op[o].state # "ABSENT"
  BY DEF Settled, Terminal
<1>2. op'[o].state = op[o].state
  BY <1>1, RowsMove, TerminalMoves DEF RowMoves
<1>3. QED
  BY <1>1, <1>2 DEF Settled

(***************************************************************************)
(* What one lock gives every call: it acts on the rows as they are.        *)
(***************************************************************************)
Current == Typed /\ Once /\ ReadIsCurrent

LEMMA CurrentAlways == ASSUME OneScope PROVE Spec => []Current
<1>1. Init => Current
  BY TypedInit, EffectAssumption DEF Init, Current, Once, Unsent, ReadIsCurrent
<1>2. Current /\ [Next]_vars => Current'
  BY TypedStep, OnceStep, CurrentStep DEF Current
<1>3. QED
  BY <1>1, <1>2, PTL DEF Spec

(***************************************************************************)
(* Under one lock no operation and no run leaves a terminal state.         *)
(***************************************************************************)
THEOREM TerminalStaysFinal == ASSUME OneScope PROVE Spec => TerminalIsFinal
<1>1. Current /\ [Next]_vars =>
        /\ \A o \in Op : Settled(o) => op'[o].state = op[o].state
        /\ run \in Terminal => run' = run
  BY SettledStays, RunMovesOn DEF Current
<1>2. QED
  BY <1>1, CurrentAlways, PTL DEF Spec, TerminalIsFinal
-----------------------------------------------------------------------------
(***************************************************************************)
(* The quarantine of a machine.                                            *)
(***************************************************************************)

LEMMA MarkedStep ==
  ASSUME Current, Marked, [Next]_vars
  PROVE  Marked'
<1> USE DEF Current
<1> SUFFICES ASSUME NEW o \in Op
             PROVE  MarkedAt(o)'
  BY DEF Marked
<1>0. MarkedAt(o)
  BY DEF Marked
<1>1. o \in begun => op'[o].started /\ op'[o].state # "ABSENT"
  BY <1>0, RowsMove, StaysPresent DEF MarkedAt, RowMoves
<1>2. ASSUME UNCHANGED begun,
             worker'[o] \in Early => worker[o] \in Early,
             worker'[o] = "begun" => worker[o] = "begun"
      PROVE  MarkedAt(o)'
  BY <1>0, <1>1, <1>2 DEF MarkedAt
<1>3. ASSUME NEW q \in Op, Begin(q)
      PROVE  MarkedAt(o)'
  <2>1. op'[q].started /\ op'[q].state = "RUNNING"
    BY <1>3 DEF Begin, Typed, TypeOK, Row
  <2>2. QED
    BY <1>0, <1>1, <1>3, <2>1 DEF Begin, Become, MarkedAt, Early, Typed, TypeOK
<1>4. ASSUME NEW q \in Op, AdmitRunning(q) \/ AdmitCommit(q)
      PROVE  MarkedAt(o)'
  BY <1>2, <1>4 DEF Early, AdmitRunning, AdmitCommit, Pass, Once, Typed, TypeOK
<1>5. ASSUME NEW q \in Op, Deny(q) \/ Lock(q) \/ Refuse(q) \/ Abandon(q) \/ Dispatch(q)
      PROVE  MarkedAt(o)'
  BY <1>2, <1>5 DEF Early, Deny, Lock, Refuse, Abandon, Dispatch, Become, Typed, TypeOK
<1>6. ASSUME NEW q \in Op, Return(q) \/ LateCheck(q) \/ LateCommit(q) \/ End(q)
      PROVE  MarkedAt(o)'
  BY <1>2, <1>6 DEF Early, Return, LateCheck, LateCommit, End, Become, Typed, TypeOK
<1>7. ASSUME NEW p \in Process, Crash(p)
      PROVE  MarkedAt(o)'
  BY <1>2, <1>7 DEF Early, Crash, Typed, TypeOK
<1>8. CASE UNCHANGED <<worker, begun>>
  BY <1>2, <1>8
<1>9. QED
  BY <1>3, <1>4, <1>5, <1>6, <1>7, <1>8
     DEF Next, Submit, Work, Operator, vars, Reserve, Resubmit, Leave, AdmitRead, Hear, GiveUp,
         RecordRead, RecordRefused, RecordCommit, ReleaseRead, ReleaseRefused, ReleaseCommit,
         LateRead, UpdateRead, UpdateCommit, DropRead, DropCommit, RunRead, RunCommit,
         ReconcileRead, ReconcileCommit, Expire

\* Rivals exclude each other both ways.
LEMMA RivalsBothWays ==
  ASSUME NEW o \in Op, NEW q \in Op, <<o, q>> \in Rivals
  PROVE  <<q, o>> \in Rivals /\ o \notin Observation /\ q \notin Observation /\ Key(o) = Key(q)
<1>1. o # q /\ Key(o) = Key(q) /\ o \notin Observation
  BY DEF Rivals
<1>2. (q \in Observation) = (o \in Observation)
  BY <1>1 DEF Key
<1>3. q \notin Observation
  BY <1>1, <1>2
<1>4. QED
  BY <1>1, <1>3 DEF Rivals

LEMMA RivalPair ==
  ASSUME NEW pair \in Rivals
  PROVE  /\ pair[1] \in Op /\ pair[2] \in Op /\ pair = <<pair[1], pair[2]>>
         /\ pair[1] # pair[2] /\ Key(pair[1]) = Key(pair[2]) /\ pair[1] \notin Observation
  BY DEF Rivals

\* A reservation finds no rival whose effect may still run.
LEMMA ReserveClear ==
  ASSUME Marked, NEW o \in Op, Unresolved(o) = {}, NEW q \in begun, <<q, o>> \in Rivals, q \in Op
  PROVE  Settled(q)
<1>1. op[q].started /\ op[q].state # "ABSENT"
  BY DEF Marked, MarkedAt
<1>2. Key(q) = Key(o) /\ q \notin Observation
  BY RivalsBothWays
<1>3. q \notin Unresolved(o)
  OBVIOUS
<1>4. QED
  BY <1>1, <1>2, <1>3 DEF Unresolved, Settled

LEMMA QuarantinedStep ==
  ASSUME Current, Marked, Quarantined, [Next]_vars
  PROVE  Quarantined'
<1> USE DEF Current
<1>s. Rivals' = Rivals
  BY DEF Rivals, Key
<1> SUFFICES ASSUME NEW pair \in Rivals, pair[1] \in begun', lease'[Key(pair[1])] = pair[2]
             PROVE  Settled(pair[1])'
  BY <1>s DEF Quarantined, Key
<1>0. /\ pair[1] \in Op /\ pair[2] \in Op /\ pair[1] # pair[2] /\ Key(pair[1]) = Key(pair[2])
      /\ <<pair[1], pair[2]>> \in Rivals
  BY RivalPair
<1>k. \A o \in Op : Key(o) \in Keys
  BY KeyInKeys
<1>1. ASSUME Settled(pair[1])
      PROVE  Settled(pair[1])'
  BY <1>0, <1>1, SettledStays
<1>2. CASE UNCHANGED <<begun, lease>>
  BY <1>1, <1>2 DEF Quarantined
<1>3. ASSUME NEW p \in Process, NEW o \in Op, Reserve(p, o)
      PROVE  Settled(pair[1])'
  <2>1. pair[1] \in begun
    BY <1>3 DEF Reserve
  <2>2. CASE o = pair[2]
    <3>1. Unresolved(o) = {}
      BY <1>3 DEF Reserve
    <3>2. QED
      BY <1>0, <1>1, <2>1, <2>2, <3>1, ReserveClear
  <2>3. CASE o # pair[2]
    <3>1. lease[Key(pair[1])] = pair[2]
      BY <1>0, <1>k, <1>3, <2>3 DEF Reserve, Typed, TypeOK
    <3>2. QED
      BY <1>1, <2>1, <3>1 DEF Quarantined
  <2>4. QED
    BY <2>2, <2>3
<1>4. ASSUME NEW p \in Process, NEW o \in Op, DropCommit(p, o)
      PROVE  Settled(pair[1])'
  <2>1. pair[1] \in begun
    BY <1>4 DEF DropCommit
  <2>2. lease[Key(pair[1])] = pair[2]
    BY <1>0, <1>k, <1>4, EffectAssumption DEF DropCommit, Typed, TypeOK
  <2>3. QED
    BY <1>1, <2>1, <2>2 DEF Quarantined
<1>5. ASSUME NEW o \in Op, Begin(o)
      PROVE  Settled(pair[1])'
  <2>1. lease[Key(o)] = o /\ lease[Key(pair[1])] = pair[2]
    BY <1>5 DEF Begin, Fenced
  <2>2. pair[1] # o
    BY <1>0, <2>1
  <2>3. pair[1] \in begun
    BY <1>5, <2>2 DEF Begin
  <2>4. QED
    BY <1>1, <2>1, <2>3 DEF Quarantined
<1>6. ASSUME NEW o \in Op, ReleaseCommit(o)
      PROVE  Settled(pair[1])'
  <2>1. pair[1] \in begun
    BY <1>6 DEF ReleaseCommit
  <2>2. lease[Key(pair[1])] = pair[2]
    BY <1>0, <1>k, <1>6, EffectAssumption DEF ReleaseCommit, Typed, TypeOK
  <2>3. QED
    BY <1>1, <2>1, <2>2 DEF Quarantined
<1>7. QED
  BY <1>2, <1>3, <1>4, <1>5, <1>6
     DEF Next, Submit, Work, Operator, vars, Resubmit, Leave, AdmitRunning, AdmitRead,
         AdmitCommit, Hear, Deny, GiveUp, RecordRead, RecordRefused, RecordCommit, ReleaseRead,
         ReleaseRefused, Lock, Refuse, Abandon, Dispatch, Return, LateCheck, LateRead,
         LateCommit, End, UpdateRead, UpdateCommit, DropRead, RunRead, RunCommit,
         ReconcileRead, ReconcileCommit, Expire, Crash

LEMMA QuarantineStep ==
  ASSUME Current, Quarantined, Quarantine, [Next]_vars
  PROVE  Quarantine'
<1> USE DEF Current
<1>s. Rivals' = Rivals
  BY DEF Rivals, Key
<1> SUFFICES ASSUME NEW pair \in Rivals, pair[1] \in begun', pair[2] \in begun'
             PROVE  Settled(pair[1])' \/ Settled(pair[2])'
  BY <1>s DEF Quarantine
<1>0. /\ pair[1] \in Op /\ pair[2] \in Op /\ pair[1] # pair[2] /\ Key(pair[1]) = Key(pair[2])
      /\ <<pair[1], pair[2]>> \in Rivals /\ <<pair[2], pair[1]>> \in Rivals
  BY RivalPair, RivalsBothWays
<1>1. ASSUME Settled(pair[1]) \/ Settled(pair[2])
      PROVE  Settled(pair[1])' \/ Settled(pair[2])'
  BY <1>0, <1>1, SettledStays
<1>2. ASSUME NEW o \in Op, Begin(o)
      PROVE  Settled(pair[1])' \/ Settled(pair[2])'
  <2>1. lease[Key(o)] = o /\ begun' = begun \union {o}
    BY <1>2 DEF Begin, Fenced
  <2>2. CASE o = pair[1] /\ pair[2] \in begun
    BY <1>0, <1>1, <2>1, <2>2 DEF Quarantined
  <2>3. CASE o = pair[2] /\ pair[1] \in begun
    BY <1>0, <1>1, <2>1, <2>3 DEF Quarantined
  <2>4. CASE pair[1] \in begun /\ pair[2] \in begun
    BY <1>1, <2>4 DEF Quarantine
  <2>5. QED
    BY <1>0, <2>1, <2>2, <2>3, <2>4
<1>3. CASE UNCHANGED begun
  BY <1>1, <1>3 DEF Quarantine
<1>4. QED
  BY <1>2, <1>3
     DEF Next, Submit, Work, Operator, vars, Reserve, Resubmit, Leave, AdmitRunning, AdmitRead,
         AdmitCommit, Hear, Deny, GiveUp, RecordRead, RecordRefused, RecordCommit, ReleaseRead,
         ReleaseRefused, ReleaseCommit, Lock, Refuse, Abandon, Dispatch, Return, LateCheck,
         LateRead, LateCommit, End, UpdateRead, UpdateCommit, DropRead, DropCommit, RunRead,
         RunCommit, ReconcileRead, ReconcileCommit, Expire, Crash

(***************************************************************************)
(* What the quarantine rests on: marks are never lost, and the lease of a  *)
(* machine never passes over an unsettled effect.                          *)
(***************************************************************************)
Safe == Current /\ Marked /\ Quarantined

LEMMA SafeAlways == ASSUME OneScope PROVE Spec => []Safe
<1>1. Init => Marked /\ Quarantined
  BY DEF Init, Marked, MarkedAt, Early, Quarantined
<1>2. Current /\ Marked /\ Quarantined /\ [Next]_vars => Marked' /\ Quarantined'
  BY MarkedStep, QuarantinedStep
<1>3. QED
  BY <1>1, <1>2, CurrentAlways, PTL DEF Spec, Safe

(***************************************************************************)
(* Under one lock two effects that exclude each other never have an        *)
(* unknown outcome together, for any number of machines and processes.     *)
(***************************************************************************)
THEOREM QuarantineHolds == ASSUME OneScope PROVE Spec => []Quarantine
<1>1. Init => Quarantine
  BY DEF Init, Quarantine
<1>2. Safe /\ Quarantine /\ [Next]_vars => Quarantine'
  BY QuarantineStep DEF Safe
<1>3. QED
  BY <1>1, <1>2, SafeAlways, PTL DEF Spec
-----------------------------------------------------------------------------
(***************************************************************************)
(* Answers.                                                                *)
(***************************************************************************)

\* The result that RecordCommit writes is the one submit will tell.
LEMMA RecordWrites ==
  ASSUME Current, NEW o \in Op, RecordCommit(o)
  PROVE  op'[o].state = res[o]
<1>1. home[o] \in Process
  BY DEF RecordCommit, Current, Typed, HomeKnown
<1>2. op'[o].state = call[ScopeOf[home[o]]].to
  BY <1>1, WriteMoves DEF RecordCommit, Current, Writes
<1>3. call[ScopeOf[home[o]]].to = res[o]
  BY <1>1 DEF RecordCommit, Committing, Current, ReadIsCurrent, CurrentCall
<1>4. QED
  BY <1>2, <1>3

LEMMA RecordedStep ==
  ASSUME Current, Recorded, [Next]_vars
  PROVE  Recorded'
<1> USE DEF Current
<1> SUFFICES ASSUME NEW o \in Op, waiter'[o] = "releasing", res'[o] \in Terminal
             PROVE  op'[o].state = res'[o]
  BY DEF Recorded
<1>1. ASSUME waiter[o] = "releasing", res'[o] = res[o]
      PROVE  op'[o].state = res'[o]
  <2>1. op[o].state = res[o] /\ Settled(o)
    BY <1>1 DEF Recorded, Settled
  <2>2. QED
    BY <1>1, <2>1, SettledStays
<1>2. ASSUME NEW q \in Op, RecordCommit(q)
      PROVE  op'[o].state = res'[o]
  <2>1. CASE o = q
    BY <1>2, <2>1, RecordWrites DEF RecordCommit
  <2>2. CASE o # q
    BY <1>1, <1>2, <2>2 DEF RecordCommit, Tell, Typed, TypeOK
  <2>3. QED
    BY <2>1, <2>2
<1>3. CASE UNCHANGED <<waiter, res>>
  BY <1>1, <1>3
<1>4. ASSUME NEW q \in Op, Hear(q) \/ Deny(q) \/ GiveUp(q)
      PROVE  op'[o].state = res'[o]
  BY <1>1, <1>4 DEF Hear, Deny, GiveUp, Typed, TypeOK
<1>5. ASSUME NEW q \in Op, Return(q)
      PROVE  op'[o].state = res'[o]
  BY <1>1, <1>5 DEF Return, Typed, TypeOK
<1>6. ASSUME NEW q \in Op,
             Leave(q) \/ AdmitRunning(q) \/ AdmitCommit(q) \/ RecordRefused(q)
      PROVE  op'[o].state = res'[o]
  BY <1>1, <1>6 DEF Leave, AdmitRunning, AdmitCommit, Pass, RecordRefused, Typed, TypeOK
<1>7. ASSUME NEW q \in Op, ReleaseRefused(q) \/ ReleaseCommit(q)
      PROVE  op'[o].state = res'[o]
  BY <1>1, <1>7 DEF ReleaseRefused, ReleaseCommit, Tell, Typed, TypeOK
<1>8. ASSUME NEW p \in Process, NEW q \in Op, Reserve(p, q)
      PROVE  op'[o].state = res'[o]
  BY <1>1, <1>8 DEF Reserve, Typed, TypeOK
<1>9. ASSUME NEW p \in Process, Crash(p)
      PROVE  op'[o].state = res'[o]
  BY <1>1, <1>9 DEF Crash, Typed, TypeOK
<1>10. QED
  BY <1>2, <1>3, <1>4, <1>5, <1>6, <1>7, <1>8, <1>9
     DEF Next, Submit, Work, Operator, vars, Resubmit, AdmitRead, RecordRead, ReleaseRead,
         Lock, Refuse, Begin, Abandon, Dispatch, LateCheck, LateRead, LateCommit, End,
         UpdateRead, UpdateCommit, DropRead, DropCommit, RunRead, RunCommit, ReconcileRead,
         ReconcileCommit, Expire

LEMMA AnswerStep ==
  ASSUME Current, Recorded, AnswerIsDurable, [Next]_vars
  PROVE  AnswerIsDurable'
<1> USE DEF Current
<1> SUFFICES ASSUME NEW o \in Op, NEW r \in answer'[o]
             PROVE  op'[o].state = r
  BY DEF AnswerIsDurable
<1>1. ASSUME op[o].state = r, r \in Terminal
      PROVE  op'[o].state = r
  BY <1>1, SettledStays DEF Settled
<1>2. ASSUME r \in answer[o]
      PROVE  op'[o].state = r
  BY <1>1, <1>2 DEF AnswerIsDurable, Typed, TypeOK
<1>3. CASE UNCHANGED answer
  BY <1>2, <1>3
<1>4. ASSUME NEW p \in Process, NEW q \in Op, Resubmit(p, q)
      PROVE  op'[o].state = r
  BY <1>1, <1>2, <1>4 DEF Resubmit, Typed, TypeOK
<1>5. ASSUME NEW q \in Op, RecordCommit(q)
      PROVE  op'[o].state = r
  BY <1>2, <1>5, RecordWrites DEF RecordCommit, Tell, Typed, TypeOK
<1>6. ASSUME NEW q \in Op, ReleaseRefused(q) \/ ReleaseCommit(q)
      PROVE  op'[o].state = r
  BY <1>1, <1>2, <1>6 DEF ReleaseRefused, ReleaseCommit, Tell, Recorded, Typed, TypeOK
<1>7. QED
  BY <1>3, <1>4, <1>5, <1>6
     DEF Next, Submit, Work, Operator, vars, Reserve, Leave, AdmitRunning, AdmitRead,
         AdmitCommit, Hear, Deny, GiveUp, RecordRead, RecordRefused, ReleaseRead, Lock, Refuse,
         Begin, Abandon, Dispatch, Return, LateCheck, LateRead, LateCommit, End, UpdateRead,
         UpdateCommit, DropRead, DropCommit, RunRead, RunCommit, ReconcileRead,
         ReconcileCommit, Expire, Crash

(***************************************************************************)
(* Under one lock a submitter that is told how an operation ended is told  *)
(* what the record says, then and ever after.                              *)
(***************************************************************************)
THEOREM AnswersHold == ASSUME OneScope PROVE Spec => []AnswerIsDurable
<1>1. Init => Recorded /\ AnswerIsDurable
  BY DEF Init, Recorded, AnswerIsDurable
<1>2. Current /\ Recorded /\ AnswerIsDurable /\ [Next]_vars => Recorded' /\ AnswerIsDurable'
  BY RecordedStep, AnswerStep
<1>3. QED
  BY <1>1, <1>2, CurrentAlways, PTL DEF Spec

-----------------------------------------------------------------------------
(***************************************************************************)
(* Refinement of ExclusiveEffect.                                          *)
(***************************************************************************)

Phase == [o \in Op |-> IF op[o].state = "ABSENT" THEN "new"
                       ELSE IF Settled(o) THEN "settled" ELSE "open"]
SentOps == {o \in Op : sent[o] > 0}

\* The abstract guard: no rival of o has an effect of unknown outcome.
ClearOf(o) == \A q \in begun : <<q, o>> \in Rivals => Phase[q] # "open"

LEMMA PhaseAt ==
  ASSUME NEW o \in Op
  PROVE  /\ Phase[o] = "new" <=> op[o].state = "ABSENT"
         /\ Phase[o] = "settled" <=> Settled(o)
         /\ Phase[o] = "open" <=> op[o].state # "ABSENT" /\ ~Settled(o)
  BY DEF Phase, Settled, Terminal

LEMMA RefinesInit == Init => Exclusive!Init
<1> SUFFICES ASSUME Init
             PROVE  Exclusive!Init
  OBVIOUS
<1>1. \A o \in Op : op[o].state = "ABSENT" /\ sent[o] = 0
  BY DEF Init
<1>2. QED
  BY <1>1 DEF Init, Exclusive!Init
\* Rows that keep their phase do not show.
LEMMA SamePhase ==
  ASSUME \A o \in Op : Phase'[o] = Phase[o]
  PROVE  Phase' = Phase
  BY DEF Phase

LEMMA SameShown ==
  ASSUME Phase' = Phase, UNCHANGED <<begun, sent>>
  PROVE  UNCHANGED Exclusive!vars
  BY DEF Exclusive!vars, Phase

LEMMA PhaseAtNext ==
  ASSUME NEW o \in Op
  PROVE  /\ Phase'[o] = "new" <=> op'[o].state = "ABSENT"
         /\ Phase'[o] = "settled" <=> Settled(o)'
         /\ Phase'[o] = "open" <=> op'[o].state # "ABSENT" /\ ~Settled(o)'
  BY DEF Phase, Settled, Terminal

LEMMA RefinesAdmit ==
  ASSUME Safe, NEW p \in Process, NEW o \in Op, Reserve(p, o)
  PROVE  Exclusive!Admit(o)
<1> USE DEF Safe, Current
<1>1. op[o].state = "ABSENT" /\ op'[o].state = "STARTING" /\ \A q \in Op \ {o} : op'[q] = op[q]
  BY DEF Reserve, ReservedState, Typed, TypeOK, Row
<1>2. Phase[o] = "new"
  BY <1>1, PhaseAt
<1>3. ASSUME NEW q \in begun, <<q, o>> \in Rivals
      PROVE  Phase[q] # "open"
  <2>1. q \in Op
    BY DEF Typed, TypeOK
  <2>2. Settled(q)
    BY <1>3, <2>1, ReserveClear DEF Reserve
  <2>3. QED
    BY <2>1, <2>2, PhaseAt
<1>4. Phase' = [Phase EXCEPT ![o] = "open"]
  BY <1>1 DEF Phase, Settled, Terminal
<1>5. UNCHANGED <<begun, sent>>
  BY DEF Reserve
<1>6. QED
  BY <1>2, <1>3, <1>4, <1>5 DEF Exclusive!Admit, Exclusive!Clear, Phase

LEMMA RefinesBegin ==
  ASSUME Safe, NEW o \in Op, Begin(o)
  PROVE  Exclusive!Begin(o)
<1> USE DEF Safe, Current
<1>1. op[o].state = "RUNNING" /\ \A q \in Op : op'[q].state = op[q].state
  BY DEF Begin, Typed, TypeOK, Row
<1>2. Phase[o] = "open"
  BY <1>1, PhaseAt DEF Settled, Terminal
<1>3. Phase' = Phase
  BY <1>1 DEF Phase, Settled
<1>4. o \notin begun
  BY DEF Begin, Marked, MarkedAt, Early
<1>5. ASSUME NEW q \in begun, <<q, o>> \in Rivals
      PROVE  Phase[q] # "open"
  <2>1. q \in Op /\ Key(q) = Key(o)
    BY <1>5, RivalsBothWays DEF Typed, TypeOK
  <2>2. lease[Key(q)] = o
    BY <2>1 DEF Begin, Fenced
  <2>3. Settled(q)
    BY <1>5, <2>2 DEF Quarantined
  <2>4. QED
    BY <2>1, <2>3, PhaseAt
<1>6. begun' = begun \union {o} /\ UNCHANGED sent
  BY DEF Begin
<1>7. QED
  BY <1>2, <1>3, <1>4, <1>5, <1>6 DEF Exclusive!Begin, Exclusive!Clear, Phase

LEMMA RefinesSend ==
  ASSUME Safe, NEW o \in Op, Dispatch(o)
  PROVE  Exclusive!Send(o)
<1> USE DEF Safe, Current
<1>1. o \in begun /\ sent[o] = 0
  BY DEF Dispatch, Marked, MarkedAt, Once, Unsent
<1>2. SentOps' = SentOps \union {o}
  BY <1>1 DEF Dispatch, SentOps, Typed, TypeOK
<1>3. Phase' = Phase /\ begun' = begun
  BY DEF Dispatch, Phase, Settled
<1>4. o \notin SentOps
  BY <1>1 DEF SentOps
<1>5. QED
  BY <1>1, <1>2, <1>3, <1>4 DEF Exclusive!Send, SentOps, Phase

\* A call that writes a row settles its operation or does not show.
LEMMA RefinesWrite ==
  ASSUME Safe, [Next]_vars, NEW p \in Process, NEW o \in Op, NEW kind \in Writes,
         Committing(p, kind, o), WriteRow(p, o), UNCHANGED <<begun, sent>>
  PROVE  Exclusive!Settle(o) \/ UNCHANGED Exclusive!vars
<1> USE DEF Safe, Current
<1>1. op[o].state # "ABSENT" /\ \A q \in Op \ {o} : op'[q] = op[q]
  BY WriteMoves
<1>2. op'[o].state # "ABSENT"
  BY <1>1, StaysPresent
<1>3. CASE Settled(o) \/ ~Settled(o)'
  <2>1. Settled(o) <=> Settled(o)'
    BY <1>3, SettledStays
  <2>2. \A q \in Op : Phase'[q] = Phase[q]
    BY <1>1, <1>2, <2>1 DEF Phase, Settled
  <2>3. QED
    BY <2>2, SamePhase, SameShown
<1>4. CASE ~Settled(o) /\ Settled(o)'
  <2>1. Phase[o] = "open"
    BY <1>1, <1>4, PhaseAt
  <2>2. Phase' = [Phase EXCEPT ![o] = "settled"]
    <3>1. Phase'[o] = "settled"
      BY <1>4, PhaseAtNext
    <3>2. \A q \in Op \ {o} : Phase'[q] = Phase[q]
      BY <1>1 DEF Phase, Settled
    <3>3. QED
      BY <3>1, <3>2 DEF Phase
  <2>3. QED
    BY <2>1, <2>2 DEF Exclusive!Settle, Phase
<1>5. QED
  BY <1>3, <1>4

\* Reconciliation turns open operations into open ones.
LEMMA RefinesReconcile ==
  ASSUME Safe, NEW p \in Process, ReconcileCommit(p)
  PROVE  UNCHANGED Exclusive!vars
<1> USE DEF Safe, Current
<1> DEFINE k == call[ScopeOf[p]]
<1>1. CurrentCall(k) /\ k.kind = "reconcile"
  BY DEF ReconcileCommit, Committing, ReadIsCurrent
<1>2. ASSUME NEW o \in Op
      PROVE  Phase'[o] = Phase[o]
  <2>1. CASE o \in k.hit
    <3>1. op'[o].state = "UNCERTAIN"
      BY <2>1 DEF ReconcileCommit, Typed, TypeOK, Row
    <3>2. op[o].state \notin Terminal \union {"ABSENT"}
      BY <1>1, <2>1 DEF CurrentCall
    <3>3. QED
      BY <3>1, <3>2 DEF Phase, Settled, Terminal
  <2>2. CASE o \notin k.hit
    BY <2>2 DEF ReconcileCommit, Phase, Settled
  <2>3. QED
    BY <2>1, <2>2
<1>3. UNCHANGED <<begun, sent>>
  BY DEF ReconcileCommit
<1>4. QED
  BY <1>2, <1>3, SamePhase, SameShown

LEMMA RefinesStep == Safe /\ [Next]_vars => [Exclusive!Next]_(Exclusive!vars)
<1> SUFFICES ASSUME Safe, [Next]_vars
             PROVE  Exclusive!Next \/ UNCHANGED Exclusive!vars
  OBVIOUS
<1>1. ASSUME NEW p \in Process, NEW o \in Op, Reserve(p, o)
      PROVE  Exclusive!Next
  BY <1>1, RefinesAdmit DEF Exclusive!Next
<1>2. ASSUME NEW o \in Op, Begin(o)
      PROVE  Exclusive!Next
  BY <1>2, RefinesBegin DEF Exclusive!Next
<1>3. ASSUME NEW o \in Op, Dispatch(o)
      PROVE  Exclusive!Next
  BY <1>3, RefinesSend DEF Exclusive!Next
<1>4. ASSUME NEW o \in Op, AdmitCommit(o) \/ RecordCommit(o) \/ LateCommit(o)
      PROVE  Exclusive!Next \/ UNCHANGED Exclusive!vars
  <2>1. home[o] \in Process
    BY <1>4 DEF AdmitCommit, RecordCommit, LateCommit, Asking, Safe, Current, Typed, HomeKnown
  <2>2. UNCHANGED <<begun, sent>>
    BY <1>4 DEF AdmitCommit, RecordCommit, LateCommit
  <2>3. QED
    BY <1>4, <2>1, <2>2, RefinesWrite
       DEF AdmitCommit, RecordCommit, LateCommit, Writes, Exclusive!Next
<1>5. ASSUME NEW p \in Process, NEW o \in Op, UpdateCommit(p, o)
      PROVE  Exclusive!Next \/ UNCHANGED Exclusive!vars
  <2>1. UNCHANGED <<begun, sent>>
    BY <1>5 DEF UpdateCommit
  <2>2. QED
    BY <1>5, <2>1, RefinesWrite DEF UpdateCommit, Writes, Exclusive!Next
<1>6. ASSUME NEW p \in Process, ReconcileCommit(p)
      PROVE  UNCHANGED Exclusive!vars
  BY <1>6, RefinesReconcile
<1>7. CASE UNCHANGED <<op, begun, sent>>
  <2>1. Phase' = Phase
    BY <1>7 DEF Phase, Settled
  <2>2. QED
    BY <1>7, <2>1, SameShown
<1>8. QED
  BY <1>1, <1>2, <1>3, <1>4, <1>5, <1>6, <1>7
     DEF Next, Submit, Work, Operator, vars, Resubmit, Leave, AdmitRunning, AdmitRead, Hear,
         Deny, GiveUp, RecordRead, RecordRefused, ReleaseRead, ReleaseRefused, ReleaseCommit,
         Lock, Refuse, Abandon, Return, LateCheck, LateRead, End, UpdateRead, DropRead,
         DropCommit, RunRead, RunCommit, ReconcileRead, Expire, Crash

(***************************************************************************)
(* Under one lock, submission, workers, operators and crashes implement    *)
(* the abstract exclusive effect, for any number of operations.            *)
(***************************************************************************)
THEOREM EffectImplementsExclusive == ASSUME OneScope PROVE Spec => ImplementsExclusiveEffect
<1>1. Init => Exclusive!Init
  BY RefinesInit
<1>2. Safe /\ [Next]_vars => [Exclusive!Next]_(Exclusive!vars)
  BY RefinesStep
<1>3. QED
  BY <1>1, <1>2, SafeAlways, PTL DEF Spec, Exclusive!Spec, ImplementsExclusiveEffect
=============================================================================
