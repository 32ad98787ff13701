------------------------- MODULE DurableLeaseProofs -------------------------
(***************************************************************************)
(* Theorems about DurableLease.  Types are right whatever the locks; the   *)
(* fencing properties hold whenever all calls run under one lock.          *)
(***************************************************************************)
EXTENDS DurableLease, TLAPS

\* Every bound call carries natural numbers and a resource.
LEMMA CallFields ==
  ASSUME TypeOK, NEW c \in Client, call[c] # Idle
  PROVE  /\ call[c] \in Call
         /\ call[c].res \in Resource
         /\ call[c].at \in Nat
         /\ call[c].token \in Nat
         /\ call[c].fence \in Nat
         /\ call[c].row \in Row \union {NoLease}
  BY DEF TypeOK, Call

\* Read changes the stage and the two rows of a call and nothing else.
LEMMA ReadFields ==
  ASSUME NEW c \in Client, call[c] \in Call
  PROVE  /\ Read(c).stage = "locked" /\ Read(c).row = lease[call[c].res]
         /\ Read(c).fence = fence[call[c].res]
         /\ Read(c).res = call[c].res /\ Read(c).kind = call[c].kind
         /\ Read(c).at = call[c].at /\ Read(c).token = call[c].token
<1>1. ASSUME NEW k \in Call, NEW row, NEW n
      PROVE  LET m == [k EXCEPT !.stage = "locked", !.row = row, !.fence = n] IN
             /\ m.stage = "locked" /\ m.row = row /\ m.fence = n
             /\ m.res = k.res /\ m.kind = k.kind /\ m.at = k.at /\ m.token = k.token
  BY DEF Call
<1>2. QED
  BY <1>1 DEF Read

\* A token that follows the two rows is larger than both.
LEMMA NextTokenIsNew ==
  ASSUME NEW k \in Call
  PROVE  /\ NextToken(k) \in Nat
         /\ NextToken(k) > k.fence
         /\ k.row # NoLease => NextToken(k) > k.row.token
  BY DEF NextToken, Call, Row

\* Every action preserves the types.
LEMMA TypeStep == TypeOK /\ [Next]_vars => TypeOK'
<1> SUFFICES ASSUME TypeOK, [Next]_vars
             PROVE  TypeOK'
  OBVIOUS
<1>1. CASE Tick
  BY <1>1 DEF Tick, TypeOK
<1>2. ASSUME NEW c \in Client, NEW kind \in Kind, NEW r \in Resource, Enter(c, kind, r)
      PROVE  TypeOK'
  <2>1. [stage |-> "entered", kind |-> kind, res |-> r, at |-> now,
         token |-> held[c][r], row |-> NoLease, fence |-> 0] \in Call
    BY DEF TypeOK, Call
  <2>2. QED
    BY <1>2, <2>1 DEF Enter, TypeOK
<1>3. ASSUME NEW c \in Client, Begin(c)
      PROVE  TypeOK'
  <2>1. call[c] # Idle
    BY <1>3 DEF Begin, InCall
  <2>2. Read(c) \in Call
    BY <2>1, CallFields DEF Read, Call, TypeOK
  <2>3. QED
    BY <1>3, <2>2 DEF Begin, TypeOK
<1>4. ASSUME NEW c \in Client, Return(c)
      PROVE  TypeOK'
  <2> DEFINE k == call[c]
             row == lease[k.res]
             replay == k.kind = "acquire" /\ row.client = c
             token == IF replay THEN row.token
                      ELSE IF k.kind = "release" /\ row = NoLease THEN 0
                      ELSE held[c][k.res]
  <2>1. k # Idle /\ k.res \in Resource /\ ~Accepts(c, row)
    BY <1>4, CallFields DEF Return, InCall
  <2>2. replay => row \in Row
    BY <2>1 DEF Accepts, Live, TypeOK
  <2>3. token \in Nat
    BY <2>1, <2>2 DEF TypeOK, Row
  <2>4. held' = [held EXCEPT ![c][k.res] = token]
    BY <1>4 DEF Return
  <2>5. held' \in [Client -> [Resource -> Nat]]
    BY <2>1, <2>3, <2>4 DEF TypeOK
  <2>6. QED
    BY <1>4, <2>5 DEF Return, TypeOK
<1>5. ASSUME NEW c \in Client, CommitAcquire(c)
      PROVE  TypeOK'
  <2> DEFINE k == call[c]
  <2>1. k \in Call /\ k.res \in Resource /\ k.at \in Nat
    BY <1>5, CallFields DEF CommitAcquire, InCall
  <2>2. NextToken(k) \in Nat
    BY <2>1, NextTokenIsNew
  <2>3. [client |-> c, token |-> NextToken(k), until |-> k.at + TTL] \in Row
    BY <2>1, <2>2, LeaseAssumption DEF Row
  <2>4. QED
    BY <1>5, <2>1, <2>2, <2>3 DEF CommitAcquire, TypeOK
<1>6. ASSUME NEW c \in Client, CommitRenew(c)
      PROVE  TypeOK'
  <2> DEFINE r == call[c].res
  <2>1. r \in Resource /\ call[c].at \in Nat
    BY <1>6, CallFields DEF CommitRenew, InCall
  <2>2. ASSUME NEW row \in Row, NEW t \in Nat
        PROVE  [row EXCEPT !.until = t] \in Row
    BY DEF Row
  <2>3. call[c].at + TTL \in Nat
    BY <2>1, LeaseAssumption
  <2>4. lease[r] # NoLease => [lease[r] EXCEPT !.until = call[c].at + TTL] \in Row
    BY <2>1, <2>2, <2>3 DEF TypeOK
  <2>5. lease' \in [Resource -> Row \union {NoLease}]
    BY <1>6, <2>1, <2>4 DEF CommitRenew, TypeOK
  <2>6. QED
    BY <1>6, <2>5 DEF CommitRenew, TypeOK
<1>7. ASSUME NEW c \in Client, CommitRelease(c)
      PROVE  TypeOK'
  BY <1>7, CallFields DEF CommitRelease, InCall, TypeOK
<1>8. ASSUME NEW c \in Client, CommitUpdate(c)
      PROVE  TypeOK'
  BY <1>8, CallFields DEF CommitUpdate, InCall, TypeOK
<1>9. ASSUME NEW c \in Client, Crash(c)
      PROVE  TypeOK'
  BY <1>9 DEF Crash, TypeOK
<1>10. CASE UNCHANGED vars
  BY <1>10 DEF vars, TypeOK
<1>11. QED
  BY <1>1, <1>2, <1>3, <1>4, <1>5, <1>6, <1>7, <1>8, <1>9, <1>10 DEF Next, Step

(***************************************************************************)
(* The tables, the clock, the tokens clients keep and the calls have the   *)
(* shape TypeOK gives them, for every lock assignment.                     *)
(***************************************************************************)
THEOREM TypeCorrect == Spec => []TypeOK
<1>1. Init => TypeOK
  BY DEF Init, TypeOK
<1>2. TypeOK /\ [Next]_vars => TypeOK'
  BY TypeStep
<1>3. QED
  BY <1>1, <1>2, PTL DEF Spec

-----------------------------------------------------------------------------
(***************************************************************************)
(* The inductive invariant under one lock.                                 *)
(***************************************************************************)
Locked(c) == InCall(c, "locked")

\* The lock has one holder.
OneLocked == \A c, d \in Client : Locked(c) /\ Locked(d) => c = d

\* What the lock holder read is still in the tables, and was acceptable.
ReadIsCurrent ==
  \A c \in Client : Locked(c) =>
    LET k == call[c] IN
    /\ k.row = lease[k.res]
    /\ k.fence = fence[k.res]
    /\ k.kind = "acquire" => ~Live(k.row, k.at)
    /\ k.kind # "acquire" => k.row # NoLease /\ k.row.token = k.token

\* A call read the clock in the past.
PastClock == \A c \in Client : call[c] # Idle => call[c].at <= now

\* The lease row carries the last token, and nothing committed or granted is
\* above it.
RowIsNewest == \A r \in Resource : lease[r] # NoLease => lease[r].token = fence[r]
WroteBelow == \A r \in Resource : wrote[r] <= fence[r]
GrantsBelow == \A g \in grants : g[2] <= fence[g[1]]

IInv == /\ TypeOK /\ OneLocked /\ ReadIsCurrent /\ PastClock
        /\ RowIsNewest /\ WroteBelow /\ GrantsBelow /\ TokensUnique

\* With the lock held by c nobody else is past its read.
LEMMA Alone ==
  ASSUME OneScope, NEW c \in Client, LockFree(c)
  PROVE  \A d \in Client : ~Locked(d)
  BY DEF OneScope, LockFree, Locked

\* A call is over: c is outside any call and the others are where they were.
CallEnds(c) == call' = [call EXCEPT ![c] = Idle]
NobodyLocked == \A d \in Client : ~Locked(d)

\* When the lock holder's call ends, the lock is free.
LEMMA LastLeaves ==
  ASSUME TypeOK, OneLocked, NEW c \in Client, Locked(c), CallEnds(c)
  PROVE  NobodyLocked'
<1>1. \A d \in Client : d # c => call'[d] = call[d] /\ ~Locked(d)
  BY DEF TypeOK, OneLocked, CallEnds
<1>2. call'[c] = Idle
  BY DEF TypeOK, CallEnds
<1>3. QED
  BY <1>1, <1>2 DEF NobodyLocked, Locked, InCall

\* A call that ends without writing keeps the invariant.
LEMMA EndOfCall ==
  ASSUME IInv, TypeOK', NEW c \in Client, CallEnds(c), UNCHANGED <<lease, fence, now, wrote, grants>>
  PROVE  IInv'
<1>1. TypeOK
  BY DEF IInv
<1>2. \A d \in Client : d # c => call'[d] = call[d]
  BY <1>1 DEF TypeOK, CallEnds
<1>3. call'[c] = Idle
  BY <1>1 DEF TypeOK, CallEnds
<1>4. \A d \in Client : Locked(d)' => Locked(d) /\ call'[d] = call[d]
  BY <1>2, <1>3 DEF Locked, InCall
<1>5. PastClock'
  BY <1>2, <1>3 DEF IInv, PastClock
<1>6. QED
  BY <1>4, <1>5 DEF IInv, OneLocked, ReadIsCurrent, RowIsNewest,
     WroteBelow, GrantsBelow, TokensUnique, Live

LEMMA IInvInit == Init => IInv
  <1> SUFFICES ASSUME Init PROVE IInv
    OBVIOUS
  <1>1. TypeOK
    BY DEF Init, TypeOK
  <1>2. QED
    BY <1>1 DEF Init, IInv, OneLocked, ReadIsCurrent, PastClock, RowIsNewest, WroteBelow,
       GrantsBelow, TokensUnique, Locked, InCall

LEMMA IInvStep ==
  ASSUME OneScope
  PROVE  IInv /\ [Next]_vars => IInv'
<1> SUFFICES ASSUME IInv, [Next]_vars
             PROVE  IInv'
  OBVIOUS
<1>0. TypeOK /\ TypeOK'
  BY TypeStep DEF IInv
<1>1. CASE Tick
  <2>1. now \in Nat /\ now' = now + 1
    BY <1>0, <1>1 DEF Tick, TypeOK
  <2>2. PastClock'
    BY <1>0, <1>1, <2>1, CallFields DEF IInv, PastClock, Tick
  <2>3. QED
    BY <1>0, <1>1, <2>2 DEF Tick, IInv, OneLocked, ReadIsCurrent, RowIsNewest, WroteBelow,
       GrantsBelow, TokensUnique, Locked, InCall, Live
<1>2. ASSUME NEW c \in Client, NEW kind \in Kind, NEW r \in Resource, Enter(c, kind, r)
      PROVE  IInv'
  <2>1. UNCHANGED <<lease, fence, now, wrote, grants>>
    BY <1>2 DEF Enter
  <2>2. \A d \in Client : d # c => call'[d] = call[d]
    BY <1>0, <1>2 DEF Enter, TypeOK
  <2>3. ~Locked(c)' /\ (call'[c] # Idle => call'[c].at = now)
    BY <1>0, <1>2 DEF Enter, TypeOK, Locked, InCall
  <2>4. \A d \in Client : Locked(d)' => Locked(d) /\ call'[d] = call[d]
    BY <2>2, <2>3 DEF Locked, InCall
  <2>5. PastClock'
    BY <1>0, <2>1, <2>2, <2>3 DEF IInv, PastClock, TypeOK
  <2>6. QED
    BY <1>0, <2>1, <2>4, <2>5 DEF IInv, OneLocked, ReadIsCurrent, RowIsNewest,
       WroteBelow, GrantsBelow, TokensUnique
<1>3. ASSUME NEW c \in Client, Begin(c)
      PROVE  IInv'
  <2>1. UNCHANGED <<lease, fence, now, wrote, grants>>
    BY <1>3 DEF Begin
  <2>2. \A d \in Client : ~Locked(d)
    BY <1>3, Alone DEF Begin
  <2>3. /\ call[c] # Idle
        /\ call' = [call EXCEPT ![c] = Read(c)]
        /\ Accepts(c, lease[call[c].res])
    BY <1>3 DEF Begin, InCall
  <2>4. \A d \in Client : d # c => call'[d] = call[d]
    BY <1>0, <2>3 DEF TypeOK
  <2>5. call'[c] = Read(c)
    BY <1>0, <2>3 DEF TypeOK
  <2>6. \A d \in Client : Locked(d)' => d = c
    BY <2>2, <2>4 DEF Locked, InCall
  <2>7. /\ call'[c].row = lease[call[c].res] /\ call'[c].fence = fence[call[c].res]
        /\ call'[c].res = call[c].res /\ call'[c].kind = call[c].kind
        /\ call'[c].at = call[c].at /\ call'[c].token = call[c].token
    BY <1>0, <2>3, <2>5, CallFields, ReadFields
  <2>8. call[c].kind \in Kind
    BY <1>0, <2>3, CallFields DEF Call
  <2>9. /\ call[c].kind = "acquire" => ~Live(lease[call[c].res], call[c].at)
        /\ call[c].kind # "acquire" => /\ lease[call[c].res] # NoLease
                                       /\ lease[call[c].res].token = call[c].token
    BY <2>3, <2>8 DEF Accepts, Presents, Live, Kind
  <2>10. ReadIsCurrent'
    BY <2>1, <2>6, <2>7, <2>9 DEF ReadIsCurrent, Live
  <2>11. PastClock'
    BY <2>1, <2>3, <2>4, <2>7 DEF IInv, PastClock
  <2>12. QED
    BY <1>0, <2>1, <2>6, <2>10, <2>11 DEF IInv, OneLocked, RowIsNewest, WroteBelow,
       GrantsBelow, TokensUnique
<1>4. ASSUME NEW c \in Client, Return(c)
      PROVE  IInv'
  BY <1>0, <1>4, EndOfCall DEF Return, CallEnds
<1>5. ASSUME NEW c \in Client, CommitAcquire(c)
      PROVE  IInv'
  <2> DEFINE k == call[c]
             t == NextToken(k)
  <2>1. Locked(c) /\ k \in Call /\ k.res \in Resource /\ k.row = lease[k.res] /\ k.fence = fence[k.res]
    BY <1>0, <1>5, CallFields DEF CommitAcquire, IInv, ReadIsCurrent, Locked, InCall
  <2>2. t \in Nat /\ t > fence[k.res]
    BY <2>1, NextTokenIsNew
  <2>3. CallEnds(c)
    BY <1>5 DEF CommitAcquire, CallEnds
  <2>4. NobodyLocked'
    BY <1>0, <2>1, <2>3, LastLeaves DEF IInv
  <2>5. /\ fence' = [fence EXCEPT ![k.res] = t]
        /\ lease' = [lease EXCEPT ![k.res] = [client |-> c, token |-> t, until |-> k.at + TTL]]
        /\ grants' = grants \union {<<k.res, t, c>>}
        /\ UNCHANGED <<now, wrote>>
    BY <1>5 DEF CommitAcquire
  <2>6. \A r \in Resource : fence'[r] >= fence[r] /\ fence[r] \in Nat /\ fence'[r] \in Nat
    BY <1>0, <2>2, <2>5 DEF TypeOK
  <2>7. RowIsNewest'
    BY <1>0, <2>1, <2>5 DEF IInv, RowIsNewest, TypeOK
  <2>8. WroteBelow'
    <3>1. \A r \in Resource : wrote[r] \in Nat /\ wrote[r] <= fence[r] /\ wrote'[r] = wrote[r]
      BY <1>0, <2>5 DEF IInv, WroteBelow, TypeOK
    <3>2. QED
      BY <2>6, <3>1 DEF WroteBelow
  <2>9. GrantsBelow'
    <3>1. \A g \in grants : g[1] \in Resource /\ g[2] \in Nat /\ g[2] <= fence[g[1]]
      BY <1>0 DEF IInv, GrantsBelow, TypeOK
    <3>2. \A g \in grants : g[2] <= fence'[g[1]]
      BY <2>6, <3>1
    <3>3. fence'[k.res] = t
      BY <1>0, <2>1, <2>5 DEF TypeOK
    <3>4. QED
      BY <2>2, <2>5, <3>2, <3>3 DEF GrantsBelow
  <2>10. TokensUnique'
    <3>1. \A g \in grants : g[1] = k.res => g[2] < t
      BY <1>0, <2>2 DEF IInv, GrantsBelow, TypeOK
    <3>2. \A g \in grants : ~(g[1] = k.res /\ g[2] = t)
      BY <1>0, <2>2, <3>1 DEF TypeOK
    <3>3. QED
      BY <2>5, <3>2 DEF IInv, TokensUnique
  <2>11. PastClock'
    BY <1>0, <2>3, <2>5 DEF IInv, PastClock, CallEnds, TypeOK
  <2>12. QED
    BY <1>0, <2>4, <2>7, <2>8, <2>9, <2>10, <2>11
       DEF IInv, OneLocked, ReadIsCurrent, NobodyLocked
<1>6. ASSUME NEW c \in Client, CommitRenew(c)
      PROVE  IInv'
  <2> DEFINE k == call[c]
  <2>1. Locked(c) /\ k.res \in Resource
    BY <1>0, <1>6, CallFields DEF CommitRenew, Locked, InCall
  <2>2. CallEnds(c) /\ UNCHANGED <<fence, now, wrote, grants>>
    BY <1>6 DEF CommitRenew, CallEnds
  <2>3. NobodyLocked'
    BY <1>0, <2>1, <2>2, LastLeaves DEF IInv
  <2>4. \A r \in Resource : lease'[r] # NoLease => lease[r] # NoLease /\ lease'[r].token = lease[r].token
    <3>1. CASE lease[k.res] = NoLease
      BY <1>6, <3>1 DEF CommitRenew
    <3>2. CASE lease[k.res] # NoLease
      <4>1. lease[k.res] \in Row
        BY <1>0, <2>1, <3>2 DEF TypeOK
      <4>2. lease' = [lease EXCEPT ![k.res].until = k.at + TTL]
        BY <1>6, <3>2 DEF CommitRenew
      <4>3. QED
        BY <1>0, <2>1, <3>2, <4>1, <4>2 DEF TypeOK, Row
    <3>3. QED
      BY <3>1, <3>2
  <2>5. RowIsNewest'
    BY <2>2, <2>4 DEF IInv, RowIsNewest
  <2>6. PastClock'
    BY <1>0, <2>2 DEF IInv, PastClock, CallEnds, TypeOK
  <2>7. QED
    BY <1>0, <2>2, <2>3, <2>5, <2>6 DEF IInv, OneLocked, ReadIsCurrent, NobodyLocked,
       WroteBelow, GrantsBelow, TokensUnique
<1>7. ASSUME NEW c \in Client, CommitRelease(c)
      PROVE  IInv'
  <2> DEFINE k == call[c]
  <2>1. Locked(c) /\ k.res \in Resource
    BY <1>0, <1>7, CallFields DEF CommitRelease, Locked, InCall
  <2>2. CallEnds(c) /\ UNCHANGED <<fence, now, wrote, grants>>
    BY <1>7 DEF CommitRelease, CallEnds
  <2>3. NobodyLocked'
    BY <1>0, <2>1, <2>2, LastLeaves DEF IInv
  <2>4. RowIsNewest'
    BY <1>0, <1>7, <2>1 DEF CommitRelease, IInv, RowIsNewest, TypeOK
  <2>5. PastClock'
    BY <1>0, <2>2 DEF IInv, PastClock, CallEnds, TypeOK
  <2>6. QED
    BY <1>0, <2>2, <2>3, <2>4, <2>5 DEF IInv, OneLocked, ReadIsCurrent, NobodyLocked,
       WroteBelow, GrantsBelow, TokensUnique
<1>8. ASSUME NEW c \in Client, CommitUpdate(c)
      PROVE  IInv'
  <2> DEFINE k == call[c]
  <2>1. Locked(c) /\ k.res \in Resource /\ k.kind = "update"
    BY <1>0, <1>8, CallFields DEF CommitUpdate, Locked, InCall
  <2>2. CallEnds(c) /\ UNCHANGED <<lease, fence, now, grants>> /\ wrote' = [wrote EXCEPT ![k.res] = k.token]
    BY <1>8 DEF CommitUpdate, CallEnds
  <2>3. NobodyLocked'
    BY <1>0, <2>1, <2>2, LastLeaves DEF IInv
  <2>4. k.token = fence[k.res]
    BY <1>0, <2>1 DEF IInv, ReadIsCurrent, RowIsNewest
  <2>5. WroteBelow'
    BY <1>0, <2>1, <2>2, <2>4 DEF IInv, WroteBelow, TypeOK
  <2>6. PastClock'
    BY <1>0, <2>2 DEF IInv, PastClock, CallEnds, TypeOK
  <2>7. QED
    BY <1>0, <2>2, <2>3, <2>5, <2>6 DEF IInv, OneLocked, ReadIsCurrent, NobodyLocked,
       RowIsNewest, GrantsBelow, TokensUnique
<1>9. ASSUME NEW c \in Client, Crash(c)
      PROVE  IInv'
  BY <1>0, <1>9, EndOfCall DEF Crash, CallEnds
<1>10. CASE UNCHANGED vars
  BY <1>0, <1>10 DEF vars, IInv, OneLocked, ReadIsCurrent, PastClock, RowIsNewest, WroteBelow,
     GrantsBelow, TokensUnique, Locked, InCall, Live
<1>11. QED
  BY <1>1, <1>2, <1>3, <1>4, <1>5, <1>6, <1>7, <1>8, <1>9, <1>10 DEF Next, Step

LEMMA Invariance == ASSUME OneScope PROVE Spec => []IInv
<1>1. Init => IInv
  BY IInvInit
<1>2. IInv /\ [Next]_vars => IInv'
  BY IInvStep
<1>3. QED
  BY <1>1, <1>2, PTL DEF Spec

(***************************************************************************)
(* Under one lock no token is granted twice.                               *)
(***************************************************************************)
THEOREM TokensNeverRepeat == ASSUME OneScope PROVE Spec => []TokensUnique
<1>1. IInv => TokensUnique
  BY DEF IInv
<1>2. QED
  BY <1>1, Invariance, PTL

-----------------------------------------------------------------------------
\* What each action property says of one step.
StaleStep == \A r \in Resource : wrote'[r] >= wrote[r]
KeptStep ==
  \A r \in Resource :
    Live(lease[r], now) =>
      \/ lease'[r] # NoLease /\ lease'[r].token = lease[r].token
      \/ lease'[r] = NoLease /\ \E c \in Client :
           /\ InCall(c, "locked") /\ call[c].kind = "release"
           /\ call[c].res = r /\ call[c].token = lease[r].token

\* The update that commits carries the newest token, which bounds every earlier one.
LEMMA NoStaleCommit == IInv /\ [Next]_vars => StaleStep
<1> SUFFICES ASSUME IInv, [Next]_vars
             PROVE  StaleStep
  OBVIOUS
<1>0. TypeOK
  BY DEF IInv
<1>1. CASE UNCHANGED wrote
  BY <1>0, <1>1 DEF StaleStep, TypeOK
<1>2. ASSUME NEW c \in Client, CommitUpdate(c)
      PROVE  StaleStep
  <2> DEFINE k == call[c]
  <2>1. Locked(c) /\ k.res \in Resource /\ k.kind = "update" /\ k.token \in Nat
    BY <1>0, <1>2, CallFields DEF CommitUpdate, Locked, InCall
  <2>2. k.token = fence[k.res]
    BY <1>0, <2>1 DEF IInv, ReadIsCurrent, RowIsNewest
  <2>3. wrote' = [wrote EXCEPT ![k.res] = k.token]
    BY <1>2 DEF CommitUpdate
  <2>4. QED
    BY <1>0, <2>1, <2>2, <2>3 DEF IInv, WroteBelow, StaleStep, TypeOK
<1>3. QED
  BY <1>1, <1>2 DEF Next, Step, Tick, Enter, Begin, Return, CommitAcquire, CommitRenew,
     CommitRelease, Crash, vars

(***************************************************************************)
(* Under one lock no generation commits after a newer one has.             *)
(***************************************************************************)
THEOREM StaleNeverCommit == ASSUME OneScope PROVE Spec => StaleNeverCommits
<1>1. IInv /\ [Next]_vars => StaleStep
  BY NoStaleCommit
<1>2. Spec => [][StaleStep]_vars
  BY <1>1, Invariance, PTL DEF Spec
<1>3. QED
  BY <1>2 DEF StaleNeverCommits, StaleStep

\* acquire_lease judged the row by a clock not later than now, so a row that
\* lives now is not taken over; release_lease deletes the row whose token it read.
LEMMA NoLiveTakeover == IInv /\ [Next]_vars => KeptStep
<1> SUFFICES ASSUME IInv, [Next]_vars
             PROVE  KeptStep
  OBVIOUS
<1>0. TypeOK
  BY DEF IInv
<1>1. CASE UNCHANGED lease
  BY <1>1 DEF KeptStep, Live
<1>2. ASSUME NEW c \in Client, CommitAcquire(c)
      PROVE  KeptStep
  <2> DEFINE k == call[c]
  <2>1. Locked(c) /\ k.res \in Resource /\ k.kind = "acquire" /\ k.at \in Nat /\ k.at <= now
    BY <1>0, <1>2, CallFields DEF CommitAcquire, Locked, InCall, IInv, PastClock
  <2>2. k.row = lease[k.res] /\ ~Live(k.row, k.at)
    BY <2>1 DEF IInv, ReadIsCurrent
  <2>3. lease[k.res] # NoLease => lease[k.res].until \in Nat
    BY <1>0, <2>1 DEF TypeOK, Row
  <2>4. ~Live(lease[k.res], now)
    BY <1>0, <2>1, <2>2, <2>3 DEF Live, TypeOK
  <2>5. \A r \in Resource : r # k.res => lease'[r] = lease[r]
    BY <1>0, <1>2 DEF CommitAcquire, TypeOK
  <2>6. QED
    BY <2>4, <2>5 DEF KeptStep, Live
<1>3. ASSUME NEW c \in Client, CommitRenew(c)
      PROVE  KeptStep
  <2> DEFINE k == call[c]
  <2>1. Locked(c) /\ k.res \in Resource
    BY <1>0, <1>3, CallFields DEF CommitRenew, Locked, InCall
  <2>2. CASE lease[k.res] = NoLease
    BY <1>1, <1>3, <2>2 DEF CommitRenew
  <2>3. CASE lease[k.res] # NoLease
    <3>1. lease[k.res] \in Row
      BY <1>0, <2>1, <2>3 DEF TypeOK
    <3>2. lease' = [lease EXCEPT ![k.res].until = k.at + TTL]
      BY <1>3, <2>3 DEF CommitRenew
    <3>3. lease'[k.res] # NoLease
      <4>1. TypeOK'
        BY TypeStep, <1>0
      <4>2. lease'[k.res] = [lease[k.res] EXCEPT !.until = k.at + TTL]
        BY <1>0, <2>1, <3>2 DEF TypeOK
      <4>3. k.at + TTL \in Nat
        BY <1>0, <1>3, CallFields, LeaseAssumption DEF CommitRenew, InCall
      <4>4. lease'[k.res] \in Row
        BY <3>1, <4>2, <4>3 DEF Row
      <4>5. QED
        BY <4>4, LeaseAssumption
    <3>4. lease'[k.res].token = lease[k.res].token
      BY <1>0, <2>1, <3>1, <3>2 DEF TypeOK, Row
    <3>5. \A r \in Resource : r # k.res => lease'[r] = lease[r]
      BY <1>0, <3>2 DEF TypeOK
    <3>6. QED
      BY <3>3, <3>4, <3>5 DEF KeptStep, Live
  <2>4. QED
    BY <2>2, <2>3
<1>4. ASSUME NEW c \in Client, CommitRelease(c)
      PROVE  KeptStep
  <2> DEFINE k == call[c]
  <2>1. Locked(c) /\ InCall(c, "locked") /\ k.res \in Resource /\ k.kind = "release"
    BY <1>0, <1>4, CallFields DEF CommitRelease, Locked, InCall
  <2>2. k.token = lease[k.res].token
    BY <2>1 DEF IInv, ReadIsCurrent
  <2>3. lease' = [lease EXCEPT ![k.res] = NoLease]
    BY <1>4 DEF CommitRelease
  <2>4. QED
    BY <1>0, <2>1, <2>2, <2>3 DEF KeptStep, TypeOK, Live
<1>5. QED
  BY <1>1, <1>2, <1>3, <1>4 DEF Next, Step, Tick, Enter, Begin, Return, CommitUpdate, Crash, vars

(***************************************************************************)
(* Under one lock a live lease is kept until its holder releases it.       *)
(***************************************************************************)
THEOREM LiveLeaseKept == ASSUME OneScope PROVE Spec => LiveLeaseIsKept
<1>1. IInv /\ [Next]_vars => KeptStep
  BY NoLiveTakeover
<1>2. Spec => [][KeptStep]_vars
  BY <1>1, Invariance, PTL DEF Spec
<1>3. QED
  BY <1>2 DEF LiveLeaseIsKept, KeptStep

-----------------------------------------------------------------------------
(***************************************************************************)
(* Refinement.  The abstract holder and lapse of a resource are functions  *)
(* of its row and of the clock.                                            *)
(***************************************************************************)
Holder == [r \in Resource |-> IF lease[r] = NoLease THEN NoClient ELSE lease[r].client]
Lapsed == [r \in Resource |-> lease[r] # NoLease /\ ~Live(lease[r], now)]

\* A held resource has a row, and the abstract values of a row stay put while
\* the row and the clock do.
LEMMA HolderOfRow ==
  ASSUME TypeOK, NEW r \in Resource
  PROVE  (Holder[r] # NoClient) <=> lease[r] # NoLease
  BY LeaseAssumption DEF TypeOK, Row, Holder

LEMMA RefinesInit == Init => Fenced!Init
  BY DEF Init, Fenced!Init, Live

\* CommitAcquire grants: the row it replaces is absent or has lapsed by now.
LEMMA RefinesGrant ==
  ASSUME IInv, NEW c \in Client, CommitAcquire(c)
  PROVE  \E r \in Resource : Fenced!Grant(r, c)
<1> DEFINE k == call[c]
           t == NextToken(k)
<1>0. TypeOK
  BY DEF IInv
<1>1. Locked(c) /\ k \in Call /\ k.res \in Resource /\ k.at \in Nat /\ k.at <= now
  BY <1>0, CallFields DEF CommitAcquire, Locked, InCall, IInv, PastClock
<1>2. k.row = lease[k.res] /\ k.fence = fence[k.res] /\ ~Live(k.row, k.at)
  BY <1>1 DEF IInv, ReadIsCurrent, CommitAcquire
<1>3. lease[k.res] # NoLease => lease[k.res].until \in Nat /\ lease[k.res].token = fence[k.res]
  BY <1>0, <1>1 DEF TypeOK, Row, IInv, RowIsNewest
<1>4. ~Live(lease[k.res], now)
  BY <1>0, <1>1, <1>2, <1>3 DEF Live, TypeOK
<1>5. t = fence[k.res] + 1
  BY <1>0, <1>1, <1>2, <1>3 DEF NextToken, TypeOK
<1>6. fence' = [fence EXCEPT ![k.res] = @ + 1]
  BY <1>5 DEF CommitAcquire
<1> DEFINE new == [client |-> c, token |-> t, until |-> k.at + TTL]
<1>7. new # NoLease /\ new.client = c /\ lease' = [lease EXCEPT ![k.res] = new] /\ now' = now
  <2>1. new \in Row
    BY <1>1, LeaseAssumption, NextTokenIsNew DEF Row
  <2>2. QED
    BY <2>1, LeaseAssumption DEF CommitAcquire
<1>8. Holder' = [Holder EXCEPT ![k.res] = c]
  BY <1>0, <1>1, <1>7 DEF Holder, TypeOK
<1>9. \E b \in BOOLEAN : Lapsed' = [Lapsed EXCEPT ![k.res] = b]
  <2>1. CASE Live(new, now)
    <3>1. Lapsed' = [Lapsed EXCEPT ![k.res] = FALSE]
      BY <1>0, <1>1, <1>7, <2>1 DEF Lapsed, TypeOK, Live
    <3>2. QED
      BY <3>1
  <2>2. CASE ~Live(new, now)
    <3>1. Lapsed' = [Lapsed EXCEPT ![k.res] = TRUE]
      BY <1>0, <1>1, <1>7, <2>2 DEF Lapsed, TypeOK, Live
    <3>2. QED
      BY <3>1
  <2>3. QED
    BY <2>1, <2>2
<1>10. Holder[k.res] = NoClient \/ Lapsed[k.res]
  BY <1>1, <1>4 DEF Holder, Lapsed
<1>11. QED
  BY <1>1, <1>6, <1>8, <1>9, <1>10 DEF Fenced!Grant, Holder, Lapsed, CommitAcquire

\* CommitRenew extends the row it read; under one lock the row is still there.
LEMMA RefinesRenew ==
  ASSUME IInv, NEW c \in Client, CommitRenew(c)
  PROVE  \E r \in Resource : Fenced!Renew(r)
<1> DEFINE k == call[c]
           u == k.at + TTL
<1>0. TypeOK
  BY DEF IInv
<1>1. Locked(c) /\ k.res \in Resource /\ k.at \in Nat /\ k.kind = "renew"
  BY <1>0, CallFields DEF CommitRenew, Locked, InCall
<1>2. lease[k.res] # NoLease /\ lease[k.res] \in Row
  BY <1>0, <1>1 DEF IInv, ReadIsCurrent, TypeOK
<1>3. UNCHANGED <<fence, now, wrote>> /\ lease' = [lease EXCEPT ![k.res].until = u]
  BY <1>2 DEF CommitRenew
<1> DEFINE new == [lease[k.res] EXCEPT !.until = u]
<1>4. new \in Row /\ new.client = lease[k.res].client /\ new.until = u
  <2>1. u \in Nat
    BY <1>1, LeaseAssumption
  <2>2. QED
    BY <1>2, <2>1 DEF Row
<1>5. lease' = [lease EXCEPT ![k.res] = new] /\ new # NoLease
  BY <1>3, <1>4, LeaseAssumption
<1> HIDE DEF new
<1>6. Holder' = Holder
  BY <1>0, <1>1, <1>2, <1>4, <1>5 DEF Holder, TypeOK
<1>7. \E b \in BOOLEAN : Lapsed' = [Lapsed EXCEPT ![k.res] = b]
  <2>1. CASE Live(new, now)
    <3>1. Lapsed' = [Lapsed EXCEPT ![k.res] = FALSE]
      BY <1>0, <1>1, <1>3, <1>5, <2>1 DEF Lapsed, TypeOK, Live
    <3>2. QED
      BY <3>1
  <2>2. CASE ~Live(new, now)
    <3>1. Lapsed' = [Lapsed EXCEPT ![k.res] = TRUE]
      BY <1>0, <1>1, <1>3, <1>5, <2>2 DEF Lapsed, TypeOK, Live
    <3>2. QED
      BY <3>1
  <2>3. QED
    BY <2>1, <2>2
<1>8. Holder[k.res] # NoClient
  BY <1>0, <1>1, <1>2, HolderOfRow
<1>9. QED
  BY <1>1, <1>3, <1>6, <1>7, <1>8 DEF Fenced!Renew, Holder, Lapsed

\* CommitRelease deletes the row it read.
LEMMA RefinesFree ==
  ASSUME IInv, NEW c \in Client, CommitRelease(c)
  PROVE  \E r \in Resource : Fenced!Free(r)
<1> DEFINE k == call[c]
<1>0. TypeOK
  BY DEF IInv
<1>1. Locked(c) /\ k.res \in Resource /\ k.kind = "release"
  BY <1>0, CallFields DEF CommitRelease, Locked, InCall
<1>2. lease[k.res] # NoLease
  BY <1>1 DEF IInv, ReadIsCurrent
<1>3. UNCHANGED <<fence, now, wrote>> /\ lease' = [lease EXCEPT ![k.res] = NoLease]
  BY DEF CommitRelease
<1>4. Holder' = [Holder EXCEPT ![k.res] = NoClient]
  BY <1>0, <1>1, <1>3 DEF Holder, TypeOK
<1>5. Lapsed' = [Lapsed EXCEPT ![k.res] = FALSE]
  BY <1>0, <1>1, <1>3 DEF Lapsed, TypeOK, Live
<1>6. Holder[k.res] # NoClient
  BY <1>0, <1>1, <1>2, HolderOfRow
<1>7. QED
  BY <1>1, <1>3, <1>4, <1>5, <1>6 DEF Fenced!Free, Holder, Lapsed

\* CommitUpdate commits under the newest token, to a row that is still there.
LEMMA RefinesCommit ==
  ASSUME IInv, NEW c \in Client, CommitUpdate(c)
  PROVE  \E r \in Resource : Fenced!Commit(r)
<1> DEFINE k == call[c]
<1>0. TypeOK
  BY DEF IInv
<1>1. Locked(c) /\ k.res \in Resource /\ k.kind = "update"
  BY <1>0, CallFields DEF CommitUpdate, Locked, InCall
<1>2. lease[k.res] # NoLease /\ k.token = fence[k.res]
  BY <1>1 DEF IInv, ReadIsCurrent, RowIsNewest
<1>3. UNCHANGED <<lease, fence, now>> /\ wrote' = [wrote EXCEPT ![k.res] = fence[k.res]]
  BY <1>2 DEF CommitUpdate
<1>4. Holder[k.res] # NoClient
  BY <1>0, <1>1, <1>2, HolderOfRow
<1>5. Holder' = Holder /\ Lapsed' = Lapsed
  BY <1>3 DEF Holder, Lapsed, Live
<1>6. QED
  BY <1>1, <1>3, <1>4, <1>5 DEF Fenced!Commit, Holder, Lapsed

\* A tick lets the rows that run out at the new time lapse.
LEMMA RefinesLapse ==
  ASSUME TypeOK, Tick
  PROVE  Fenced!Lapse
<1> DEFINE S == {r \in Resource : lease[r] # NoLease /\ ~Live(lease[r], now')}
<1>1. now \in Nat /\ now' = now + 1 /\ UNCHANGED <<lease, fence, wrote>>
  BY DEF Tick, TypeOK
<1>2. \A r \in Resource : lease[r] # NoLease => lease[r].until \in Nat
  BY DEF TypeOK, Row
<1>3. \A r \in Resource : Lapsed[r] => r \in S
  <2>1. \A r \in Resource : lease[r] # NoLease /\ ~Live(lease[r], now) => r \in S
    BY <1>1, <1>2 DEF Live
  <2>2. \A r \in Resource : Lapsed[r] <=> lease[r] # NoLease /\ ~Live(lease[r], now)
    BY Zenon DEF Lapsed
  <2>3. QED
    BY <2>1, <2>2
<1>4. Lapsed' = [r \in Resource |-> Lapsed[r] \/ r \in S]
  <2>1. \A r \in Resource :
          (lease'[r] # NoLease /\ ~Live(lease'[r], now')) <=> (Lapsed[r] \/ r \in S)
    BY <1>1, <1>3 DEF Live
  <2>2. [r \in Resource |-> lease'[r] # NoLease /\ ~Live(lease'[r], now')]
          = [r \in Resource |-> Lapsed[r] \/ r \in S]
    BY <2>1, Zenon
  <2>3. QED
    BY <2>2 DEF Lapsed, Live
<1>5. S \in SUBSET {r \in Resource : Holder[r] # NoClient}
  BY HolderOfRow
<1>6. Holder' = Holder
  BY <1>1 DEF Holder
<1>7. QED
  BY <1>1, <1>4, <1>5, <1>6 DEF Fenced!Lapse, Holder, Lapsed

\* Entering, reading, returning and dying do not show.
LEMMA RefinesStutter ==
  ASSUME UNCHANGED <<lease, fence, now, wrote>>
  PROVE  UNCHANGED Fenced!vars
  BY DEF Fenced!vars, Live

LEMMA RefinesStep == IInv /\ [Next]_vars => [Fenced!Next]_(Fenced!vars)
<1> SUFFICES ASSUME IInv, [Next]_vars
             PROVE  Fenced!Next \/ UNCHANGED Fenced!vars
  OBVIOUS
<1>1. CASE Tick
  BY <1>1, RefinesLapse DEF IInv, Fenced!Next
<1>2. ASSUME NEW c \in Client, CommitAcquire(c)
      PROVE  Fenced!Next
  BY <1>2, RefinesGrant DEF Fenced!Next
<1>3. ASSUME NEW c \in Client, CommitRenew(c)
      PROVE  Fenced!Next
  BY <1>3, RefinesRenew DEF Fenced!Next
<1>4. ASSUME NEW c \in Client, CommitRelease(c)
      PROVE  Fenced!Next
  BY <1>4, RefinesFree DEF Fenced!Next
<1>5. ASSUME NEW c \in Client, CommitUpdate(c)
      PROVE  Fenced!Next
  BY <1>5, RefinesCommit DEF Fenced!Next
<1>6. CASE UNCHANGED <<lease, fence, now, wrote>>
  BY <1>6, RefinesStutter
<1>7. QED
  BY <1>1, <1>2, <1>3, <1>4, <1>5, <1>6 DEF Next, Step, Enter, Begin, Return, Crash, vars

(***************************************************************************)
(* Under one lock the lease calls implement the abstract fenced lease.     *)
(***************************************************************************)
THEOREM LeaseImplementsFenced == ASSUME OneScope PROVE Spec => ImplementsFencedLease
<1>1. Init => Fenced!Init
  BY RefinesInit
<1>2. IInv /\ [Next]_vars => [Fenced!Next]_(Fenced!vars)
  BY RefinesStep
<1>3. QED
  BY <1>1, <1>2, Invariance, PTL DEF Spec, Fenced!Spec, ImplementsFencedLease
=============================================================================
