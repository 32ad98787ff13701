---------------------------- MODULE DurableLease ----------------------------
(***************************************************************************)
(* The lease calls of DurableRunService (sentra_mcp/services/durable.py)   *)
(* on the tables leases and lease_fences, and a fenced update_operation.   *)
(*                                                                         *)
(* A call reads the clock, waits for the lock of its service, reads its    *)
(* rows, decides, writes and commits.  Two steps matter: the step that     *)
(* takes the lock and reads, and the step that writes and releases it.     *)
(* What the lock excludes depends on the store: a threading.RLock excludes *)
(* the other threads of one process (SQLite), NamespaceLock excludes every *)
(* process (PostgreSQL).  ScopeOf[c] is the lock under which c calls.      *)
(***************************************************************************)
EXTENDS Naturals

CONSTANTS
  Client,       \* identities (owner, run, operation) that call the service
  Owner,        \* authenticated owners
  OwnerOf,      \* OwnerOf[c]: several clients share an owner (oma:<workspace>)
  Scope,        \* locks
  ScopeOf,      \* ScopeOf[c]: the lock of the service c calls
  Resource,     \* resource keys
  NoLease,      \* no row in table leases
  NoClient,     \* the holder of a free resource
  Idle,         \* a client outside any call
  TTL,          \* ttl_s
  MaxClock,     \* bound on the clock
  MaxToken      \* bound on the tokens of a resource

\* A row of table leases; client stands for its owner, run and operation.
Row == [client: Client, token: Nat, until: Nat]

ASSUME LeaseAssumption ==
  /\ NoClient \notin Client
  /\ NoLease \notin Row
  /\ OwnerOf \in [Client -> Owner]
  /\ ScopeOf \in [Client -> Scope]
  /\ TTL \in Nat \ {0}
  /\ MaxClock \in Nat
  /\ MaxToken \in Nat

VARIABLES
  lease,        \* lease[r]: the row of table leases, or NoLease
  fence,        \* fence[r]: the row of table lease_fences, 0 when absent
  now,          \* the clock
  held,         \* held[c][r]: the token c last received for r, 0 when none
  call,         \* call[c]: the call c is in, or Idle
  wrote,        \* wrote[r]: token of the last committed fenced update
  grants        \* every grant <<r, token, c>> ever committed

vars == <<lease, fence, now, held, call, wrote, grants>>

-----------------------------------------------------------------------------
Kind == {"acquire", "renew", "release", "update"}
Call == [stage: {"entered", "locked"}, kind: Kind, res: Resource, at: Nat,
         token: Nat, row: Row \union {NoLease}, fence: Nat]

TypeOK ==
  /\ lease \in [Resource -> Row \union {NoLease}]
  /\ fence \in [Resource -> Nat]
  /\ now \in Nat
  /\ held \in [Client -> [Resource -> Nat]]
  /\ call \in [Client -> Call \union {Idle}]
  /\ wrote \in [Resource -> Nat]
  /\ grants \subseteq Resource \X Nat \X Client

InCall(c, stage) == call[c] # Idle /\ call[c].stage = stage

\* (Mutant: the call does not take the lock.)
LockFreeNoLock(c) == TRUE

\* The lock of c's service is free: no caller of that service is past its read.
LockFree(c) ==
  \A d \in Client : ScopeOf[d] = ScopeOf[c] => ~InCall(d, "locked")

\* The row is there and has not run out at time t.
Live(row, t) == row # NoLease /\ row.until > t

-----------------------------------------------------------------------------
Init ==
  /\ lease  = [r \in Resource |-> NoLease]
  /\ fence  = [r \in Resource |-> 0]
  /\ now    = 0
  /\ held   = [c \in Client |-> [r \in Resource |-> 0]]
  /\ call   = [c \in Client |-> Idle]
  /\ wrote  = [r \in Resource |-> 0]
  /\ grants = {}

\* A client calls; acquire and renew read the clock here, before the lock.
Enter(c, kind, r) ==
  /\ call[c] = Idle
  /\ kind # "acquire" => held[c][r] # 0
  /\ kind = "acquire" => fence[r] < MaxToken
  /\ call' = [call EXCEPT ![c] =
       [stage |-> "entered", kind |-> kind, res |-> r, at |-> now,
        token |-> held[c][r], row |-> NoLease, fence |-> 0]]
  /\ UNCHANGED <<lease, fence, now, held, wrote, grants>>

\* The rows a call finds when it has the lock.
Read(c) ==
  [call[c] EXCEPT !.stage = "locked", !.row = lease[call[c].res],
                  !.fence = fence[call[c].res]]

\* (Mutant: the token is not compared.)
PresentsAnything(c, row) == row # NoLease

\* The row is there and carries the token the caller presents.
Presents(c, row) == row # NoLease /\ row.token = call[c].token

\* What each call requires of the row it reads.
Accepts(c, row) ==
  LET k == call[c]
      mine == Presents(c, row) /\ OwnerOf[row.client] = OwnerOf[c]
  IN
  CASE k.kind = "acquire" -> ~Live(row, k.at)
    [] k.kind = "renew"   -> mine /\ Live(row, k.at)
    [] k.kind = "release" -> mine
    [] k.kind = "update"  -> Presents(c, row) /\ Live(row, now)

\* The call takes the lock, reads and goes on to write.
Begin(c) ==
  /\ InCall(c, "entered")
  /\ LockFree(c)
  /\ Accepts(c, lease[call[c].res])
  /\ call' = [call EXCEPT ![c] = Read(c)]
  /\ UNCHANGED <<lease, fence, now, held, wrote, grants>>

\* The call takes the lock, reads and returns without writing: the idempotent
\* replay of a live lease to its holder, an absent lease on release, or a
\* DurableStateConflict or StaleFenceError.
Return(c) ==
  LET k == call[c]
      row == lease[k.res]
      replay == k.kind = "acquire" /\ row.client = c
      absent == k.kind = "release" /\ row = NoLease
  IN
  /\ InCall(c, "entered")
  /\ LockFree(c)
  /\ ~Accepts(c, row)
  /\ held' = [held EXCEPT ![c][k.res] =
       IF replay THEN row.token ELSE IF absent THEN 0 ELSE @]
  /\ call' = [call EXCEPT ![c] = Idle]
  /\ UNCHANGED <<lease, fence, now, wrote, grants>>

\* (Mutant: the fence row that outlives a release is ignored.)
NextTokenOfRow(k) == IF k.row = NoLease THEN 1 ELSE k.row.token + 1

\* The token acquire_lease hands out, from the rows it read.
NextToken(k) ==
  LET old == IF k.row = NoLease THEN 0 ELSE k.row.token
  IN (IF old > k.fence THEN old ELSE k.fence) + 1

\* acquire_lease writes both tables in one transaction.
CommitAcquire(c) ==
  LET k == call[c]
      token == NextToken(k)
  IN
  /\ InCall(c, "locked") /\ k.kind = "acquire"
  /\ fence' = [fence EXCEPT ![k.res] = token]
  /\ lease' = [lease EXCEPT ![k.res] =
       [client |-> c, token |-> token, until |-> k.at + TTL]]
  /\ held' = [held EXCEPT ![c][k.res] = token]
  /\ grants' = grants \union {<<k.res, token, c>>}
  /\ call' = [call EXCEPT ![c] = Idle]
  /\ UNCHANGED <<now, wrote>>

\* renew_lease: UPDATE leases SET lease_until WHERE resource_key; an update of
\* a row that is gone changes nothing.
CommitRenew(c) ==
  LET k == call[c] IN
  /\ InCall(c, "locked") /\ k.kind = "renew"
  /\ lease' = IF lease[k.res] = NoLease THEN lease
              ELSE [lease EXCEPT ![k.res].until = k.at + TTL]
  /\ call' = [call EXCEPT ![c] = Idle]
  /\ UNCHANGED <<fence, now, held, wrote, grants>>

\* (Mutants: the fence row goes with the lease; the client keeps the row's absence
\* for a token.)
CommitReleaseFence(c) ==
  LET k == call[c] IN
  /\ InCall(c, "locked") /\ k.kind = "release"
  /\ lease' = [lease EXCEPT ![k.res] = NoLease]
  /\ fence' = [fence EXCEPT ![k.res] = 0]
  /\ held' = [held EXCEPT ![c][k.res] = 0]
  /\ call' = [call EXCEPT ![c] = Idle]
  /\ UNCHANGED <<now, wrote, grants>>

CommitReleaseNull(c) ==
  LET k == call[c] IN
  /\ InCall(c, "locked") /\ k.kind = "release"
  /\ lease' = [lease EXCEPT ![k.res] = NoLease]
  /\ held' = [held EXCEPT ![c][k.res] = NoLease]
  /\ call' = [call EXCEPT ![c] = Idle]
  /\ UNCHANGED <<fence, now, wrote, grants>>

\* release_lease: DELETE FROM leases WHERE resource_key; the fence row stays.
CommitRelease(c) ==
  LET k == call[c] IN
  /\ InCall(c, "locked") /\ k.kind = "release"
  /\ lease' = [lease EXCEPT ![k.res] = NoLease]
  /\ held' = [held EXCEPT ![c][k.res] = 0]
  /\ call' = [call EXCEPT ![c] = Idle]
  /\ UNCHANGED <<fence, now, wrote, grants>>

\* update_operation(resource_key, fencing_token) after _verify_fence_locked.
CommitUpdate(c) ==
  LET k == call[c] IN
  /\ InCall(c, "locked") /\ k.kind = "update"
  /\ wrote' = [wrote EXCEPT ![k.res] = k.token]
  /\ call' = [call EXCEPT ![c] = Idle]
  /\ UNCHANGED <<lease, fence, now, held, grants>>

\* The process of c dies: its call is rolled back and it forgets its tokens.
Crash(c) ==
  /\ held' = [held EXCEPT ![c] = [r \in Resource |-> 0]]
  /\ call' = [call EXCEPT ![c] = Idle]
  /\ UNCHANGED <<lease, fence, now, wrote, grants>>

Tick ==
  /\ now < MaxClock
  /\ now' = now + 1
  /\ UNCHANGED <<lease, fence, held, call, wrote, grants>>

Step(c) ==
  \/ \E kind \in Kind, r \in Resource : Enter(c, kind, r)
  \/ Begin(c)
  \/ Return(c)
  \/ CommitAcquire(c)
  \/ CommitRenew(c)
  \/ CommitRelease(c)
  \/ CommitUpdate(c)
  \/ Crash(c)

Next == Tick \/ \E c \in Client : Step(c)

Spec == Init /\ [][Next]_vars

-----------------------------------------------------------------------------
\* Every service call runs under one lock: one process on SQLite, or any
\* number of processes on PostgreSQL.
OneScope == \A c, d \in Client : ScopeOf[c] = ScopeOf[d]

(***************************************************************************)
(* No fencing token of a resource is ever granted to two clients: the      *)
(* token names one generation (acquire_lease, durable.py:1690-1698).       *)
(***************************************************************************)
TokensUnique ==
  \A g, h \in grants : g[1] = h[1] /\ g[2] = h[2] => g = h

(***************************************************************************)
(* Once a generation has committed protected state, no older generation    *)
(* commits any: the fence check of update_operation still holds when the   *)
(* update is written (docs/DURABLE_EXECUTION.md, safety invariant 3).      *)
(***************************************************************************)
StaleNeverCommits == [][\A r \in Resource : wrote'[r] >= wrote[r]]_vars

(***************************************************************************)
(* A lease that has not run out is never handed to another generation, and *)
(* when its row goes, the caller that deleted it presented its token       *)
(* (release_lease deletes by resource_key, durable.py:1767).               *)
(***************************************************************************)
LiveLeaseIsKept ==
  [][\A r \in Resource :
       Live(lease[r], now) =>
         \/ lease'[r] # NoLease /\ lease'[r].token = lease[r].token
         \/ lease'[r] = NoLease /\ \E c \in Client :
              /\ InCall(c, "locked") /\ call[c].kind = "release"
              /\ call[c].res = r /\ call[c].token = lease[r].token]_vars

\* The abstract lease: a row's client holds the generation in lease_fences.
Fenced == INSTANCE FencedLease WITH
  gen    <- fence,
  holder <- [r \in Resource |-> IF lease[r] = NoLease THEN NoClient ELSE lease[r].client],
  lapsed <- [r \in Resource |-> lease[r] # NoLease /\ ~Live(lease[r], now)]

(***************************************************************************)
(* Under one lock the tables, the calls and the clock implement the        *)
(* abstract fenced lease.                                                  *)
(***************************************************************************)
ImplementsFencedLease == Fenced!Spec
=============================================================================
