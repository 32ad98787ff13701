----------------------------- MODULE FencedLease -----------------------------
(***************************************************************************)
(* What a lease of DurableRunService promises, without its tables, its     *)
(* locks or its clock: a resource has a generation, each grant opens a new *)
(* one, and only the open generation commits protected state.              *)
(* (src/docs/DURABLE_EXECUTION.md, "Leases and fencing".)                  *)
(***************************************************************************)
EXTENDS Naturals

CONSTANTS
  Client,       \* callers that compete for leases
  Resource,     \* resource keys
  NoClient      \* the holder of a free resource, not a client

VARIABLES
  gen,          \* gen[r]: the last generation granted on r
  holder,       \* holder[r]: the client that generation was granted to
  lapsed,       \* lapsed[r]: its lease has run out of time
  wrote         \* wrote[r]: the generation of the last protected commit

vars == <<gen, holder, lapsed, wrote>>

Init ==
  /\ gen    = [r \in Resource |-> 0]
  /\ holder = [r \in Resource |-> NoClient]
  /\ lapsed = [r \in Resource |-> FALSE]
  /\ wrote  = [r \in Resource |-> 0]

\* A grant opens the next generation; it takes over only what is free or lapsed.
\* The new lease may already have lapsed: the caller read the clock before it
\* waited for the store.
Grant(r, c) ==
  /\ holder[r] = NoClient \/ lapsed[r]
  /\ gen' = [gen EXCEPT ![r] = @ + 1]
  /\ holder' = [holder EXCEPT ![r] = c]
  /\ \E b \in BOOLEAN : lapsed' = [lapsed EXCEPT ![r] = b]
  /\ UNCHANGED wrote

\* The holder's lease is extended, or found to have lapsed already.
Renew(r) ==
  /\ holder[r] # NoClient
  /\ \E b \in BOOLEAN : lapsed' = [lapsed EXCEPT ![r] = b]
  /\ UNCHANGED <<gen, holder, wrote>>

Free(r) ==
  /\ holder[r] # NoClient
  /\ holder' = [holder EXCEPT ![r] = NoClient]
  /\ lapsed' = [lapsed EXCEPT ![r] = FALSE]
  /\ UNCHANGED <<gen, wrote>>

\* Time passes: any held leases may lapse together.
Lapse ==
  /\ \E S \in SUBSET {r \in Resource : holder[r] # NoClient} :
       lapsed' = [r \in Resource |-> lapsed[r] \/ r \in S]
  /\ UNCHANGED <<gen, holder, wrote>>

\* Protected state is committed by the open generation only.
Commit(r) ==
  /\ holder[r] # NoClient
  /\ wrote' = [wrote EXCEPT ![r] = gen[r]]
  /\ UNCHANGED <<gen, holder, lapsed>>

Next ==
  \/ \E r \in Resource : (\E c \in Client : Grant(r, c)) \/ Renew(r) \/ Free(r) \/ Commit(r)
  \/ Lapse

Spec == Init /\ [][Next]_vars
=============================================================================
