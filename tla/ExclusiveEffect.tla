--------------------------- MODULE ExclusiveEffect ---------------------------
(***************************************************************************)
(* What the central machine authority promises of physical effects, with   *)
(* no rows, locks, leases, processes or crashes: an operation is admitted  *)
(* once, begins once, is sent to its machine at most once, and no effect   *)
(* begins while another one on the same resource has begun and is not      *)
(* settled, however its lease, its caller or its process ended.            *)
(***************************************************************************)
CONSTANTS
  Op,           \* operations
  Rival         \* pairs of operations whose effects exclude each other

VARIABLES
  phase,        \* phase[o]: "new", "open" or "settled"
  begun,        \* operations whose effect may have started
  sent          \* operations whose effect was sent to the machine

vars == <<phase, begun, sent>>

Init ==
  /\ phase = [o \in Op |-> "new"]
  /\ begun = {}
  /\ sent = {}

\* No rival of o has an effect of unknown outcome.
Clear(o) == \A q \in begun : <<q, o>> \in Rival => phase[q] # "open"

Admit(o) ==
  /\ phase[o] = "new"
  /\ Clear(o)
  /\ phase' = [phase EXCEPT ![o] = "open"]
  /\ UNCHANGED <<begun, sent>>

Begin(o) ==
  /\ phase[o] = "open"
  /\ o \notin begun
  /\ Clear(o)
  /\ begun' = begun \union {o}
  /\ UNCHANGED <<phase, sent>>

\* Sending follows the mark; the operation may have been settled in between.
Send(o) ==
  /\ o \in begun \ sent
  /\ sent' = sent \union {o}
  /\ UNCHANGED <<phase, begun>>

Settle(o) ==
  /\ phase[o] = "open"
  /\ phase' = [phase EXCEPT ![o] = "settled"]
  /\ UNCHANGED <<begun, sent>>

Next == \E o \in Op : Admit(o) \/ Begin(o) \/ Send(o) \/ Settle(o)

Spec == Init /\ [][Next]_vars
=============================================================================
