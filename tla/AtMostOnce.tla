------------------------------ MODULE AtMostOnce ------------------------------
(***************************************************************************)
(* What a store of leased jobs promises to the caller of a job, with no    *)
(* leases, workers, phases, requeues or messages: the effect of a job      *)
(* happens at most once, and the verdict "no" (the job ended and nothing   *)
(* was done, so it is safe to submit it again) is given only for a job     *)
(* whose effect has not happened and never will.                           *)
(***************************************************************************)
EXTENDS Naturals

CONSTANT Job

VARIABLES
  effects,      \* effects[j]: how often the effect of j happened
  verdict       \* verdict[j]: what the caller is told

vars == <<effects, verdict>>

Verdict == {"open", "no", "unknown", "yes"}

Init ==
  /\ effects = [j \in Job |-> 0]
  /\ verdict = [j \in Job |-> "open"]

\* A worker that was cut off may still act after the job ended as "unknown".
Perform(j) ==
  /\ effects[j] = 0
  /\ verdict[j] # "no"
  /\ effects' = [effects EXCEPT ![j] = 1]
  /\ UNCHANGED verdict

\* Proof that arrives late repairs a verdict, it never revokes one.
Repair(j) ==
  /\ verdict[j] = "unknown"
  /\ verdict' = [verdict EXCEPT ![j] = "yes"]
  /\ UNCHANGED effects

\* One call of the store may end several jobs whose time is up.
Close ==
  \E v \in [Job -> Verdict] :
    /\ \A j \in Job : \/ v[j] = verdict[j]
                      \/ verdict[j] = "open" /\ (v[j] = "no" => effects[j] = 0)
    /\ verdict' = v
    /\ UNCHANGED effects

Next ==
  \/ \E j \in Job : Perform(j) \/ Repair(j)
  \/ Close

Spec == Init /\ [][Next]_vars
=============================================================================
