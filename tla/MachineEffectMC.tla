-------------------------- MODULE MachineEffectMC ---------------------------
(***************************************************************************)
(* Instances of MachineEffect: effects x and y and an observation v of one *)
(* machine, submitted by processes p and q.                                *)
(***************************************************************************)
EXTENDS MachineEffect

CONSTANTS x, y, v, p, q

MCEffects == {x, y}
MCMixed == {x, v}
MCProcess == {p, q}
MCMachine == {"vm"}
MCMachineOf == [o \in Op |-> "vm"]
MCNone == {}
MCOneProcess == {p}
MCObservation == {v}
MCCleanup == {x}

\* PostgreSQL: one lock for all processes.
MCOneScope == {"durable"}
MCOneLock == [r \in Process |-> "durable"]

\* SQLite: one lock per process.
MCOwnScope == Process
MCOwnLock == [r \in Process |-> r]
=============================================================================
