--------------------------- MODULE DurableLeaseMC ---------------------------
(***************************************************************************)
(* Instances of DurableLease: three clients of two owners.  a1 and a2 are  *)
(* two runs of one workspace and share its owner, b is another owner.      *)
(***************************************************************************)
EXTENDS DurableLease

CONSTANTS a1, a2, b

MCClient == {a1, a2, b}
MCTwoClients == {a1, a2}
MCOwner == {"oma", "mcp"}
MCOwnerOf == [c \in Client |-> IF c = b THEN "mcp" ELSE "oma"]

\* PostgreSQL, or one SQLite process: one lock for everybody.
MCOneLock == [c \in Client |-> "durable"]
MCOneScope == {"durable"}

\* SQLite, one process per client: each has the RLock of its own service.
MCOwnLock == [c \in Client |-> c]
MCOwnScope == Client
=============================================================================
