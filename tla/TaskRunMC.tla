------------------------------ MODULE TaskRunMC ------------------------------
(***************************************************************************)
(* Instances of TaskRun: tasks a and b of one run, in some c, which        *)
(* depends on one of them, and in one d, which no node can run.            *)
(***************************************************************************)
EXTENDS TaskRun

CONSTANTS a, b, c, d

MCFile == {"file:x"}
MCNone == {}
MCNoLocks == [t \in Task |-> {}]
MCRank == [t \in Task |-> IF t = a THEN 0 ELSE IF t = b THEN 1 ELSE IF t = c THEN 2 ELSE 3]
MCTwo == {a, b}
MCThree == {a, b, c}
MCFour == {a, b, c, d}

\* a writes anywhere in the workspace, b writes x, c writes nothing and needs a.
MCDiamond == [t \in Task |-> IF t = c THEN {a} ELSE {}]
MCWriters == [t \in Task |-> IF t = c THEN "ISOLATED" ELSE "WORKSPACE_WRITE"]
MCWritesX == [t \in Task |-> IF t = b THEN MCFile ELSE {}]

\* All are independent; or c and d need b.
MCApart == [t \in Task |-> {}]
MCAfterB == [t \in Task |-> IF t \in {c, d} THEN {b} ELSE {}]

\* a writes anywhere in the workspace, b locks x and acts outside.
MCOutside == [t \in Task |-> IF t = a THEN "WORKSPACE_WRITE"
                             ELSE IF t = b THEN "EXTERNAL" ELSE "ISOLATED"]
MCLocksX == [t \in Task |-> IF t = b THEN MCFile ELSE {}]

\* Nobody writes.
MCIsolated == [t \in Task |-> "ISOLATED"]
MCNoTargets == [t \in Task |-> {}]

\* No node has what b needs.
MCOnlyA == {a}
=============================================================================
