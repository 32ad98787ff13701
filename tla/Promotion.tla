------------------------------ MODULE Promotion ------------------------------
(***************************************************************************)
(* promote_candidate (orchestrator/runtime.py) and what it calls: the      *)
(* integration of a verified candidate into the user's checkout by         *)
(* ProjectIntegrationCoordinator.integrate and the ledger of revisions     *)
(* ProjectRevisionStore (orchestrator/integration.py), the lease           *)
(* "project:integration" of DurableResourceLeaseManager                    *)
(* (orchestrator/durable_resources.py) and PatchManager.apply_patch        *)
(* (workspace/patch_manager.py).                                           *)
(*                                                                         *)
(* The user edits the checkout at any time, without any lock.  Runs of the *)
(* same workspace integrate into work trees of their own under the same    *)
(* lease.  A promotion may die anywhere and be tried again.                *)
(*                                                                         *)
(* The content of a file is the set of the changes it holds: edits of the  *)
(* user, numbered, and the patches of runs.  Equality of hashes is         *)
(* equality of contents.                                                   *)
(***************************************************************************)
EXTENDS Naturals, Sequences, FiniteSets

CONSTANTS
  Run,          \* runs with a candidate ready for promotion
  File,         \* files of the checkout
  Touched,      \* Touched[r]: the files the patch of r changes
  Other,        \* an engine of the workspace, holder of the lease
  NoOne,        \* nobody
  MaxEdits,     \* bound on the user's edits
  MaxAttempts,  \* MaxAttempts[r]: bound on the promotions of r
  MaxCrashes,   \* bound on the crashes
  MaxFaults,    \* bound on the crashes and the files not put back, together
  MaxTokens     \* bound on the tokens an engine may draw

ASSUME PromotionAssumption ==
  /\ Touched \in [Run -> (SUBSET File) \ {{}}]
  /\ Run \intersect 1 .. MaxEdits = {}
  /\ Other \notin Run
  /\ NoOne \notin Run \union {Other}
  /\ MaxAttempts \in [Run -> Nat]
  /\ {MaxEdits, MaxCrashes, MaxFaults, MaxTokens} \subseteq Nat

VARIABLES
  tree,         \* the checkout
  edits,        \* the user's edits: which file, and whether one raced a write
  ledger,       \* table project_revisions
  lease,        \* row of table leases for project:integration
  guard,        \* holder of the OS lock runs/.workspace.lock
  handoff,      \* handoff[r]: status in handoff.json
  at,           \* at[r]: the promotion of r in progress
  attempts,     \* attempts[r]: promotions of r begun
  crashes,      \* promotions that died
  unrestored    \* unrestored[r]: files ROLLBACK_FAILED was reported of, a history

vars == <<tree, edits, ledger, lease, guard, handoff, at, attempts, crashes,
          unrestored>>

-----------------------------------------------------------------------------
Change == Run \union 1 .. MaxEdits
Tree == [File -> SUBSET Change]
Holder == Run \union {Other, NoOne}
Stage == {"idle", "base", "scope", "test", "testing", "moved", "lease",
          "observe", "reconcile", "retest", "retesting", "settled", "prepare",
          "apply", "write", "undo", "compare", "commit", "release", "handoff"}

Revision == [kind: {"BASELINE", "EXTERNAL_CHANGE", "CANDIDATE_COMMIT"},
             tree: Tree, run: Holder, token: Nat]

TypeOK ==
  /\ tree \in Tree
  /\ edits \in Seq([file: File, raced: BOOLEAN])
  /\ ledger \in Seq(Revision)
  /\ lease \in [holder: Holder, token: Nat, live: BOOLEAN]
  /\ guard \in Run \union {NoOne}
  /\ handoff \in [Run -> {"CANDIDATE_READY", "APPLIED"}]
  /\ at \in [Run -> [stage: Stage, first: Tree, tested: Tree, found: Tree,
                     token: Nat, left: SUBSET File, written: SUBSET File,
                     ok: BOOLEAN]]
  /\ attempts \in [Run -> Nat]
  /\ crashes \in 0 .. MaxCrashes
  /\ unrestored \in [Run -> SUBSET File]

\* The checkout every run copied as its baseline.
Baseline == [f \in File |-> {}]

Away == [stage |-> "idle", first |-> Baseline, tested |-> Baseline,
         found |-> Baseline, token |-> 0, left |-> {}, written |-> {},
         ok |-> FALSE]

Init ==
  /\ tree = Baseline
  /\ edits = <<>>
  /\ ledger = <<>>
  /\ lease = [holder |-> NoOne, token |-> 0, live |-> FALSE]
  /\ guard = NoOne
  /\ handoff = [r \in Run |-> "CANDIDATE_READY"]
  /\ at = [r \in Run |-> Away]
  /\ attempts = [r \in Run |-> 0]
  /\ crashes = 0
  /\ unrestored = [r \in Run |-> {}]

-----------------------------------------------------------------------------
\* A tree with the patch of r applied.
Patched(r, t) == [f \in File |-> IF f \in Touched[r] THEN t[f] \union {r} ELSE t[f]]

\* The files of the patch are as in t.
SameScope(r, t) == \A f \in Touched[r] : tree[f] = t[f]

Goes(r, stage) == at' = [at EXCEPT ![r].stage = stage]

\* (Mutant: the lock file is the lock, and nobody removes it.)
FailsLocked(r) ==
  /\ at' = [at EXCEPT ![r] = Away]
  /\ UNCHANGED guard

\* An exception before the lease is taken: ValueError to the operator.
Fails(r) ==
  /\ at' = [at EXCEPT ![r] = Away]
  /\ guard' = NoOne

\* integrate is done, and what it read is not looked at again; its finally
\* clause comes next.
Returns(r, ok) ==
  at' = [at EXCEPT ![r] = [Away EXCEPT !.stage = "release", !.ok = ok,
                                       !.token = at[r].token]]

Refuses(r) == Returns(r, FALSE)

Keeps == UNCHANGED <<edits, handoff, attempts, crashes, unrestored>>

-----------------------------------------------------------------------------
(* promote_candidate up to the coordinator.                                *)

\* RunLock is tried, not awaited; a run is promoted while CANDIDATE_READY.
Begin(r) ==
  /\ guard = NoOne
  /\ at[r].stage = "idle"
  /\ attempts[r] < MaxAttempts[r]
  /\ handoff[r] = "CANDIDATE_READY"
  /\ guard' = r
  /\ attempts' = [attempts EXCEPT ![r] = @ + 1]
  /\ Goes(r, "base")
  /\ UNCHANGED <<tree, edits, ledger, lease, handoff, crashes, unrestored>>

\* current_base_hash
ReadBase(r) ==
  /\ at[r].stage = "base"
  /\ at' = [at EXCEPT ![r].first = tree,
                      ![r].stage = IF tree = Baseline THEN "test" ELSE "scope"]
  /\ UNCHANGED <<tree, ledger, lease, guard>> /\ Keeps

\* STALE_BASE_CONFLICT when a file of the patch is not as in the baseline.
CheckScope(r) ==
  /\ at[r].stage = "scope"
  /\ IF SameScope(r, Baseline) THEN Goes(r, "test") /\ UNCHANGED guard
     ELSE Fails(r)
  /\ UNCHANGED <<tree, ledger, lease>> /\ Keeps

\* CandidateVerifier.verify copies the checkout, patches the copy and runs the
\* commands in it, which pass or fail.
Test(r) ==
  /\ at[r].stage \in {"test", "retest"}
  /\ at' = [at EXCEPT ![r].tested = tree,
                      ![r].stage = IF @ = "test" THEN "testing" ELSE "retesting"]
  /\ UNCHANGED <<tree, ledger, lease, guard>> /\ Keeps

\* Afterwards the checkout must be what was copied; when it was the baseline,
\* the candidate must have the hash of the handoff.
Tested(r) ==
  /\ at[r].stage = "testing"
  /\ \/ /\ tree = at[r].tested
        /\ at[r].first = Baseline => at[r].tested = Baseline
        /\ Goes(r, "moved")
        /\ UNCHANGED guard
     \/ Fails(r)
  /\ UNCHANGED <<tree, ledger, lease>> /\ Keeps

\* "workspace changed during promotion verification"
CheckMoved(r) ==
  /\ at[r].stage = "moved"
  /\ IF tree = at[r].first THEN Goes(r, "lease") /\ UNCHANGED guard ELSE Fails(r)
  /\ UNCHANGED <<tree, ledger, lease>> /\ Keeps

-----------------------------------------------------------------------------
(* The lease: acquire_lease, renew_lease, release_lease of the one resource.*)

\* A live lease of the same run and operation is returned as it is.
Acquire(r) ==
  /\ at[r].stage = "lease"
  /\ \/ /\ lease.live /\ lease.holder # r
        /\ Fails(r)                                \* INTEGRATION_LEASE_BUSY
        /\ UNCHANGED lease
     \/ /\ ~(lease.live /\ lease.holder # r)
        /\ lease' = IF lease.live /\ lease.holder = r THEN lease
                    ELSE [holder |-> r, token |-> lease.token + 1, live |-> TRUE]
        /\ at' = [at EXCEPT ![r].stage = "observe", ![r].token = lease'.token]
        /\ UNCHANGED guard
  /\ UNCHANGED <<tree, ledger>> /\ Keeps

Held(r) == lease.holder = r /\ lease.live /\ lease.token = at[r].token

\* release removes the row when the token is still the present one; it is best
\* effort, and table lease_fences keeps the token.
Release(r) ==
  /\ at[r].stage = "release"
  /\ \/ /\ lease.holder = r /\ lease.token = at[r].token
        /\ lease' = [lease EXCEPT !.holder = NoOne, !.live = FALSE]
     \/ UNCHANGED lease
  /\ IF at[r].ok THEN Goes(r, "handoff") /\ UNCHANGED guard ELSE Fails(r)
  /\ UNCHANGED <<tree, ledger>> /\ Keeps

\* The time to live passes.
Lapse ==
  /\ lease.live
  /\ lease' = [lease EXCEPT !.live = FALSE]
  /\ UNCHANGED <<tree, edits, ledger, guard, handoff, at, attempts, crashes,
                 unrestored>>

\* An engine integrates into its own work tree.
OtherAcquires ==
  /\ ~lease.live
  /\ lease.token < MaxTokens
  /\ lease' = [holder |-> Other, token |-> lease.token + 1, live |-> TRUE]
  /\ UNCHANGED <<tree, edits, ledger, guard, handoff, at, attempts, crashes,
                 unrestored>>

OtherReleases ==
  /\ lease.holder = Other
  /\ lease' = [lease EXCEPT !.holder = NoOne, !.live = FALSE]
  /\ UNCHANGED <<tree, edits, ledger, guard, handoff, at, attempts, crashes,
                 unrestored>>

-----------------------------------------------------------------------------
(* integrate, under the lease.                                             *)

Row(kind, t, r) == [kind |-> kind, tree |-> t, run |-> r,
                    token |-> IF r = NoOne THEN 0 ELSE at[r].token]

\* ProjectRevisionStore.observe records what the user did since the last row.
Observe(r) ==
  /\ at[r].stage = "observe"
  /\ ledger' = IF ledger = <<>> THEN <<Row("BASELINE", tree, NoOne)>>
               ELSE IF ledger[Len(ledger)].tree = tree THEN ledger
               ELSE Append(ledger, Row("EXTERNAL_CHANGE", tree, NoOne))
  /\ Goes(r, IF tree = at[r].tested THEN "settled" ELSE "reconcile")
  /\ UNCHANGED <<tree, lease, guard>> /\ Keeps

\* STALE_BASE_CONFLICT, or the verifier runs again.
Reconcile(r) ==
  /\ at[r].stage = "reconcile"
  /\ IF SameScope(r, at[r].tested) THEN Goes(r, "retest") ELSE Refuses(r)
  /\ UNCHANGED <<tree, ledger, lease, guard>> /\ Keeps

\* STALE_BASE_REVERIFY_FAILED
Retested(r) ==
  /\ at[r].stage = "retesting"
  /\ \/ /\ tree = at[r].tested
        /\ Goes(r, "settled")
     \/ Refuses(r)
  /\ UNCHANGED <<tree, ledger, lease, guard>> /\ Keeps

\* INTEGRATION_BASE_MOVED, or STALE_FENCE when the lease is no longer held.
Renew(r) ==
  /\ at[r].stage = "settled"
  /\ IF tree = at[r].tested /\ Held(r) THEN Goes(r, "prepare") ELSE Refuses(r)
  /\ UNCHANGED <<tree, ledger, lease, guard>> /\ Keeps

\* apply_patch reads every file of the patch and computes what to write; where
\* the user edited one since, the hunks fit or they do not.
Prepare(r) ==
  /\ at[r].stage = "prepare"
  /\ \/ at' = [at EXCEPT ![r].stage = "apply", ![r].found = tree,
                         ![r].left = Touched[r]]
     \/ /\ ~SameScope(r, at[r].tested)
        /\ Refuses(r)
  /\ UNCHANGED <<tree, ledger, lease, guard>> /\ Keeps

\* (Mutant: it is not.)
RecheckNothing(r) ==
  /\ at[r].stage = "apply"
  /\ \E f \in at[r].left :
       at' = [at EXCEPT ![r].stage = "write", ![r].written = @ \union {f}]
  /\ UNCHANGED <<tree, ledger, lease, guard>> /\ Keeps

\* Just before it is written a file is read again.
Recheck(r) ==
  /\ at[r].stage = "apply"
  /\ \E f \in at[r].left :
       IF tree[f] = at[r].found[f]
       THEN at' = [at EXCEPT ![r].stage = "write", ![r].written = @ \union {f}]
       ELSE Goes(r, "undo")
  /\ UNCHANGED <<tree, ledger, lease, guard>> /\ Keeps

\* os.replace over whatever the file is now.
Write(r) ==
  /\ at[r].stage = "write"
  /\ \E f \in at[r].left \intersect at[r].written :
       /\ tree' = [tree EXCEPT ![f] = at[r].found[f] \union {r}]
       /\ at' = [at EXCEPT ![r].left = @ \ {f},
                           ![r].stage = IF at[r].left = {f} THEN "compare"
                                        ELSE "apply"]
  /\ UNCHANGED <<ledger, lease, guard>> /\ Keeps

\* The file cannot be replaced.
WriteFails(r) ==
  /\ at[r].stage = "write"
  /\ Goes(r, "undo")
  /\ UNCHANGED <<tree, ledger, lease, guard>> /\ Keeps

\* (Mutant: a failed patch is left as it is.)
UndoNothing(r) ==
  /\ at[r].stage = "undo"
  /\ Refuses(r)
  /\ UNCHANGED <<tree, ledger, lease, guard>> /\ Keeps

\* The except clause puts the files already written back.
Undo(r) ==
  /\ at[r].stage = "undo"
  /\ IF at[r].written = {} THEN Refuses(r) /\ UNCHANGED tree
     ELSE \E f \in at[r].written :
            /\ tree' = [tree EXCEPT ![f] = at[r].found[f]]
            /\ at' = [at EXCEPT ![r].written = @ \ {f}]
  /\ UNCHANGED <<ledger, lease, guard>> /\ Keeps

\* Whether the bounds allow another fault.
MayFail ==
  crashes + Cardinality({c \in Run \X File : c[2] \in unrestored[c[1]]}) < MaxFaults

\* One of them cannot be put back; the loop goes on, and the error that is
\* returned says ROLLBACK_FAILED.
UndoFails(r) ==
  /\ at[r].stage = "undo"
  /\ MayFail
  /\ \E f \in at[r].written :
       /\ at' = [at EXCEPT ![r].written = @ \ {f}]
       /\ unrestored' = [unrestored EXCEPT ![r] = @ \union {f}]
  /\ UNCHANGED <<tree, edits, ledger, lease, guard, handoff, attempts, crashes>>

\* (Mutant: the tree is recorded as it is found.)
CompareNothing(r) ==
  /\ at[r].stage = "compare"
  /\ at' = [at EXCEPT ![r].stage = "commit", ![r].found = tree]
  /\ UNCHANGED <<tree, ledger, lease, guard>> /\ Keeps

\* INTEGRATION_POST_APPLY_HASH_MISMATCH: the patch stays.
Compare(r) ==
  /\ at[r].stage = "compare"
  /\ IF tree = Patched(r, at[r].tested)
     THEN at' = [at EXCEPT ![r].stage = "commit", ![r].found = tree]
     ELSE Refuses(r)
  /\ UNCHANGED <<tree, ledger, lease, guard>> /\ Keeps

\* ProjectRevisionStore.commit: RevisionConflict when the last row is not the
\* base that was tested; the patch stays here too.
Commit(r) ==
  /\ at[r].stage = "commit"
  /\ IF ledger[Len(ledger)].tree = at[r].tested
     THEN /\ ledger' = Append(ledger,
               Row("CANDIDATE_COMMIT", at[r].found, r))
          /\ Returns(r, TRUE)
     ELSE /\ Refuses(r)
          /\ UNCHANGED ledger
  /\ UNCHANGED <<tree, lease, guard>> /\ Keeps

\* handoff.json becomes APPLIED and the OS lock is released.
Finish(r) ==
  /\ at[r].stage = "handoff"
  /\ handoff' = [handoff EXCEPT ![r] = "APPLIED"]
  /\ Fails(r)
  /\ UNCHANGED <<tree, edits, ledger, lease, attempts, crashes, unrestored>>

-----------------------------------------------------------------------------
\* The user edits a file.  The edit races a promotion when the file is between
\* its second reading and the end of apply_patch.
Edit(f) ==
  /\ Len(edits) < MaxEdits
  /\ tree' = [tree EXCEPT ![f] = @ \union {Len(edits) + 1}]
  /\ edits' = Append(edits, [file |-> f,
       raced |-> \E r \in Run : /\ at[r].stage \in {"apply", "write", "undo"}
                                /\ f \in at[r].written])
  /\ UNCHANGED <<ledger, lease, guard, handoff, at, attempts, crashes, unrestored>>

\* The process dies; the system releases its lock, nobody its lease.
Crash(r) ==
  /\ at[r].stage # "idle"
  /\ crashes < MaxCrashes /\ MayFail
  /\ crashes' = crashes + 1
  /\ Fails(r)
  /\ UNCHANGED <<tree, edits, ledger, lease, handoff, attempts, unrestored>>

Step(r) ==
  \/ ReadBase(r) \/ CheckScope(r) \/ Test(r) \/ Tested(r) \/ CheckMoved(r)
  \/ Acquire(r) \/ Observe(r) \/ Reconcile(r) \/ Retested(r)
  \/ Renew(r) \/ Prepare(r) \/ Recheck(r) \/ Write(r) \/ WriteFails(r)
  \/ Undo(r) \/ UndoFails(r) \/ Compare(r) \/ Commit(r) \/ Release(r) \/ Finish(r)

Next ==
  \/ \E r \in Run : Begin(r) \/ Step(r) \/ Crash(r)
  \/ \E f \in File : Edit(f)
  \/ Lapse \/ OtherAcquires \/ OtherReleases

Spec == Init /\ [][Next]_vars

\* A promotion that is alive goes on (its commands have a timeout): it waits
\* neither for a lease to lapse nor for operators, users or engines.
Fairness == \A r \in Run : WF_vars(Step(r))

FairSpec == Spec /\ Fairness

-----------------------------------------------------------------------------
(* Properties.                                                             *)

Commits == {i \in DOMAIN ledger : ledger[i].kind = "CANDIDATE_COMMIT"}

\* A committed revision is the previous revision with the patch and nothing
\* else, whatever the user did meanwhile: his edits are revisions of their own,
\* and the tree that is published is one that was tested as a whole.
LedgerIsExact ==
  \A i \in Commits : /\ i > 1
                     /\ ledger[i].tree = Patched(ledger[i].run, ledger[i - 1].tree)

\* A run is committed once, although a promotion that died between the commit
\* and the handoff is tried again.
CommittedOnce ==
  \A i, j \in Commits : ledger[i].run = ledger[j].run => i = j

\* The handoff says APPLIED only of a run whose commit is in the ledger and
\* whose patch is in every file it changes.
AppliedIsCommitted ==
  \A r \in Run : handoff[r] = "APPLIED" =>
    /\ \E i \in Commits : ledger[i].run = r
    /\ \A f \in Touched[r] : r \in tree[f]

\* Unless a promotion died, the checkout holds a patch whole once its promotion
\* is over, or in no file but those ROLLBACK_FAILED was reported of, whichever
\* files could not be written or put back.
AllOrNothing ==
  crashes = 0 => \A r \in Run : at[r].stage = "idle" =>
    LET patched == {f \in Touched[r] : r \in tree[f]}
    IN patched = Touched[r] \/ patched \subseteq unrestored[r]

\* The user loses no edit, except one made while apply_patch is on that file.
EditsSurvive ==
  \A n \in DOMAIN edits : edits[n].raced \/ n \in tree[edits[n].file]

\* The fencing tokens of the ledger grow: a later writer has a later lease.
FencesGrow ==
  \A i, j \in Commits : i < j => ledger[i].token < ledger[j].token

\* What every step maintains of the ledger: types, tested trees, one commit for
\* each run, the order of the leases, and the handoffs that rely on it.
PromotionInvariant ==
  TypeOK /\ LedgerIsExact /\ CommittedOnce /\ FencesGrow /\ AppliedIsCommitted

\* Every promotion ends, and with it the lock of the workspace.
EveryPromotionEnds ==
  \A r \in Run : at[r].stage # "idle" ~> at[r].stage = "idle" /\ guard # r

=============================================================================
