---------------------------- MODULE PromotionProofs ----------------------------
(***************************************************************************)
(* Proofs about Promotion, for every set of runs and files, whatever files *)
(* the patches share, and any number of edits, attempts, crashes, tokens.  *)
(*                                                                         *)
(* The argument.  The lock of the workspace lets one promotion work at a   *)
(* time (Mine), so while a patch is applied the user alone changes the     *)
(* checkout beside it, and what apply_patch read stays true of the files   *)
(* it holds (Patching); a promotion ends with its patch whole or in none   *)
(* but reported files (Reported). A patch is tested on a checkout without  *)
(* it (Early, Leased), and once committed it is in every file it changes   *)
(* (Mine): a second attempt ends at the check of the scope, so a run is    *)
(* committed once, and with a token no other commit has (Tokens).          *)
(***************************************************************************)
EXTENDS Promotion, TLAPS

Place == [stage: Stage, first: Tree, tested: Tree, found: Tree, token: Nat,
          left: SUBSET File, written: SUBSET File, ok: BOOLEAN]

Early == {"test", "testing", "moved", "lease"}
Leased == {"observe", "reconcile", "retest", "retesting", "settled", "prepare"}
Applies == {"apply", "write", "undo"}
Ends == {"release", "handoff"}

\* The stages of a promotion that may still commit.
Pending == Early \union Leased \union Applies \union {"compare", "commit"}

\* The patch of r is in every file it changes, in none, or in none but those
\* that could not be put back and were reported.
Whole(r) == \A f \in Touched[r] : r \in tree[f]
Without(r) == \A f \in Touched[r] : r \notin tree[f]
Reported(r) == \A f \in Touched[r] : r \in tree[f] => f \in unrestored[r]

Committed(r) == \E i \in Commits : ledger[i].run = r

\* While a patch is applied: what was read of a file lacks the patch, holds the
\* patches of the others and, once the file is taken, the edits of the user; a
\* file has the patch when it was written and not put back, or could not be.
Patching(r) ==
  /\ at[r].left \subseteq Touched[r]
  /\ \A f \in Touched[r] : /\ r \notin at[r].found[f]
                           /\ r \in tree[f] => f \in at[r].written \union unrestored[r]
  /\ at[r].stage # "undo" => \A f \in Touched[r] : r \in tree[f] <=> f \notin at[r].left
  /\ \A q \in Run \ {r}, f \in File : q \in at[r].found[f] <=> q \in tree[f]
  /\ \A n \in DOMAIN edits :
       (~edits[n].raced /\ edits[n].file \in at[r].written) => n \in at[r].found[edits[n].file]

\* What is true of a run and its promotion.
Mine(r) ==
  /\ at[r].stage # "idle" => guard = r
  /\ at[r].written \subseteq Touched[r]
  /\ at[r].stage \in Early \union Leased => Without(r)
  /\ at[r].stage \in Applies => Patching(r)
  /\ at[r].stage \in {"compare", "commit"} => Whole(r)
  /\ at[r].stage \in Ends => (Whole(r) \/ Reported(r))
  /\ (crashes = 0 /\ at[r].stage \in {"idle", "base", "scope"}) => (Whole(r) \/ Reported(r))
  /\ at[r].stage \in Pending => ~Committed(r)
  /\ (at[r].ok \/ at[r].stage = "handoff" \/ handoff[r] = "APPLIED") => Committed(r)
  /\ Committed(r) => Whole(r)
  /\ at[r].stage = "commit" => at[r].found = Patched(r, at[r].tested)
  /\ at[r].stage \in (Pending \ Early) \ {"observe"} => ledger # <<>>

\* The tokens of commits and promotions were drawn, the last one by its holder;
\* a promotion that may commit has a later one than any commit.
Tokens ==
  /\ lease.live => lease.holder # NoOne
  /\ \A i \in Commits :
       /\ ledger[i].token <= lease.token
       /\ ledger[i].token = lease.token => lease.holder \in {ledger[i].run, NoOne}
  /\ \A r \in Run : at[r].stage \in Pending \ Early =>
       /\ at[r].token <= lease.token
       /\ at[r].token = lease.token => lease.holder \in {r, NoOne}
       /\ \A i \in Commits : ledger[i].token < at[r].token

Ledger == LedgerIsExact /\ CommittedOnce /\ FencesGrow

IInv ==
  /\ TypeOK
  /\ \A r \in Run : Mine(r)
  /\ Tokens /\ Ledger /\ EditsSurvive

-----------------------------------------------------------------------------
(* Sequences, records and trees.                                           *)

\* A row appended to the ledger leaves the others.
LEMMA Appended ==
  ASSUME NEW S, NEW s \in Seq(S), NEW e \in S
  PROVE  /\ Append(s, e) \in Seq(S)
         /\ DOMAIN s = 1 .. Len(s) /\ Len(s) \in Nat
         /\ DOMAIN Append(s, e) = 1 .. Len(s) + 1
         /\ Len(Append(s, e)) = Len(s) + 1
         /\ \A i \in 1 .. Len(s) : Append(s, e)[i] = s[i] /\ s[i] \in S
         /\ Append(s, e)[Len(s) + 1] = e
  OBVIOUS

\* The rows of the ledger.
LEMMA Rows ==
  ASSUME TypeOK
  PROVE  /\ ledger \in Seq(Revision)
         /\ DOMAIN ledger = 1 .. Len(ledger) /\ Len(ledger) \in Nat
         /\ \A i \in Commits : i \in 1 .. Len(ledger) /\ ledger[i].token \in Nat
  <1>1. ledger \in Seq(Revision)
    BY DEF TypeOK
  <1>2. DOMAIN ledger = 1 .. Len(ledger) /\ Len(ledger) \in Nat
        /\ \A i \in 1 .. Len(ledger) : ledger[i] \in Revision
    BY <1>1
  <1> QED BY <1>1, <1>2 DEF Commits, Revision

\* An element of a sequence.
LEMMA Element ==
  ASSUME NEW S, NEW s \in Seq(S), NEW i \in DOMAIN s
  PROVE  s[i] \in S
  OBVIOUS

\* Every edit names a file.
LEMMA Marks ==
  ASSUME TypeOK
  PROVE  \A i \in DOMAIN edits : edits[i].file \in File
  <1> DEFINE E == [file: File, raced: BOOLEAN]
  <1>1. edits \in Seq(E)
    BY DEF TypeOK
  <1>2. \A e \in E : e.file \in File
    OBVIOUS
  <1> HIDE DEF E
  <1> QED BY <1>1, <1>2, Element

\* Trees stay trees.
LEMMA Trees ==
  ASSUME TypeOK, NEW r \in Run
  PROVE  /\ Baseline \in Tree /\ Away \in Place
         /\ \A t \in Tree : Patched(r, t) \in Tree
         /\ Touched[r] \subseteq File /\ Touched[r] # {}
         /\ at \in [Run -> Place] /\ at[r] \in Place
         /\ r # NoOne /\ r # Other
  <1>1. Baseline \in Tree
    BY DEF Baseline, Tree
  <1>2. Away \in Place
    BY <1>1 DEF Away, Place, Stage
  <1>3. \A t \in Tree : Patched(r, t) \in Tree
    BY DEF Patched, Tree, Change
  <1>4. Touched[r] \subseteq File /\ Touched[r] # {} /\ r # NoOne /\ r # Other
    BY PromotionAssumption DEF PromotionAssumption
  <1>5. at \in [Run -> Place] /\ at[r] \in Place
    BY DEF TypeOK, Place
  <1> QED BY <1>1, <1>2, <1>3, <1>4, <1>5

\* A step of one promotion at one stage.
LEMMA GoesTo ==
  ASSUME TypeOK, NEW r \in Run, NEW stage \in Stage, Goes(r, stage)
  PROVE  /\ at' \in [Run -> Place]
         /\ at'[r].stage = stage /\ at'[r].tested = at[r].tested
         /\ at'[r].found = at[r].found /\ at'[r].token = at[r].token
         /\ at'[r].left = at[r].left /\ at'[r].written = at[r].written
         /\ at'[r].ok = at[r].ok
         /\ \A q \in Run : q # r => at'[q] = at[q]
  <1>1. at'[r] = [at[r] EXCEPT !.stage = stage] /\ \A q \in Run : q # r => at'[q] = at[q]
    BY DEF Goes, TypeOK
  <1>2. at[r] \in Place /\ at \in [Run -> Place]
    BY Trees
  <1>3. at'[r] \in Place
    BY <1>1, <1>2 DEF Place
  <1>4. at' \in [Run -> Place]
    BY <1>1, <1>2, <1>3 DEF Goes
  <1> QED BY <1>1, <1>2, <1>4 DEF Place

\* integrate returns.
LEMMA ReturnsTo ==
  ASSUME TypeOK, NEW r \in Run, NEW ok \in BOOLEAN, Returns(r, ok)
  PROVE  /\ at' \in [Run -> Place]
         /\ at'[r].stage = "release" /\ at'[r].ok = ok
         /\ at'[r].token = at[r].token /\ at'[r].written = {}
         /\ \A q \in Run : q # r => at'[q] = at[q]
  <1> DEFINE new == [Away EXCEPT !.stage = "release", !.ok = ok, !.token = at[r].token]
  <1>1. at[r] \in Place /\ at \in [Run -> Place] /\ Away \in Place
    BY Trees
  <1>2. /\ new \in Place
        /\ new.stage = "release" /\ new.ok = ok /\ new.token = at[r].token
        /\ new.written = {}
    BY <1>1 DEF Place, Stage, Away
  <1>3. at' = [at EXCEPT ![r] = new]
    BY DEF Returns
  <1> HIDE DEF new
  <1>4. at'[r] = new /\ \A q \in Run : q # r => at'[q] = at[q]
    BY <1>1, <1>3
  <1> QED BY <1>1, <1>2, <1>3, <1>4

\* A promotion that is given up.
LEMMA GivenUp ==
  ASSUME TypeOK, NEW r \in Run, Fails(r)
  PROVE  /\ at' \in [Run -> Place] /\ guard' = NoOne
         /\ at'[r].stage = "idle" /\ at'[r].ok = FALSE /\ at'[r].written = {}
         /\ \A q \in Run : q # r => at'[q] = at[q]
  <1>1. at'[r] = Away /\ \A q \in Run : q # r => at'[q] = at[q]
    BY DEF Fails, TypeOK
  <1>2. at' \in [Run -> Place]
    BY Trees DEF Fails
  <1> QED BY <1>1, <1>2 DEF Fails, Away

-----------------------------------------------------------------------------
(* Frames.                                                                 *)

\* A step that leaves a run alone: its promotion is over or goes on elsewhere.
Aside(q) ==
  /\ at'[q] = at[q] /\ handoff'[q] = handoff[q] /\ unrestored'[q] = unrestored[q]
  /\ crashes' = 0 => crashes = 0
  /\ Committed(q)' = Committed(q)
  /\ \A f \in Touched[q] : q \in tree'[f] <=> q \in tree[f]

\* Only the holder of the lock promotes.
LEMMA Alone ==
  ASSUME NEW r \in Run, NEW q \in Run, Mine(r), Mine(q), at[r].stage # "idle", q # r
  PROVE  at[q].stage = "idle"
  BY DEF Mine

\* A run that is left alone keeps what is true of it.
LEMMA AsideKeeps ==
  ASSUME NEW q \in Run, Mine(q), at[q].stage = "idle", Aside(q)
  PROVE  Mine(q)'
  <1>1. (Whole(q) => Whole(q)') /\ (Reported(q) => Reported(q)')
    BY DEF Aside, Whole, Reported
  <1>2. at'[q].stage \notin Pending \union Ends \union {"base", "scope"}
    BY DEF Aside, Pending, Early, Leased, Applies, Ends
  <1>3. Mine(q)' <=>
          /\ at'[q].written \subseteq Touched[q]
          /\ at'[q].stage # "idle" => guard' = q
          /\ (crashes' = 0 => (Whole(q)' \/ Reported(q)'))
          /\ (at'[q].ok \/ handoff'[q] = "APPLIED") => Committed(q)'
          /\ Committed(q)' => Whole(q)'
    BY <1>2 DEF Mine, Pending, Early, Leased, Applies, Ends, Aside
  <1> QED BY <1>1, <1>3 DEF Mine, Aside

\* Commits, and the rows they rest on, stay.
LedgerKeeps ==
  /\ Commits' = Commits
  /\ \A i \in Commits : /\ ledger'[i] = ledger[i]
                        /\ i > 1 => ledger'[i - 1] = ledger[i - 1]
  /\ ledger # <<>> => ledger' # <<>>

\* A step without a commit keeps the ledger as it should be.
LEMMA LedgerStays ==
  ASSUME Ledger, LedgerKeeps
  PROVE  Ledger' /\ \A q \in Run : Committed(q)' = Committed(q)
  <1>1. LedgerIsExact'
    BY DEF Ledger, LedgerIsExact, LedgerKeeps, Patched
  <1>2. CommittedOnce' /\ FencesGrow'
    BY DEF Ledger, CommittedOnce, FencesGrow, LedgerKeeps
  <1>3. ASSUME NEW q \in Run
        PROVE  Committed(q)' = Committed(q)
    BY DEF Committed, LedgerKeeps
  <1> QED BY <1>1, <1>2, <1>3 DEF Ledger

\* The tokens of commits stay drawn while lease and ledger do.
TokensKeep ==
  /\ UNCHANGED lease /\ LedgerKeeps
  /\ \A r \in Run : at'[r].stage \in Pending \ Early =>
       (at[r].stage \in Pending \ Early /\ at'[r].token = at[r].token)

\* A step that draws no token and records no commit.
LEMMA TokensStay ==
  ASSUME Tokens, TokensKeep
  PROVE  Tokens'
  BY DEF Tokens, TokensKeep, LedgerKeeps

\* A run whose patch is in no file is not committed.
LEMMA Absent ==
  ASSUME TypeOK, NEW r \in Run, Mine(r), Without(r)
  PROVE  ~Committed(r)
  <1>1. PICK f \in Touched[r] : TRUE
    BY Trees
  <1> QED BY <1>1 DEF Mine, Whole, Without

\* What a step of a promotion must do: its own run, the others left alone.
LEMMA RunStep ==
  ASSUME IInv, NEW r \in Run, at[r].stage # "idle" \/ guard = NoOne,
         TypeOK', Mine(r)', Tokens', Ledger', EditsSurvive',
         \A q \in Run : q # r => Aside(q)
  PROVE  IInv'
  <1>1. ASSUME NEW q \in Run, q # r
        PROVE  Mine(q)'
    <2>1. at[q].stage = "idle"
      BY <1>1, Alone, Trees DEF IInv, Mine
    <2> QED BY <1>1, <2>1, AsideKeeps DEF IInv
  <1> QED BY <1>1 DEF IInv

\* A step of a promotion that changes neither tree, ledger nor lease.
Local(r) ==
  /\ UNCHANGED <<tree, edits, ledger, lease>>
  /\ at' \in [Run -> Place] /\ \A q \in Run : q # r => at'[q] = at[q]
  /\ guard' \in Run \union {NoOne}
  /\ handoff' \in [Run -> {"CANDIDATE_READY", "APPLIED"}]
  /\ \A q \in Run : q # r => handoff'[q] = handoff[q]
  /\ attempts' \in [Run -> Nat]
  /\ crashes' \in 0 .. MaxCrashes /\ (crashes' = 0 => crashes = 0)
  /\ unrestored' \in [Run -> SUBSET File] /\ unrestored[r] \subseteq unrestored'[r]
  /\ \A q \in Run : q # r => unrestored'[q] = unrestored[q]
  /\ at'[r].stage \in Pending \ Early =>
       (at[r].stage \in Pending \ Early /\ at'[r].token = at[r].token)

\* Nothing is committed, patched or drawn by it.
LEMMA LocalFrame ==
  ASSUME IInv, NEW r \in Run, Local(r)
  PROVE  /\ Whole(r)' = Whole(r) /\ Without(r)' = Without(r)
         /\ (Reported(r) => Reported(r)') /\ (Without(r) => Reported(r))
         /\ Committed(r)' = Committed(r) /\ (ledger # <<>>)' = (ledger # <<>>)
         /\ Without(r) => ~Committed(r)
  BY Absent DEF Local, Whole, Without, Reported, Committed, Commits, IInv

\* Such a step maintains the invariant when it does so for its run.
LEMMA LocalStep ==
  ASSUME IInv, NEW r \in Run, at[r].stage # "idle" \/ guard = NoOne, Local(r), Mine(r)'
  PROVE  IInv'
  <1>1. TypeOK'
    BY DEF IInv, TypeOK, Local, Place, Tree
  <1>2. LedgerKeeps
    BY DEF LedgerKeeps, Local, Commits
  <1>3. Ledger'
    BY <1>2, LedgerStays DEF IInv
  <1>4. Tokens'
    BY <1>2, TokensStay DEF IInv, Local, TokensKeep
  <1>5. EditsSurvive'
    BY DEF IInv, EditsSurvive, Local
  <1>6. ASSUME NEW q \in Run, q # r
        PROVE  Aside(q)
    <2>1. Committed(q)' = Committed(q)
      BY <1>2, LedgerStays DEF IInv
    <2> QED BY <1>6, <2>1 DEF Aside, Local
  <1> QED BY <1>1, <1>3, <1>4, <1>5, <1>6, RunStep

-----------------------------------------------------------------------------
(* The steps that change neither tree, ledger nor lease.                   *)

\* A promotion is given up before the patch is applied, or after all is done.
LEMMA FailsKeeps ==
  ASSUME IInv, NEW r \in Run, Fails(r), UNCHANGED <<tree, ledger, lease>>, Keeps,
         at[r].stage \in {"scope"} \union Early \union Ends
  PROVE  IInv'
  <1>1. TypeOK /\ Mine(r)
    BY DEF IInv
  <1>2. /\ at' \in [Run -> Place] /\ guard' = NoOne
        /\ at'[r].stage = "idle" /\ at'[r].ok = FALSE /\ at'[r].written = {}
        /\ \A q \in Run : q # r => at'[q] = at[q]
    BY <1>1, GivenUp
  <1>3. Local(r)
    BY <1>1, <1>2 DEF Local, Keeps, TypeOK, Pending, Early, Leased, Applies
  <1>4. /\ Whole(r)' = Whole(r) /\ Without(r)' = Without(r)
        /\ (Reported(r) => Reported(r)') /\ (Without(r) => Reported(r))
        /\ Committed(r)' = Committed(r)
    BY <1>3, LocalFrame
  <1>5. Mine(r)'
    BY <1>1, <1>2, <1>4 DEF Mine, Keeps, Pending, Early, Leased, Applies, Ends
  <1>6. at[r].stage # "idle"
    BY DEF Early, Ends
  <1> QED BY <1>3, <1>5, <1>6, LocalStep

\* A promotion whose patch is in no file goes on, or is refused.
LEMMA WithoutKeeps ==
  ASSUME IInv, NEW r \in Run, UNCHANGED <<tree, ledger, lease, guard>>, Keeps,
         at[r].stage # "idle", Without(r),
         at' \in [Run -> Place], \A q \in Run : q # r => at'[q] = at[q],
         at'[r].stage \in Early \union Leased \union {"release"},
         at'[r].written \in {at[r].written, {}}, at'[r].ok \in {at[r].ok, FALSE},
         at'[r].token = at[r].token,
         at'[r].stage \in Early \/ at[r].stage \in Leased \/ at'[r].stage = "release",
         at'[r].stage \in Leased \ {"observe"} => ledger # <<>>
  PROVE  IInv'
  <1>1. TypeOK /\ Mine(r)
    BY DEF IInv
  <1>2. Local(r)
    BY <1>1 DEF Local, Keeps, TypeOK, Pending, Early, Leased, Applies
  <1>3. /\ Whole(r)' = Whole(r) /\ Without(r)' = Without(r)
        /\ (Reported(r) => Reported(r)') /\ (Without(r) => Reported(r))
        /\ Committed(r)' = Committed(r) /\ ~Committed(r)
    BY <1>2, LocalFrame
  <1>4. handoff'[r] = handoff[r] /\ guard' = guard /\ ledger' = ledger
    BY DEF Keeps
  <1>5. at'[r].stage \notin Applies \union {"compare", "commit", "idle", "base", "scope", "handoff"}
    BY DEF Early, Leased, Applies
  <1>6. Mine(r)'
    BY <1>1, <1>3, <1>4, <1>5 DEF Mine, Pending, Early, Leased, Applies, Ends
  <1> QED BY <1>2, <1>6, LocalStep

\* A promotion is refused before its patch is applied.
LEMMA RefusedWithout ==
  ASSUME IInv, NEW r \in Run, UNCHANGED <<tree, ledger, lease, guard>>, Keeps,
         at[r].stage \in Leased, Refuses(r)
  PROVE  IInv'
  <1>1. TypeOK /\ Mine(r) /\ Without(r)
    BY DEF IInv, Mine
  <1>2. /\ at' \in [Run -> Place]
        /\ at'[r].stage = "release" /\ at'[r].ok = FALSE /\ at'[r].written = {}
        /\ at'[r].token = at[r].token /\ \A q \in Run : q # r => at'[q] = at[q]
    BY <1>1, ReturnsTo DEF Refuses
  <1> QED BY <1>1, <1>2, WithoutKeeps DEF Early, Leased

\* A promotion begins.
LEMMA Begins ==
  ASSUME IInv, NEW r \in Run, Begin(r)
  PROVE  IInv'
  <1>1. TypeOK /\ Mine(r) /\ at[r].stage = "idle" /\ guard = NoOne
    BY DEF IInv, Begin
  <1>2. "base" \in Stage /\ Goes(r, "base")
    BY DEF Stage, Begin
  <1>3. /\ at' \in [Run -> Place]
        /\ at'[r].stage = "base" /\ at'[r].ok = at[r].ok /\ at'[r].written = at[r].written
        /\ \A q \in Run : q # r => at'[q] = at[q]
    BY <1>1, <1>2, GoesTo
  <1>4. attempts' \in [Run -> Nat]
    BY <1>1 DEF Begin, TypeOK
  <1>5. Local(r)
    BY <1>1, <1>3, <1>4 DEF Local, Begin, TypeOK, Pending, Early, Leased, Applies
  <1>6. /\ Whole(r)' = Whole(r) /\ Without(r)' = Without(r)
        /\ (Reported(r) => Reported(r)') /\ (Without(r) => Reported(r))
        /\ Committed(r)' = Committed(r)
    BY <1>5, LocalFrame
  <1>7. Mine(r)'
    BY <1>1, <1>3, <1>6 DEF Mine, Begin, Pending, Early, Leased, Applies, Ends
  <1> QED BY <1>1, <1>5, <1>7, LocalStep

\* The checkout is the baseline or what changed is looked at; the patch is
\* tested only where it is in no file.
LEMMA ReadsBase ==
  ASSUME IInv, NEW r \in Run, ReadBase(r) \/ CheckScope(r)
  PROVE  IInv'
  <1>1. TypeOK /\ Mine(r) /\ at[r].stage \in {"base", "scope"}
    BY DEF IInv, ReadBase, CheckScope
  <1>2. Touched[r] \subseteq File
    BY <1>1, Trees
  <1>3. CASE ReadBase(r)
    <2> DEFINE s == IF tree = Baseline THEN "test" ELSE "scope"
    <2>1. s \in Stage
      BY DEF Stage
    <2>2. at' = [at EXCEPT ![r].first = tree, ![r].stage = s]
      BY <1>3 DEF ReadBase
    <2> HIDE DEF s
    <2>3. at'[r] = [at[r] EXCEPT !.first = tree, !.stage = s]
          /\ \A q \in Run : q # r => at'[q] = at[q]
      BY <1>1, <2>2 DEF TypeOK
    <2>4. at[r] \in Place /\ at \in [Run -> Place] /\ tree \in Tree
      BY <1>1, Trees DEF TypeOK
    <2>5. at'[r] \in Place
      BY <2>1, <2>3, <2>4 DEF Place
    <2>6. /\ at' \in [Run -> Place]
          /\ at'[r].stage = s /\ at'[r].ok = at[r].ok /\ at'[r].written = at[r].written
          /\ at'[r].token = at[r].token
      BY <2>2, <2>3, <2>4, <2>5 DEF Place
    <2>7. CASE tree = Baseline
      <3>1. Without(r)
        BY <1>2, <2>7 DEF Baseline, Without
      <3>2. s = "test"
        BY <2>7 DEF s
      <3> QED BY <1>1, <1>3, <2>3, <2>6, <3>1, <3>2, WithoutKeeps DEF ReadBase, Early, Leased
    <2>8. CASE tree # Baseline
      <3>1. s = "scope"
        BY <2>8 DEF s
      <3>2. Local(r)
        BY <1>1, <1>3, <2>3, <2>6, <3>1 DEF Local, ReadBase, Keeps, TypeOK, Pending, Early, Leased, Applies
      <3>3. /\ Whole(r)' = Whole(r) /\ Without(r)' = Without(r)
            /\ (Reported(r) => Reported(r)') /\ (Without(r) => Reported(r))
            /\ Committed(r)' = Committed(r)
        BY <3>2, LocalFrame
      <3>4. Mine(r)'
        BY <1>1, <1>3, <2>6, <3>1, <3>3 DEF Mine, ReadBase, Keeps, Pending, Early, Leased, Applies, Ends
      <3> QED BY <1>1, <3>2, <3>4, LocalStep
    <2> QED BY <2>7, <2>8
  <1>4. CASE CheckScope(r)
    <2>1. CASE SameScope(r, Baseline)
      <3>1. Without(r)
        BY <1>2, <2>1 DEF SameScope, Baseline, Without
      <3>2. "test" \in Stage /\ Goes(r, "test") /\ UNCHANGED guard
        BY <1>4, <2>1 DEF Stage, CheckScope
      <3>3. /\ at' \in [Run -> Place]
            /\ at'[r].stage = "test" /\ at'[r].ok = at[r].ok /\ at'[r].written = at[r].written
            /\ at'[r].token = at[r].token /\ \A q \in Run : q # r => at'[q] = at[q]
        BY <1>1, <3>2, GoesTo
      <3> QED BY <1>1, <1>4, <3>1, <3>2, <3>3, WithoutKeeps DEF CheckScope, Early, Leased
    <2>2. CASE ~SameScope(r, Baseline)
      BY <1>4, <2>2, FailsKeeps DEF CheckScope
    <2> QED BY <2>1, <2>2
  <1> QED BY <1>3, <1>4

\* The steps between two tests of a patch that is in no file.
LEMMA TestsKeep ==
  ASSUME IInv, NEW r \in Run,
         Test(r) \/ Tested(r) \/ CheckMoved(r) \/ Reconcile(r) \/ Retested(r) \/ Renew(r)
  PROVE  IInv'
  <1>1. TypeOK /\ Mine(r)
    BY DEF IInv
  <1>2. ASSUME NEW s \in Stage, Goes(r, s), UNCHANGED <<tree, ledger, lease, guard>>, Keeps,
               at[r].stage \in Early \union Leased,
               \/ s \in Early
               \/ s \in Leased \ {"observe"} /\ at[r].stage \in Leased \ {"observe"}
        PROVE  IInv'
    <2>1. /\ at' \in [Run -> Place]
          /\ at'[r].stage = s /\ at'[r].ok = at[r].ok /\ at'[r].written = at[r].written
          /\ at'[r].token = at[r].token /\ \A q \in Run : q # r => at'[q] = at[q]
      BY <1>1, <1>2, GoesTo
    <2>2. Without(r) /\ at[r].stage # "idle"
      BY <1>1, <1>2 DEF Mine, Early, Leased
    <2>3. s \in Leased \ {"observe"} => (ledger # <<>> /\ at[r].stage \in Leased)
      BY <1>1, <1>2 DEF Mine, Pending, Early, Leased
    <2>4. s \in Early \union Leased
      BY <1>2
    <2>5. s \in Early \/ at[r].stage \in Leased
      BY <1>2
    <2>6. at'[r].stage \in Early \union Leased \union {"release"}
      BY <2>1, <2>4
    <2>7. at'[r].stage \in Early \/ at[r].stage \in Leased \/ at'[r].stage = "release"
      BY <2>1, <2>5
    <2>8. at'[r].stage \in Leased \ {"observe"} => ledger # <<>>
      BY <2>1, <2>3
    <2> QED BY <1>2, <2>1, <2>2, <2>6, <2>7, <2>8, WithoutKeeps
  <1>3. CASE Test(r)
    <2> DEFINE s == IF at[r].stage = "test" THEN "testing" ELSE "retesting"
    <2>1. at[r] \in Place /\ at \in [Run -> Place] /\ tree \in Tree
      BY <1>1, Trees DEF TypeOK
    <2>2. at' = [at EXCEPT ![r] = [at[r] EXCEPT !.tested = tree, !.stage = s]]
      BY <1>3, <2>1 DEF Test
    <2>3. s \in Stage
      BY DEF Stage
    <2>4. \/ s = "testing" /\ at[r].stage = "test"
          \/ s = "retesting" /\ at[r].stage = "retest"
      BY <1>3 DEF Test
    <2> HIDE DEF s
    <2>5. at'[r] = [at[r] EXCEPT !.tested = tree, !.stage = s]
          /\ \A q \in Run : q # r => at'[q] = at[q]
      BY <2>1, <2>2
    <2>6. at'[r] \in Place
      BY <2>1, <2>3, <2>5 DEF Place
    <2>7. /\ at' \in [Run -> Place]
          /\ at'[r].stage = s /\ at'[r].ok = at[r].ok /\ at'[r].written = at[r].written
          /\ at'[r].token = at[r].token
      BY <2>1, <2>2, <2>5, <2>6 DEF Place
    <2>8. Without(r)
      BY <1>1, <2>4 DEF Mine, Early, Leased
    <2>9. s = "retesting" => ledger # <<>>
      BY <1>1, <2>4 DEF Mine, Pending, Early, Leased
    <2> QED BY <1>3, <2>4, <2>5, <2>7, <2>8, <2>9, WithoutKeeps DEF Test, Early, Leased
  <1>4. CASE Tested(r)
    BY <1>2, <1>4, FailsKeeps DEF Tested, Early, Leased, Stage
  <1>5. CASE CheckMoved(r)
    BY <1>2, <1>5, FailsKeeps DEF CheckMoved, Early, Leased, Stage
  <1>6. CASE Reconcile(r)
    BY <1>2, <1>6, RefusedWithout DEF Reconcile, Early, Leased, Stage
  <1>7. CASE Retested(r)
    BY <1>2, <1>7, RefusedWithout DEF Retested, Early, Leased, Stage
  <1>8. CASE Renew(r)
    BY <1>2, <1>8, RefusedWithout DEF Renew, Early, Leased, Stage
  <1> QED BY <1>3, <1>4, <1>5, <1>6, <1>7, <1>8

\* apply_patch reads the files of the patch.
LEMMA Prepares ==
  ASSUME IInv, NEW r \in Run, Prepare(r)
  PROVE  IInv'
  <1>1. TypeOK /\ Mine(r) /\ at[r].stage = "prepare" /\ Without(r)
    BY DEF IInv, Prepare, Mine, Early, Leased
  <1>2. at[r] \in Place /\ at \in [Run -> Place] /\ tree \in Tree /\ Touched[r] \subseteq File
    BY <1>1, Trees DEF TypeOK
  <1>3. CASE Refuses(r)
    BY <1>1, <1>3, RefusedWithout DEF Prepare, Leased
  <1>4. CASE at' = [at EXCEPT ![r].stage = "apply", ![r].found = tree, ![r].left = Touched[r]]
    <2>1. at'[r] = [at[r] EXCEPT !.stage = "apply", !.found = tree, !.left = Touched[r]]
          /\ \A q \in Run : q # r => at'[q] = at[q]
      BY <1>2, <1>4
    <2>2. at'[r] \in Place
      BY <1>2, <2>1 DEF Place, Stage
    <2>3. /\ at' \in [Run -> Place]
          /\ at'[r].stage = "apply" /\ at'[r].found = tree /\ at'[r].left = Touched[r]
          /\ at'[r].ok = at[r].ok /\ at'[r].written = at[r].written
          /\ at'[r].token = at[r].token
      BY <1>2, <1>4, <2>1, <2>2 DEF Place
    <2>4. Local(r)
      BY <1>1, <2>1, <2>3 DEF Local, Prepare, Keeps, TypeOK, Pending, Early, Leased, Applies
    <2>5. /\ Whole(r)' = Whole(r) /\ Without(r)' = Without(r)
          /\ (Reported(r) => Reported(r)') /\ (Without(r) => Reported(r))
          /\ Committed(r)' = Committed(r) /\ ~Committed(r)
          /\ (ledger # <<>>)' = (ledger # <<>>)
      BY <1>1, <2>4, LocalFrame
    <2>6. Patching(r)'
      <3>1. tree' = tree /\ edits' = edits
        BY <2>4 DEF Local
      <3>2. \A n \in DOMAIN edits : ~edits[n].raced => n \in tree[edits[n].file]
        BY DEF IInv, EditsSurvive
      <3> QED BY <1>1, <2>3, <3>1, <3>2 DEF Patching, Without
    <2>7. Mine(r)'
      BY <1>1, <2>3, <2>5, <2>6 DEF Mine, Prepare, Keeps, Pending, Early, Leased, Applies, Ends
    <2> QED BY <1>1, <2>4, <2>7, LocalStep
  <1> QED BY <1>3, <1>4 DEF Prepare

\* A file is read again and taken, or the patch is undone.
LEMMA Rechecks ==
  ASSUME IInv, NEW r \in Run, Recheck(r) \/ WriteFails(r)
  PROVE  IInv'
  <1>1. TypeOK /\ Mine(r) /\ at[r].stage \in {"apply", "write"} /\ Patching(r)
    BY DEF IInv, Recheck, WriteFails, Mine, Applies
  <1>2. at[r] \in Place /\ at \in [Run -> Place]
    BY <1>1, Trees DEF TypeOK
  <1>3. UNCHANGED <<tree, ledger, lease, guard>> /\ Keeps
    BY DEF Recheck, WriteFails
  <1>4. ASSUME NEW s \in {"write", "undo"}, NEW w \in SUBSET Touched[r],
               at[r].written \subseteq w,
               \A f \in w : f \in at[r].written \/ tree[f] = at[r].found[f],
               at' \in [Run -> Place], \A q \in Run : q # r => at'[q] = at[q],
               at'[r].stage = s, at'[r].written = w, at'[r].left = at[r].left,
               at'[r].found = at[r].found, at'[r].token = at[r].token, at'[r].ok = at[r].ok
        PROVE  IInv'
    <2>1. Local(r)
      BY <1>1, <1>3, <1>4 DEF Local, Keeps, TypeOK, Pending, Early, Leased, Applies
    <2>2. /\ Whole(r)' = Whole(r) /\ Without(r)' = Without(r)
          /\ (Reported(r) => Reported(r)') /\ (Without(r) => Reported(r))
          /\ Committed(r)' = Committed(r) /\ (ledger # <<>>)' = (ledger # <<>>)
      BY <2>1, LocalFrame
    <2>3. \A n \in DOMAIN edits :
            (~edits[n].raced /\ edits[n].file \in w) => n \in at[r].found[edits[n].file]
      BY <1>1, <1>4 DEF IInv, EditsSurvive, Patching
    <2>4. Patching(r)'
      BY <1>1, <1>3, <1>4, <2>3 DEF Patching, Keeps
    <2>5. Mine(r)'
      BY <1>1, <1>3, <1>4, <2>2, <2>4 DEF Mine, Keeps, Pending, Early, Leased, Applies, Ends
    <2> QED BY <1>1, <2>1, <2>5, LocalStep
  <1>5. CASE Goes(r, "undo")
    <2>1. "undo" \in Stage
      BY DEF Stage
    <2>2. at[r].written \in SUBSET Touched[r]
      BY <1>1 DEF Mine
    <2>3. /\ at' \in [Run -> Place] /\ \A q \in Run : q # r => at'[q] = at[q]
          /\ at'[r].stage = "undo" /\ at'[r].written = at[r].written /\ at'[r].left = at[r].left
          /\ at'[r].found = at[r].found /\ at'[r].token = at[r].token /\ at'[r].ok = at[r].ok
      BY <1>1, <1>5, <2>1, GoesTo
    <2> QED BY <1>4, <2>2, <2>3
  <1>6. ASSUME NEW f \in at[r].left, tree[f] = at[r].found[f],
               at' = [at EXCEPT ![r].stage = "write", ![r].written = @ \union {f}]
        PROVE  IInv'
    <2> DEFINE w == at[r].written \union {f}
    <2>1. f \in Touched[r] /\ w \in SUBSET Touched[r] /\ Touched[r] \subseteq File
      BY <1>1, <1>6, Trees DEF Mine, Patching
    <2>2. at' = [at EXCEPT ![r] = [at[r] EXCEPT !.stage = "write", !.written = w]]
      BY <1>2, <1>6
    <2>3. at[r].written \subseteq w /\ \A g \in w : g \in at[r].written \/ tree[g] = at[r].found[g]
      BY <1>6
    <2> HIDE DEF w
    <2>4. at'[r] = [at[r] EXCEPT !.stage = "write", !.written = w]
          /\ \A q \in Run : q # r => at'[q] = at[q]
      BY <1>2, <2>2
    <2>5. at'[r] \in Place
      BY <1>2, <2>1, <2>4 DEF Place, Stage
    <2>6. /\ at' \in [Run -> Place]
          /\ at'[r].stage = "write" /\ at'[r].written = w /\ at'[r].left = at[r].left
          /\ at'[r].found = at[r].found /\ at'[r].token = at[r].token /\ at'[r].ok = at[r].ok
      BY <1>2, <2>2, <2>4, <2>5 DEF Place
    <2> QED BY <1>4, <2>1, <2>3, <2>4, <2>6
  <1>7. CASE Recheck(r)
    BY <1>5, <1>6, <1>7 DEF Recheck
  <1>8. CASE WriteFails(r)
    BY <1>5, <1>8 DEF WriteFails
  <1> QED BY <1>7, <1>8

\* The tree is what was tested with the patch, or the promotion is refused.
LEMMA Compares ==
  ASSUME IInv, NEW r \in Run, Compare(r)
  PROVE  IInv'
  <1>1. TypeOK /\ Mine(r) /\ at[r].stage = "compare" /\ Whole(r)
    BY DEF IInv, Compare, Mine
  <1>2. at[r] \in Place /\ at \in [Run -> Place] /\ tree \in Tree
    BY <1>1, Trees DEF TypeOK
  <1>3. UNCHANGED <<tree, ledger, lease, guard>> /\ Keeps
    BY DEF Compare
  <1>4. CASE tree = Patched(r, at[r].tested)
    <2>1. at' = [at EXCEPT ![r].stage = "commit", ![r].found = tree]
      BY <1>4 DEF Compare
    <2>2. at'[r] = [at[r] EXCEPT !.stage = "commit", !.found = tree]
          /\ \A q \in Run : q # r => at'[q] = at[q]
      BY <1>2, <2>1
    <2>3. at'[r] \in Place
      BY <1>2, <2>2 DEF Place, Stage
    <2>4. /\ at' \in [Run -> Place]
          /\ at'[r].stage = "commit" /\ at'[r].found = tree /\ at'[r].tested = at[r].tested
          /\ at'[r].ok = at[r].ok /\ at'[r].written = at[r].written
          /\ at'[r].token = at[r].token
      BY <1>2, <2>1, <2>2, <2>3 DEF Place
    <2>5. Local(r)
      BY <1>1, <1>3, <2>2, <2>4 DEF Local, Keeps, TypeOK, Pending, Early, Leased, Applies
    <2>6. /\ Whole(r)' = Whole(r) /\ Without(r)' = Without(r)
          /\ (Reported(r) => Reported(r)') /\ (Without(r) => Reported(r))
          /\ Committed(r)' = Committed(r) /\ (ledger # <<>>)' = (ledger # <<>>)
      BY <2>5, LocalFrame
    <2>7. at'[r].found = Patched(r, at'[r].tested)
      BY <1>4, <2>4
    <2>8. Patched(r, at[r].tested)' = Patched(r, at'[r].tested)
      BY DEF Patched
    <2>9. Mine(r)'
      BY <1>1, <1>3, <2>4, <2>6, <2>7, <2>8 DEF Mine, Keeps, Pending, Early, Leased, Applies, Ends
    <2> QED BY <1>1, <2>5, <2>9, LocalStep
  <1>5. CASE Refuses(r) /\ ~(tree = Patched(r, at[r].tested))
    <2>1. Returns(r, FALSE)
      BY <1>5 DEF Refuses
    <2>2. /\ at' \in [Run -> Place]
          /\ at'[r].stage = "release" /\ at'[r].ok = FALSE /\ at'[r].written = {}
          /\ at'[r].token = at[r].token /\ \A q \in Run : q # r => at'[q] = at[q]
      BY <1>1, <2>1, ReturnsTo
    <2>3. Local(r)
      BY <1>1, <1>3, <2>2 DEF Local, Keeps, TypeOK, Pending, Early, Leased, Applies
    <2>4. /\ Whole(r)' = Whole(r) /\ Without(r)' = Without(r)
          /\ (Reported(r) => Reported(r)') /\ (Without(r) => Reported(r))
          /\ Committed(r)' = Committed(r)
      BY <2>3, LocalFrame
    <2>5. Mine(r)'
      BY <1>1, <1>3, <2>2, <2>4 DEF Mine, Keeps, Pending, Early, Leased, Applies, Ends
    <2> QED BY <1>1, <2>3, <2>5, LocalStep
  <1> QED BY <1>4, <1>5 DEF Compare

\* The handoff becomes APPLIED, or the promotion dies.
LEMMA Leaves ==
  ASSUME IInv, NEW r \in Run, Finish(r) \/ Crash(r)
  PROVE  IInv'
  <1>1. TypeOK /\ Mine(r) /\ at[r].stage # "idle"
    BY DEF IInv, Finish, Crash
  <1>2. Fails(r) /\ UNCHANGED <<tree, edits, ledger, lease, attempts, unrestored>>
    BY DEF Finish, Crash
  <1>3. /\ at' \in [Run -> Place] /\ guard' = NoOne
        /\ at'[r].stage = "idle" /\ at'[r].ok = FALSE /\ at'[r].written = {}
        /\ \A q \in Run : q # r => at'[q] = at[q]
    BY <1>1, <1>2, GivenUp
  <1>4. /\ handoff' \in [Run -> {"CANDIDATE_READY", "APPLIED"}]
        /\ \A q \in Run : q # r => handoff'[q] = handoff[q]
    BY <1>1 DEF Finish, Crash, TypeOK
  <1>5. crashes' \in 0 .. MaxCrashes /\ (crashes' = 0 => crashes = 0)
    <2>1. MaxCrashes \in Nat /\ crashes \in 0 .. MaxCrashes
      BY <1>1, PromotionAssumption DEF PromotionAssumption, TypeOK
    <2> QED BY <2>1 DEF Finish, Crash
  <1>6. Local(r)
    BY <1>1, <1>2, <1>3, <1>4, <1>5 DEF Local, TypeOK, Pending, Early, Leased, Applies
  <1>7. /\ Whole(r)' = Whole(r) /\ Without(r)' = Without(r)
        /\ (Reported(r) => Reported(r)') /\ (Without(r) => Reported(r))
        /\ Committed(r)' = Committed(r)
    BY <1>6, LocalFrame
  <1>8. CASE Finish(r)
    <2>1. Committed(r) /\ Whole(r)
      BY <1>1, <1>8 DEF Mine, Finish
    <2>2. Mine(r)'
      BY <1>1, <1>3, <1>7, <2>1 DEF Mine, Pending, Early, Leased, Applies, Ends
    <2> QED BY <1>1, <1>6, <2>2, LocalStep
  <1>9. CASE Crash(r)
    <2>1. crashes' # 0 /\ handoff' = handoff
      BY <1>1, <1>9, PromotionAssumption DEF PromotionAssumption, TypeOK, Crash
    <2>2. Mine(r)'
      BY <1>1, <1>3, <1>7, <2>1 DEF Mine, Pending, Early, Leased, Applies, Ends
    <2> QED BY <1>1, <1>6, <2>2, LocalStep
  <1> QED BY <1>8, <1>9

-----------------------------------------------------------------------------
(* The steps that change lease, ledger or tree.                            *)

\* All but one promotion are over.
LEMMA OthersIdle ==
  ASSUME IInv, NEW r \in Run, at[r].stage # "idle"
  PROVE  \A q \in Run : q # r => at[q].stage = "idle"
  BY Alone DEF IInv

\* A token is drawn for a run that is not committed, or its own is used again.
LEMMA Acquires ==
  ASSUME IInv, NEW r \in Run, Acquire(r)
  PROVE  IInv'
  <1>1. TypeOK /\ Mine(r) /\ at[r].stage = "lease" /\ Without(r) /\ Tokens
    BY DEF IInv, Acquire, Mine, Early
  <1>2. UNCHANGED <<tree, ledger>> /\ Keeps
    BY DEF Acquire
  <1>3. CASE Fails(r) /\ UNCHANGED lease
    BY <1>1, <1>2, <1>3, FailsKeeps DEF Early
  <1>4. CASE /\ ~(lease.live /\ lease.holder # r)
             /\ lease' = IF lease.live /\ lease.holder = r THEN lease
                         ELSE [holder |-> r, token |-> lease.token + 1, live |-> TRUE]
             /\ at' = [at EXCEPT ![r].stage = "observe", ![r].token = lease'.token]
             /\ UNCHANGED guard
    <2>1. at[r] \in Place /\ at \in [Run -> Place] /\ r # NoOne
          /\ lease.token \in Nat /\ lease \in [holder: Holder, token: Nat, live: BOOLEAN]
      BY <1>1, Trees DEF TypeOK
    <2>2. ~Committed(r)
      BY <1>1, Absent
    <2>3. \A i \in Commits : ledger[i].run = r => FALSE
      BY <2>2 DEF Committed
    <2>4. /\ lease' \in [holder: Holder, token: Nat, live: BOOLEAN]
          /\ lease'.token \in Nat /\ lease'.holder = r
          /\ \A i \in Commits : ledger[i].token < lease'.token
      <3>1. CASE lease.live /\ lease.holder = r
        <4>1. lease' = lease
          BY <1>4, <3>1
        <4>2. \A i \in Commits : ledger[i].token <= lease.token /\ ledger[i].token # lease.token
          BY <1>1, <2>1, <2>3, <3>1 DEF Tokens
        <4>3. \A i \in Commits : ledger[i].token \in Nat
          BY <1>1, Rows
        <4> QED BY <2>1, <3>1, <4>1, <4>2, <4>3
      <3>2. CASE ~(lease.live /\ lease.holder = r)
        <4>1. lease' = [holder |-> r, token |-> lease.token + 1, live |-> TRUE]
          BY <1>4, <3>2
        <4>2. \A i \in Commits : ledger[i].token \in Nat
          BY <1>1, Rows
        <4> QED BY <1>1, <2>1, <4>1, <4>2 DEF Tokens, Holder
      <3> QED BY <3>1, <3>2
    <2>5. at' = [at EXCEPT ![r] = [at[r] EXCEPT !.stage = "observe", !.token = lease'.token]]
      BY <1>4, <2>1
    <2>6. at'[r] = [at[r] EXCEPT !.stage = "observe", !.token = lease'.token]
          /\ \A q \in Run : q # r => at'[q] = at[q]
      BY <2>1, <2>5
    <2>7. at'[r] \in Place
      BY <2>1, <2>4, <2>6 DEF Place, Stage
    <2>8. /\ at' \in [Run -> Place]
          /\ at'[r].stage = "observe" /\ at'[r].token = lease'.token
          /\ at'[r].ok = at[r].ok /\ at'[r].written = at[r].written
      BY <2>1, <2>5, <2>6, <2>7 DEF Place
    <2>9. TypeOK'
      BY <1>1, <1>2, <1>4, <2>4, <2>8 DEF TypeOK, Keeps, Place
    <2>10. Whole(r)' = Whole(r) /\ Without(r)' = Without(r) /\ Committed(r)' = Committed(r)
      BY <1>2 DEF Whole, Without, Committed, Commits
    <2>11. Mine(r)'
      BY <1>1, <1>2, <1>4, <2>2, <2>8, <2>10 DEF Mine, Keeps, Pending, Early, Leased, Applies, Ends
    <2>12. LedgerKeeps
      BY <1>2 DEF LedgerKeeps, Commits
    <2>13. Ledger' /\ EditsSurvive'
      BY <1>2, <2>12, LedgerStays DEF IInv, EditsSurvive, Keeps
    <2>14. ASSUME NEW q \in Run, q # r
           PROVE  Aside(q)
      BY <1>2, <2>6, <2>14 DEF Aside, Keeps, Committed, Commits
    <2>15. Tokens'
      <3>1. \A i \in Commits : ledger[i].token <= lease'.token /\ ledger[i].token # lease'.token
        <4>1. \A i \in Commits : ledger[i].token \in Nat
          BY <1>1, Rows
        <4> QED BY <2>4, <4>1
      <3>2. Commits' = Commits /\ ledger' = ledger
        BY <1>2 DEF Commits
      <3>3. \A q \in Run : q # r => at'[q].stage \notin Pending \ Early
        BY <1>1, <2>6, OthersIdle DEF Pending, Early, Leased, Applies
      <3> QED BY <2>1, <2>4, <2>8, <3>1, <3>2, <3>3 DEF Tokens
    <2> QED BY <1>1, <2>9, <2>11, <2>13, <2>14, <2>15, RunStep
  <1> QED BY <1>3, <1>4 DEF Acquire

\* A lease is given back; a promotion that committed goes on to its handoff.
LEMMA Releases ==
  ASSUME IInv, NEW r \in Run, Release(r)
  PROVE  IInv'
  <1>1. TypeOK /\ Mine(r) /\ at[r].stage = "release" /\ Tokens
    BY DEF IInv, Release
  <1>2. UNCHANGED <<tree, ledger>> /\ Keeps
    BY DEF Release
  <1>3. /\ at' \in [Run -> Place] /\ guard' \in Run \union {NoOne}
        /\ \A q \in Run : q # r => at'[q] = at[q]
        /\ at'[r].written \subseteq Touched[r]
        /\ \/ at'[r].stage = "handoff" /\ at'[r].ok = TRUE /\ at[r].ok /\ guard' = guard
           \/ at'[r].stage = "idle" /\ at'[r].ok = FALSE
    <2>1. CASE at[r].ok
      <3>1. Goes(r, "handoff") /\ "handoff" \in Stage /\ UNCHANGED guard
        BY <2>1 DEF Release, Stage
      <3>2. at[r].ok \in BOOLEAN
        BY <1>1, Trees DEF Place
      <3> QED BY <1>1, <2>1, <3>1, <3>2, GoesTo DEF TypeOK, Mine
    <2>2. CASE ~at[r].ok
      BY <1>1, <2>2, GivenUp DEF Release
    <2> QED BY <2>1, <2>2
  <1>4. /\ lease' \in [holder: Holder, token: Nat, live: BOOLEAN]
        /\ \/ lease' = lease
           \/ lease'.token = lease.token /\ lease'.holder = NoOne /\ lease'.live = FALSE
    BY <1>1 DEF Release, TypeOK, Holder
  <1>5. TypeOK'
    BY <1>1, <1>2, <1>3, <1>4 DEF TypeOK, Keeps, Place
  <1>6. Whole(r)' = Whole(r) /\ Reported(r)' = Reported(r) /\ Committed(r)' = Committed(r)
    BY <1>2 DEF Whole, Reported, Committed, Commits, Keeps
  <1>7. Mine(r)'
    BY <1>1, <1>2, <1>3, <1>6 DEF Mine, Keeps, Pending, Early, Leased, Applies, Ends
  <1>8. LedgerKeeps
    BY <1>2 DEF LedgerKeeps, Commits
  <1>9. Ledger' /\ EditsSurvive'
    BY <1>2, <1>8, LedgerStays DEF IInv, EditsSurvive, Keeps
  <1>10. ASSUME NEW q \in Run, q # r
         PROVE  Aside(q)
    BY <1>2, <1>3, <1>10 DEF Aside, Keeps, Committed, Commits
  <1>11. Tokens'
    <2>1. Commits' = Commits /\ ledger' = ledger
      BY <1>2 DEF Commits
    <2>2. \A q \in Run : at'[q].stage \notin Pending \ Early
      BY <1>1, <1>3, OthersIdle DEF Pending, Early, Leased, Applies
    <2> QED BY <1>1, <1>4, <2>1, <2>2 DEF Tokens
  <1> QED BY <1>1, <1>5, <1>7, <1>9, <1>10, <1>11, RunStep

\* What the user did is recorded; no commit moves.
LEMMA Observes ==
  ASSUME IInv, NEW r \in Run, Observe(r)
  PROVE  IInv'
  <1>1. TypeOK /\ Mine(r) /\ at[r].stage = "observe" /\ Without(r) /\ Tokens
    BY DEF IInv, Observe, Mine, Leased
  <1>2. UNCHANGED <<tree, lease, guard>> /\ Keeps
    BY DEF Observe
  <1> DEFINE s == IF tree = at[r].tested THEN "settled" ELSE "reconcile"
  <1>3. s \in Stage /\ s \in {"settled", "reconcile"} /\ Goes(r, s)
    BY DEF Observe, Stage
  <1> HIDE DEF s
  <1>4. /\ at' \in [Run -> Place]
        /\ at'[r].stage = s /\ at'[r].ok = at[r].ok /\ at'[r].written = at[r].written
        /\ at'[r].token = at[r].token /\ \A q \in Run : q # r => at'[q] = at[q]
    BY <1>1, <1>3, GoesTo
  <1>5. /\ ledger' \in Seq(Revision) /\ ledger' # <<>> /\ LedgerKeeps
    <2>1. \A kind \in {"BASELINE", "EXTERNAL_CHANGE"} :
            Row(kind, tree, NoOne) \in Revision /\ Row(kind, tree, NoOne).kind # "CANDIDATE_COMMIT"
      BY <1>1 DEF Row, Revision, TypeOK, Holder
    <2>2. CASE ledger = <<>>
      <3>1. ledger' = <<Row("BASELINE", tree, NoOne)>>
        BY <2>2 DEF Observe
      <3>2. ledger' \in Seq(Revision) /\ DOMAIN ledger' = {1} /\ ledger' # <<>>
            /\ ledger'[1].kind # "CANDIDATE_COMMIT"
        BY <2>1, <3>1
      <3>3. Commits = {} /\ Commits' = {}
        BY <2>2, <3>2 DEF Commits
      <3> QED BY <3>2, <3>3 DEF LedgerKeeps
    <2>3. CASE ledger # <<>> /\ ledger[Len(ledger)].tree = tree
      BY <1>1, <2>3 DEF Observe, LedgerKeeps, TypeOK, Commits
    <2>4. CASE ledger # <<>> /\ ledger[Len(ledger)].tree # tree
      <3> DEFINE e == Row("EXTERNAL_CHANGE", tree, NoOne)
      <3>1. ledger' = Append(ledger, e) /\ e \in Revision /\ e.kind # "CANDIDATE_COMMIT"
        BY <2>1, <2>4 DEF Observe
      <3> HIDE DEF e
      <3>2. /\ ledger' \in Seq(Revision)
            /\ DOMAIN ledger = 1 .. Len(ledger) /\ Len(ledger) \in Nat
            /\ DOMAIN ledger' = 1 .. Len(ledger) + 1
            /\ \A i \in 1 .. Len(ledger) : ledger'[i] = ledger[i]
            /\ ledger'[Len(ledger) + 1] = e
        BY <1>1, <3>1, Appended DEF TypeOK
      <3>3. Commits' = Commits
        BY <3>1, <3>2 DEF Commits
      <3>4. ledger' # <<>>
        BY <3>2
      <3>5. \A i \in Commits : i \in 1 .. Len(ledger) /\ (i > 1 => i - 1 \in 1 .. Len(ledger))
        BY <3>2 DEF Commits
      <3> QED BY <3>2, <3>3, <3>4, <3>5 DEF LedgerKeeps
    <2> QED BY <2>2, <2>3, <2>4
  <1>6. TypeOK'
    BY <1>1, <1>2, <1>4, <1>5 DEF TypeOK, Keeps, Place
  <1>7. Ledger' /\ EditsSurvive' /\ \A q \in Run : Committed(q)' = Committed(q)
    BY <1>2, <1>5, LedgerStays DEF IInv, EditsSurvive, Keeps
  <1>8. Whole(r)' = Whole(r) /\ Without(r)' = Without(r)
    BY <1>2 DEF Whole, Without
  <1>9. ~Committed(r)
    BY <1>1, Absent
  <1>10. Mine(r)'
    BY <1>1, <1>2, <1>3, <1>4, <1>5, <1>7, <1>8, <1>9 DEF Mine, Keeps, Pending, Early, Leased, Applies, Ends
  <1>11. ASSUME NEW q \in Run, q # r
         PROVE  Aside(q)
    BY <1>2, <1>4, <1>7, <1>11 DEF Aside, Keeps
  <1>12. Tokens'
    <2>1. \A q \in Run : q # r => at'[q].stage \notin Pending \ Early
      BY <1>1, <1>4, OthersIdle DEF Pending, Early, Leased, Applies
    <2>2. at[r].stage \in Pending \ Early
      BY <1>1 DEF Pending, Early, Leased, Applies
    <2> QED BY <1>1, <1>2, <1>4, <1>5, <2>1, <2>2, TokensStay DEF TokensKeep
  <1> QED BY <1>1, <1>6, <1>7, <1>10, <1>11, <1>12, RunStep

\* A commit: the last row is the base that was tested, the run is new and its
\* token later than any other.
LEMMA CommitsOnce ==
  ASSUME IInv, NEW r \in Run, Commit(r)
  PROVE  IInv'
  <1>1. /\ TypeOK /\ Mine(r) /\ at[r].stage = "commit" /\ Whole(r) /\ Tokens
        /\ ~Committed(r) /\ ledger # <<>> /\ at[r].found = Patched(r, at[r].tested)
    BY DEF IInv, Commit, Mine, Pending, Early, Leased, Applies
  <1>2. UNCHANGED <<tree, lease, guard>> /\ Keeps
    BY DEF Commit
  <1>3. CASE Refuses(r) /\ UNCHANGED ledger
    <2>1. Returns(r, FALSE)
      BY <1>3 DEF Refuses
    <2>2. /\ at' \in [Run -> Place]
          /\ at'[r].stage = "release" /\ at'[r].ok = FALSE /\ at'[r].written = {}
          /\ at'[r].token = at[r].token /\ \A q \in Run : q # r => at'[q] = at[q]
      BY <1>1, <2>1, ReturnsTo
    <2>3. Local(r)
      BY <1>1, <1>2, <1>3, <2>2 DEF Local, Keeps, TypeOK, Pending, Early, Leased, Applies
    <2>4. /\ Whole(r)' = Whole(r) /\ Without(r)' = Without(r)
          /\ (Reported(r) => Reported(r)') /\ (Without(r) => Reported(r))
          /\ Committed(r)' = Committed(r)
      BY <2>3, LocalFrame
    <2>5. Mine(r)'
      BY <1>1, <1>2, <2>2, <2>4 DEF Mine, Keeps, Pending, Early, Leased, Applies, Ends
    <2> QED BY <1>1, <2>3, <2>5, LocalStep
  <1>4. CASE /\ ledger[Len(ledger)].tree = at[r].tested
             /\ ledger' = Append(ledger, Row("CANDIDATE_COMMIT", at[r].found, r))
             /\ Returns(r, TRUE)
    <2> DEFINE e == Row("CANDIDATE_COMMIT", at[r].found, r)
               n == Len(ledger) + 1
    <2>1. at[r] \in Place /\ at \in [Run -> Place] /\ r # NoOne
      BY <1>1, Trees
    <2>2. /\ e \in Revision /\ e.kind = "CANDIDATE_COMMIT" /\ e.run = r
          /\ e.tree = at[r].found /\ e.token = at[r].token
      BY <2>1 DEF Row, Revision, Place, Holder
    <2>3. ledger \in Seq(Revision)
      BY <1>1, Rows
    <2> HIDE DEF e
    <2>4. /\ ledger' \in Seq(Revision)
          /\ DOMAIN ledger = 1 .. Len(ledger) /\ Len(ledger) \in Nat
          /\ DOMAIN ledger' = 1 .. n
          /\ \A i \in 1 .. Len(ledger) : ledger'[i] = ledger[i]
          /\ ledger'[n] = e
      BY <1>4, <2>2, <2>3, Appended DEF e
    <2>5. Len(ledger) # 0
      BY <1>1, <2>3
    <2> HIDE DEF n
    <2>6. n \in Nat /\ n > 1 /\ n - 1 = Len(ledger) /\ n \notin DOMAIN ledger
      BY <2>4, <2>5 DEF n
    <2>7. Commits' = Commits \union {n}
      <3>1. \A i \in 1 .. n : i \in 1 .. Len(ledger) \/ i = n
        BY <2>4 DEF n
      <3>2. \A i \in 1 .. Len(ledger) : i \in 1 .. n
        BY <2>4 DEF n
      <3>3. n \in 1 .. n
        BY <2>6
      <3> QED BY <2>2, <2>4, <3>1, <3>2, <3>3 DEF Commits
    <2>8. \A i \in Commits : /\ i \in 1 .. Len(ledger) /\ i < n /\ ledger'[i] = ledger[i]
                             /\ i > 1 => ledger'[i - 1] = ledger[i - 1]
      <3>1. \A i \in 1 .. Len(ledger) : i < n /\ (i > 1 => i - 1 \in 1 .. Len(ledger))
        BY <2>4 DEF n
      <3> QED BY <2>4, <3>1 DEF Commits
    <2>9. LedgerIsExact'
      <3>1. ledger'[n].tree = Patched(r, ledger'[n - 1].tree) /\ ledger'[n].run = r
        <4>1. n - 1 \in 1 .. Len(ledger)
          BY <2>4, <2>5, <2>6
        <4> QED BY <1>1, <1>4, <2>2, <2>4, <2>6, <4>1
      <3> DEFINE Fits(i) == i > 1 /\ ledger'[i].tree = Patched(ledger'[i].run, ledger'[i - 1].tree)
      <3>2. Fits(n)
        BY <2>6, <3>1
      <3>3. \A i \in Commits : Fits(i)
        BY <2>8 DEF IInv, Ledger, LedgerIsExact, Patched
      <3>4. \A i \in Commits' : Fits(i)
        BY <2>7, <3>2, <3>3
      <3> QED BY <3>4 DEF LedgerIsExact, Patched
    <2>10. CommittedOnce'
      <3>1. \A i \in Commits : ledger[i].run # r
        BY <1>1 DEF Committed
      <3> QED BY <2>2, <2>4, <2>7, <2>8, <3>1 DEF IInv, Ledger, CommittedOnce
    <2>11. \A i \in Commits : ledger[i].token < at[r].token
      BY <1>1 DEF Tokens, Pending, Early, Leased, Applies
    <2>12. FencesGrow'
      <3> SUFFICES ASSUME NEW i \in Commits', NEW j \in Commits', i < j
                   PROVE  ledger'[i].token < ledger'[j].token
        BY DEF FencesGrow
      <3>1. i # n
        BY <2>6, <2>7, <2>8
      <3>2. i \in Commits
        BY <2>7, <3>1
      <3> QED BY <2>2, <2>4, <2>7, <2>8, <2>11, <3>2 DEF IInv, Ledger, FencesGrow
    <2>13. /\ at' \in [Run -> Place] /\ \A q \in Run : q # r => at'[q] = at[q]
           /\ at'[r].stage = "release" /\ at'[r].ok = TRUE /\ at'[r].written = {}
      BY <1>1, <1>4, ReturnsTo
    <2>14. TypeOK'
      BY <1>1, <1>2, <2>4, <2>13 DEF TypeOK, Keeps, Place
    <2>15. Whole(r)' /\ Committed(r)'
      BY <1>1, <1>2, <2>2, <2>4, <2>7 DEF Whole, Committed
    <2>16. Mine(r)'
      BY <1>1, <1>2, <2>13, <2>15 DEF Mine, Keeps, Pending, Early, Leased, Applies, Ends
    <2>17. ASSUME NEW q \in Run, q # r
           PROVE  Aside(q)
      <3>1. Committed(q)' = Committed(q)
        BY <2>2, <2>4, <2>7, <2>8, <2>17 DEF Committed
      <3> QED BY <1>2, <2>13, <2>17, <3>1 DEF Aside, Keeps
    <2>18. EditsSurvive'
      BY <1>2 DEF IInv, EditsSurvive, Keeps
    <2>19. Tokens'
      <3>1. \A q \in Run : at'[q].stage \notin Pending \ Early
        BY <1>1, <2>13, OthersIdle DEF Pending, Early, Leased, Applies
      <3>2. at[r].token <= lease.token /\ (at[r].token = lease.token => lease.holder \in {r, NoOne})
        BY <1>1 DEF Tokens, Pending, Early, Leased, Applies
      <3>3. \A i \in Commits' :
              /\ ledger'[i].token <= lease.token
              /\ ledger'[i].token = lease.token => lease.holder \in {ledger'[i].run, NoOne}
        BY <1>1, <2>2, <2>4, <2>7, <2>8, <3>2 DEF Tokens
      <3> QED BY <1>1, <1>2, <3>1, <3>3 DEF Tokens
    <2> QED BY <1>1, <2>9, <2>10, <2>12, <2>14, <2>16, <2>17, <2>18, <2>19, RunStep DEF Ledger
  <1> QED BY <1>3, <1>4 DEF Commit

\* A step of apply_patch that puts a file as it was read, with the patch or
\* without it, loses no edit and touches no other patch.
LEMMA FilePut ==
  ASSUME IInv, NEW r \in Run, at[r].stage \in Applies, NEW f \in at[r].written,
         NEW c \in {at[r].found[f], at[r].found[f] \union {r}},
         tree' = [tree EXCEPT ![f] = c],
         UNCHANGED <<ledger, lease, guard>>, Keeps,
         at' \in [Run -> Place], \A q \in Run : q # r => at'[q] = at[q],
         at'[r].token = at[r].token,
         at'[r].stage \in Pending \ Early, Mine(r)'
  PROVE  IInv'
  <1>1. TypeOK /\ Mine(r) /\ Patching(r) /\ at[r] \in Place
    BY Trees DEF IInv, Mine
  <1>2. f \in Touched[r] /\ f \in File
    BY <1>1, Trees DEF Mine
  <1>3. c \in SUBSET Change
    BY <1>1, <1>2 DEF Place, Tree, Change
  <1>4. tree' \in Tree
    BY <1>1, <1>2, <1>3 DEF TypeOK, Tree
  <1>5. TypeOK'
    BY <1>1, <1>4 DEF TypeOK, Keeps, Place
  <1>6. tree'[f] = c /\ \A g \in File : g # f => tree'[g] = tree[g]
    BY <1>1, <1>2 DEF TypeOK, Tree
  <1>7. \A q \in Run \ {r}, g \in File : q \in tree'[g] <=> q \in tree[g]
    BY <1>1, <1>2, <1>6 DEF Patching
  <1>8. LedgerKeeps
    BY DEF LedgerKeeps, Commits
  <1>9. Ledger' /\ \A q \in Run : Committed(q)' = Committed(q)
    BY <1>8, LedgerStays DEF IInv
  <1>10. EditsSurvive'
    <2> SUFFICES ASSUME NEW n \in DOMAIN edits
                 PROVE  edits[n].raced \/ n \in tree'[edits[n].file]
      BY DEF EditsSurvive, Keeps
    <2>1. edits[n].file \in File
      BY <1>1, Marks
    <2>2. edits[n].raced \/ n \in tree[edits[n].file]
      BY DEF IInv, EditsSurvive
    <2>3. edits[n].file = f => (edits[n].raced \/ n \in at[r].found[f])
      BY <1>1 DEF Patching
    <2> QED BY <1>6, <2>1, <2>2, <2>3
  <1>11. ASSUME NEW q \in Run, q # r
         PROVE  Aside(q)
    <2>1. Touched[q] \subseteq File
      BY <1>1, Trees
    <2> QED BY <1>7, <1>9, <1>11, <2>1 DEF Aside, Keeps
  <1>12. Tokens'
    <2>1. at[r].stage \in Pending \ Early
      BY DEF Pending, Early, Applies
    <2>2. \A q \in Run : q # r => at'[q] = at[q]
      OBVIOUS
    <2> QED BY <1>8, <2>1, <2>2, TokensStay DEF TokensKeep, IInv
  <1>13. at[r].stage # "idle"
    BY DEF Applies
  <1> QED BY <1>5, <1>9, <1>10, <1>11, <1>12, <1>13, RunStep

\* A file is replaced.
LEMMA Writes ==
  ASSUME IInv, NEW r \in Run, Write(r)
  PROVE  IInv'
  <1>1. /\ TypeOK /\ Mine(r) /\ at[r].stage = "write" /\ Patching(r)
        /\ ~Committed(r) /\ ledger # <<>>
    BY DEF IInv, Write, Mine, Pending, Early, Leased, Applies
  <1>2. at[r] \in Place /\ at \in [Run -> Place] /\ Touched[r] \subseteq File
    BY <1>1, Trees
  <1>3. UNCHANGED <<ledger, lease, guard>> /\ Keeps
    BY DEF Write
  <1>4. PICK f \in at[r].left \intersect at[r].written :
          /\ tree' = [tree EXCEPT ![f] = at[r].found[f] \union {r}]
          /\ at' = [at EXCEPT ![r].left = @ \ {f},
                              ![r].stage = IF at[r].left = {f} THEN "compare" ELSE "apply"]
    BY DEF Write
  <1> DEFINE s == IF at[r].left = {f} THEN "compare" ELSE "apply"
             l == at[r].left \ {f}
  <1>5. s \in {"compare", "apply"} /\ (s = "compare" => at[r].left = {f})
    OBVIOUS
  <1>6. l \subseteq Touched[r] /\ f \notin l /\ (\A g : g # f => (g \in l <=> g \in at[r].left))
    BY <1>1 DEF Patching
  <1>7. at' = [at EXCEPT ![r] = [at[r] EXCEPT !.left = l, !.stage = s]]
    BY <1>2, <1>4
  <1> HIDE DEF s, l
  <1>8. at'[r] = [at[r] EXCEPT !.left = l, !.stage = s]
        /\ \A q \in Run : q # r => at'[q] = at[q]
    BY <1>2, <1>7
  <1>9. at'[r] \in Place
    <2>1. s \in Stage
      BY <1>5 DEF Stage
    <2> QED BY <1>2, <1>6, <1>8, <2>1 DEF Place
  <1>10. /\ at' \in [Run -> Place]
         /\ at'[r].stage = s /\ at'[r].left = l /\ at'[r].found = at[r].found
         /\ at'[r].ok = at[r].ok /\ at'[r].written = at[r].written
         /\ at'[r].token = at[r].token
    BY <1>2, <1>7, <1>8, <1>9 DEF Place
  <1>11. f \in Touched[r] /\ f \in File /\ f \in at[r].written
    BY <1>1, <1>2, <1>4 DEF Patching
  <1>12. tree'[f] = at[r].found[f] \union {r} /\ \A g \in File : g # f => tree'[g] = tree[g]
    BY <1>1, <1>4, <1>11 DEF TypeOK, Tree
  <1>13. \A g \in Touched[r] : r \in tree'[g] <=> g \notin l
    BY <1>1, <1>2, <1>6, <1>12 DEF Patching
  <1>14. s = "apply" => Patching(r)'
    <2> SUFFICES ASSUME s = "apply"
                 PROVE  Patching(r)'
      OBVIOUS
    <2>1. \A g \in Touched[r] : /\ r \notin at[r].found[g]
                                /\ r \in tree'[g] => g \in at[r].written \union unrestored[r]
      BY <1>1, <1>2, <1>11, <1>12 DEF Patching
    <2>2. \A q \in Run \ {r}, g \in File : q \in at[r].found[g] <=> q \in tree'[g]
      BY <1>1, <1>12 DEF Patching
    <2>3. edits' = edits /\ unrestored' = unrestored
      BY <1>3 DEF Keeps
    <2> QED BY <1>1, <1>6, <1>10, <1>13, <2>1, <2>2, <2>3 DEF Patching
  <1>15. s = "compare" => Whole(r)'
    BY <1>5, <1>6, <1>13 DEF Whole
  <1>16. Committed(r)' = Committed(r)
    BY <1>3 DEF Committed, Commits
  <1>17. Mine(r)'
    BY <1>1, <1>3, <1>5, <1>10, <1>14, <1>15, <1>16
    DEF Mine, Keeps, Pending, Early, Leased, Applies, Ends
  <1>18. at'[r].stage \in Pending \ Early /\ at[r].stage \in Applies
    BY <1>1, <1>5, <1>10 DEF Pending, Early, Leased, Applies
  <1> QED BY <1>3, <1>4, <1>8, <1>10, <1>11, <1>17, <1>18, FilePut

\* A file already written is put back.
LEMMA Undoes ==
  ASSUME IInv, NEW r \in Run, Undo(r)
  PROVE  IInv'
  <1>1. /\ TypeOK /\ Mine(r) /\ at[r].stage = "undo" /\ Patching(r)
        /\ ~Committed(r) /\ ledger # <<>>
    BY DEF IInv, Undo, Mine, Pending, Early, Leased, Applies
  <1>2. at[r] \in Place /\ at \in [Run -> Place] /\ Touched[r] \subseteq File
    BY <1>1, Trees
  <1>3. UNCHANGED <<ledger, lease, guard>> /\ Keeps
    BY DEF Undo
  <1>4. CASE at[r].written = {}
    <2>1. Returns(r, FALSE) /\ UNCHANGED tree
      BY <1>4 DEF Undo, Refuses
    <2>2. /\ at' \in [Run -> Place]
          /\ at'[r].stage = "release" /\ at'[r].ok = FALSE /\ at'[r].written = {}
          /\ at'[r].token = at[r].token /\ \A q \in Run : q # r => at'[q] = at[q]
      BY <1>1, <2>1, ReturnsTo
    <2>3. Reported(r)
      BY <1>1, <1>4 DEF Patching, Reported
    <2>4. Local(r)
      BY <1>1, <1>3, <2>1, <2>2 DEF Local, Keeps, TypeOK, Pending, Early, Leased, Applies
    <2>5. /\ Whole(r)' = Whole(r) /\ Reported(r)'
          /\ Committed(r)' = Committed(r)
      BY <2>3, <2>4, LocalFrame
    <2>6. Mine(r)'
      BY <1>1, <1>3, <2>2, <2>5 DEF Mine, Keeps, Pending, Early, Leased, Applies, Ends
    <2> QED BY <1>1, <2>4, <2>6, LocalStep
  <1>5. CASE at[r].written # {}
    <2>1. PICK f \in at[r].written :
            /\ tree' = [tree EXCEPT ![f] = at[r].found[f]]
            /\ at' = [at EXCEPT ![r].written = @ \ {f}]
      BY <1>5 DEF Undo
    <2> DEFINE w == at[r].written \ {f}
    <2>2. w \subseteq Touched[r] /\ f \in Touched[r] /\ f \in File
          /\ (\A g : g # f => (g \in w <=> g \in at[r].written)) /\ w \subseteq at[r].written
      BY <1>1, <1>2 DEF Mine
    <2>3. at' = [at EXCEPT ![r] = [at[r] EXCEPT !.written = w]]
      BY <1>2, <2>1
    <2> HIDE DEF w
    <2>4. at'[r] = [at[r] EXCEPT !.written = w] /\ \A q \in Run : q # r => at'[q] = at[q]
      BY <1>2, <2>3
    <2>5. at'[r] \in Place
      BY <1>2, <2>2, <2>4 DEF Place
    <2>6. /\ at' \in [Run -> Place]
          /\ at'[r].stage = "undo" /\ at'[r].left = at[r].left /\ at'[r].found = at[r].found
          /\ at'[r].ok = at[r].ok /\ at'[r].written = w /\ at'[r].token = at[r].token
      BY <1>1, <1>2, <2>3, <2>4, <2>5 DEF Place
    <2>7. tree'[f] = at[r].found[f] /\ \A g \in File : g # f => tree'[g] = tree[g]
      BY <1>1, <2>1, <2>2 DEF TypeOK, Tree
    <2>8. Patching(r)'
      <3>1. \A g \in Touched[r] : /\ r \notin at[r].found[g]
                                  /\ r \in tree'[g] => g \in w \union unrestored[r]
        BY <1>1, <1>2, <2>2, <2>7 DEF Patching
      <3>2. \A q \in Run \ {r}, g \in File : q \in at[r].found[g] <=> q \in tree'[g]
        BY <1>1, <2>7 DEF Patching
      <3>3. edits' = edits /\ unrestored' = unrestored
        BY <1>3 DEF Keeps
      <3>4. \A n \in DOMAIN edits :
              (~edits[n].raced /\ edits[n].file \in w) => n \in at[r].found[edits[n].file]
        BY <1>1, <2>2 DEF Patching
      <3> QED BY <1>1, <2>6, <3>1, <3>2, <3>3, <3>4 DEF Patching
    <2>9. Committed(r)' = Committed(r)
      BY <1>3 DEF Committed, Commits
    <2>10. Mine(r)'
      BY <1>1, <1>3, <2>2, <2>6, <2>8, <2>9 DEF Mine, Keeps, Pending, Early, Leased, Applies, Ends
    <2>11. at'[r].stage \in Pending \ Early /\ at[r].stage \in Applies
      BY <1>1, <2>6 DEF Pending, Early, Leased, Applies
    <2> QED BY <1>3, <2>1, <2>4, <2>6, <2>10, <2>11, FilePut
  <1> QED BY <1>4, <1>5

\* A file already written cannot be put back, and is reported.
LEMMA UndoesNot ==
  ASSUME IInv, NEW r \in Run, UndoFails(r)
  PROVE  IInv'
  <1>1. TypeOK /\ Mine(r) /\ at[r].stage = "undo" /\ Patching(r)
    BY DEF IInv, UndoFails, Mine, Applies
  <1>2. at[r] \in Place /\ at \in [Run -> Place] /\ Touched[r] \subseteq File
    BY <1>1, Trees
  <1>3. UNCHANGED <<tree, edits, ledger, lease, guard, handoff, attempts, crashes>>
    BY DEF UndoFails
  <1>4. PICK f \in at[r].written :
          /\ at' = [at EXCEPT ![r].written = @ \ {f}]
          /\ unrestored' = [unrestored EXCEPT ![r] = @ \union {f}]
    BY DEF UndoFails
  <1> DEFINE w == at[r].written \ {f}
             u == unrestored[r] \union {f}
  <1>5. /\ w \subseteq Touched[r] /\ w \subseteq at[r].written /\ f \in File
        /\ unrestored \in [Run -> SUBSET File]
        /\ u \in SUBSET File /\ unrestored[r] \subseteq u
        /\ \A g : g \in at[r].written \union unrestored[r] => g \in w \union u
    BY <1>1, <1>2 DEF Mine, TypeOK
  <1>6. at' = [at EXCEPT ![r] = [at[r] EXCEPT !.written = w]]
    BY <1>2, <1>4
  <1>7. unrestored' = [unrestored EXCEPT ![r] = u]
    BY <1>4, <1>5
  <1> HIDE DEF w, u
  <1>8. at'[r] = [at[r] EXCEPT !.written = w] /\ \A q \in Run : q # r => at'[q] = at[q]
    BY <1>2, <1>6
  <1>9. at'[r] \in Place
    BY <1>2, <1>5, <1>8 DEF Place
  <1>10. /\ at' \in [Run -> Place]
         /\ at'[r].stage = "undo" /\ at'[r].left = at[r].left /\ at'[r].found = at[r].found
         /\ at'[r].ok = at[r].ok /\ at'[r].written = w /\ at'[r].token = at[r].token
    BY <1>1, <1>2, <1>6, <1>8, <1>9 DEF Place
  <1>11. /\ unrestored' \in [Run -> SUBSET File] /\ unrestored'[r] = u
         /\ \A q \in Run : q # r => unrestored'[q] = unrestored[q]
    BY <1>5, <1>7
  <1>12. Local(r)
    BY <1>1, <1>3, <1>5, <1>8, <1>10, <1>11
    DEF Local, TypeOK, Pending, Early, Leased, Applies
  <1>13. /\ Whole(r)' = Whole(r) /\ Committed(r)' = Committed(r)
         /\ (ledger # <<>>)' = (ledger # <<>>)
    BY <1>12, LocalFrame
  <1>14. Patching(r)'
    <2>1. \A g \in Touched[r] : /\ r \notin at[r].found[g]
                                /\ r \in tree[g] => g \in w \union u
      BY <1>1, <1>5 DEF Patching
    <2>2. \A n \in DOMAIN edits :
            (~edits[n].raced /\ edits[n].file \in w) => n \in at[r].found[edits[n].file]
      BY <1>1, <1>5 DEF Patching
    <2>3. tree' = tree /\ edits' = edits
      BY <1>3
    <2> QED BY <1>1, <1>10, <1>11, <2>1, <2>2, <2>3 DEF Patching
  <1>15. Mine(r)'
    BY <1>1, <1>3, <1>5, <1>10, <1>13, <1>14 DEF Mine, Pending, Early, Leased, Applies, Ends
  <1> QED BY <1>1, <1>12, <1>15, LocalStep

\* The user edits a file: every patch stays where it is, and an edit of a file
\* that apply_patch holds is a race.
LEMMA Edits ==
  ASSUME IInv, NEW f \in File, Edit(f)
  PROVE  IInv'
  <1> DEFINE n == Len(edits) + 1
             e == [file |-> f, raced |-> \E r \in Run : /\ at[r].stage \in {"apply", "write", "undo"}
                                                        /\ f \in at[r].written]
  <1>1. /\ TypeOK /\ Len(edits) < MaxEdits
        /\ tree' = [tree EXCEPT ![f] = @ \union {n}]
        /\ edits' = Append(edits, e)
        /\ UNCHANGED <<ledger, lease, guard, handoff, at, attempts, crashes, unrestored>>
    BY DEF IInv, Edit
  <1>2. e.file = f
        /\ \A r \in Run : (at[r].stage \in Applies /\ f \in at[r].written) => e.raced
    BY DEF Applies
  <1>3. e \in [file: File, raced: BOOLEAN]
    OBVIOUS
  <1> HIDE DEF e
  <1>4. edits \in Seq([file: File, raced: BOOLEAN])
    BY <1>1 DEF TypeOK
  <1>5. /\ edits' \in Seq([file: File, raced: BOOLEAN])
        /\ DOMAIN edits = 1 .. Len(edits) /\ Len(edits) \in Nat
        /\ DOMAIN edits' = 1 .. n
        /\ \A i \in 1 .. Len(edits) : edits'[i] = edits[i] /\ edits[i].file \in File
        /\ edits'[n] = e
    <2>1. /\ edits' \in Seq([file: File, raced: BOOLEAN])
          /\ DOMAIN edits = 1 .. Len(edits) /\ Len(edits) \in Nat
          /\ DOMAIN edits' = 1 .. Len(edits) + 1
          /\ \A i \in 1 .. Len(edits) : edits'[i] = edits[i]
          /\ edits'[Len(edits) + 1] = e
      BY <1>1, <1>3, <1>4, Appended
    <2>2. \A i \in 1 .. Len(edits) : edits[i].file \in File
      BY <1>1, <2>1, Marks
    <2> QED BY <2>1, <2>2
  <1>6. n \in 1 .. MaxEdits
    BY <1>1, <1>5, PromotionAssumption DEF PromotionAssumption
  <1>7. n \notin Run /\ n \in Change
    BY <1>6, PromotionAssumption DEF PromotionAssumption, Change
  <1>8. \A i \in DOMAIN edits' : i \in DOMAIN edits \/ i = n
    BY <1>5
  <1> HIDE DEF n
  <1>9. /\ tree' \in Tree
        /\ tree'[f] = tree[f] \union {n}
        /\ \A g \in File : g # f => tree'[g] = tree[g]
    BY <1>1, <1>7 DEF TypeOK, Tree
  <1>10. TypeOK'
    BY <1>1, <1>5, <1>9 DEF TypeOK
  <1>11. \A q \in Run, g \in File : q \in tree'[g] <=> q \in tree[g]
    BY <1>7, <1>9
  <1>12. ASSUME NEW r \in Run
         PROVE  Mine(r)'
    <2>1. Touched[r] \subseteq File /\ Mine(r)
      BY <1>1, Trees DEF IInv
    <2>2. Whole(r)' = Whole(r) /\ Without(r)' = Without(r) /\ Reported(r)' = Reported(r)
      BY <1>1, <1>11, <2>1 DEF Whole, Without, Reported
    <2>3. Committed(r)' = Committed(r)
      BY <1>1 DEF Committed, Commits
    <2>4. (at[r].stage \in Applies /\ Patching(r)) => Patching(r)'
      <3> SUFFICES ASSUME at[r].stage \in Applies, Patching(r)
                   PROVE  Patching(r)'
        OBVIOUS
      <3>1. at' = at /\ unrestored' = unrestored
        BY <1>1
      <3>2. ASSUME NEW i \in DOMAIN edits', ~edits'[i].raced, edits'[i].file \in at[r].written
            PROVE  i \in at[r].found[edits'[i].file]
        <4>1. i # n
          BY <1>2, <1>5, <3>2
        <4>2. i \in DOMAIN edits /\ edits'[i] = edits[i]
          BY <1>5, <1>8, <4>1
        <4> QED BY <3>2, <4>2 DEF Patching
      <3>3. \A q \in Run \ {r}, g \in File : q \in at[r].found[g] <=> q \in tree'[g]
        BY <1>11 DEF Patching
      <3>4. \A g \in Touched[r] : r \in tree'[g] <=> r \in tree[g]
        BY <1>11, <2>1
      <3> QED BY <3>1, <3>2, <3>3, <3>4 DEF Patching
    <2>5. Patched(r, at[r].tested)' = Patched(r, at[r].tested)
      BY <1>1 DEF Patched
    <2> QED BY <1>1, <2>1, <2>2, <2>3, <2>4, <2>5 DEF Mine
  <1>13. LedgerKeeps
    BY <1>1 DEF LedgerKeeps, Commits
  <1>14. Ledger' /\ Tokens'
    BY <1>1, <1>13, LedgerStays, TokensStay DEF IInv, TokensKeep
  <1>15. EditsSurvive'
    <2> SUFFICES ASSUME NEW i \in DOMAIN edits'
                 PROVE  edits'[i].raced \/ i \in tree'[edits'[i].file]
      BY DEF EditsSurvive
    <2>1. CASE i = n
      BY <1>2, <1>5, <1>9, <2>1
    <2>2. CASE i \in DOMAIN edits
      <3>1. edits'[i] = edits[i] /\ edits[i].file \in File
        BY <1>5, <2>2
      <3>2. edits[i].raced \/ i \in tree[edits[i].file]
        BY <2>2 DEF IInv, EditsSurvive
      <3> QED BY <1>9, <3>1, <3>2
    <2> QED BY <1>8, <2>1, <2>2
  <1> QED BY <1>10, <1>12, <1>14, <1>15 DEF IInv

\* The lease expires, or an engine takes it and gives it back.
LEMMA LeaseMoves ==
  ASSUME IInv, Lapse \/ OtherAcquires \/ OtherReleases
  PROVE  IInv'
  <1>1. TypeOK /\ Tokens /\ UNCHANGED <<tree, edits, ledger, guard, handoff, at, attempts, crashes, unrestored>>
    BY DEF IInv, Lapse, OtherAcquires, OtherReleases
  <1>2. lease \in [holder: Holder, token: Nat, live: BOOLEAN] /\ Other # NoOne
        /\ \A i \in Commits : ledger[i].token \in Nat
    BY <1>1, Rows, PromotionAssumption DEF PromotionAssumption, TypeOK
  <1>3. /\ lease' \in [holder: Holder, token: Nat, live: BOOLEAN]
        /\ lease'.live => lease'.holder # NoOne
        /\ \/ lease'.token = lease.token /\ lease'.holder \in {lease.holder, NoOne}
           \/ lease'.token = lease.token + 1
    <2>1. CASE Lapse
      BY <1>1, <1>2, <2>1 DEF Lapse, Holder
    <2>2. CASE OtherAcquires
      BY <1>1, <1>2, <2>2 DEF OtherAcquires, Holder
    <2>3. CASE OtherReleases
      BY <1>1, <1>2, <2>3 DEF OtherReleases, Holder
    <2> QED BY <2>1, <2>2, <2>3
  <1>4. TypeOK'
    BY <1>1, <1>3 DEF TypeOK
  <1>5. Tokens'
    <2>1. \A r \in Run : at[r].token \in Nat
      BY <1>1, Trees DEF Place
    <2>2. Commits' = Commits
      BY <1>1 DEF Commits
    <2> QED BY <1>1, <1>2, <1>3, <2>1, <2>2 DEF Tokens
  <1>6. Ledger' /\ EditsSurvive'
    <2>1. LedgerKeeps
      BY <1>1 DEF LedgerKeeps, Commits
    <2> QED BY <1>1, <2>1, LedgerStays DEF IInv, EditsSurvive
  <1>7. ASSUME NEW r \in Run
        PROVE  Mine(r)'
    BY <1>1 DEF IInv, Mine, Whole, Without, Reported, Committed, Commits, Patching, Patched
  <1> QED BY <1>4, <1>5, <1>6, <1>7 DEF IInv

-----------------------------------------------------------------------------
(* The theorems.                                                           *)

\* The initial state satisfies the invariant.
LEMMA InitInv ==
  ASSUME Init
  PROVE  IInv
  <1>1. MaxCrashes \in Nat /\ Baseline \in Tree /\ Away \in Place
        /\ \A r \in Run : Touched[r] \subseteq File
    BY PromotionAssumption
    DEF PromotionAssumption, Baseline, Tree, Away, Place, Stage
  <1>2. TypeOK
    <2>1. crashes \in 0 .. MaxCrashes
      BY <1>1 DEF Init
    <2>2. at \in [Run -> Place]
      BY <1>1 DEF Init
    <2>3. edits = <<>> /\ edits \in Seq([file: File, raced: BOOLEAN])
          /\ ledger \in Seq(Revision)
      BY DEF Init
    <2> QED BY <1>1, <2>1, <2>2, <2>3 DEF Init, TypeOK, Place, Holder
  <1>3. Commits = {}
    BY DEF Init, Commits
  <1>4. ASSUME NEW r \in Run
        PROVE  Mine(r)
    <2>1. at[r] = Away
      BY DEF Init
    <2>2. at[r].stage = "idle" /\ at[r].ok = FALSE /\ at[r].written = {}
      BY <2>1 DEF Away
    <2>3. Reported(r)
      BY <1>1 DEF Init, Reported, Baseline
    <2>4. handoff[r] = "CANDIDATE_READY" /\ ~Committed(r)
      BY <1>3 DEF Init, Committed
    <2> QED BY <2>2, <2>3, <2>4 DEF Mine, Pending, Early, Leased, Applies, Ends
  <1>5. Tokens
    <2>1. \A r \in Run : at[r].stage = "idle"
      BY DEF Init, Away
    <2> QED BY <1>3, <2>1 DEF Init, Tokens, Pending, Early, Leased, Applies
  <1>6. Ledger /\ EditsSurvive
    BY <1>3 DEF Init, Ledger, LedgerIsExact, CommittedOnce, FencesGrow, EditsSurvive
  <1> QED BY <1>2, <1>4, <1>5, <1>6 DEF IInv

\* Every step maintains the invariant.
LEMMA StepKeeps ==
  ASSUME IInv, [Next]_vars
  PROVE  IInv'
  <1>1. CASE UNCHANGED vars
    <2>1. TypeOK' /\ EditsSurvive'
      BY <1>1 DEF vars, IInv, TypeOK, EditsSurvive
    <2>2. ASSUME NEW r \in Run
          PROVE  Mine(r)'
      BY <1>1 DEF vars, IInv, Mine, Whole, Without, Reported, Committed, Commits, Patching, Patched
    <2>3. LedgerKeeps
      BY <1>1 DEF vars, LedgerKeeps, Commits
    <2>4. Ledger' /\ Tokens'
      BY <1>1, <2>3, LedgerStays, TokensStay DEF vars, IInv, TokensKeep
    <2> QED BY <2>1, <2>2, <2>4 DEF IInv
  <1>2. ASSUME NEW r \in Run, Begin(r) \/ Step(r) \/ Crash(r)
        PROVE  IInv'
    BY <1>2, Begins, ReadsBase, TestsKeep, Prepares, Rechecks, Compares, Leaves, Acquires,
       Releases, Observes, CommitsOnce, Writes, Undoes, UndoesNot DEF Step
  <1> QED BY <1>1, <1>2, Edits, LeaseMoves DEF Next

\* The inductive invariant holds in every reachable state.
THEOREM Inductive == Spec => []IInv
  <1>1. Init => IInv
    BY InitInv
  <1>2. IInv /\ [Next]_vars => IInv'
    BY StepKeeps
  <1> QED BY <1>1, <1>2, PTL DEF Spec

\* A commit is the last revision with the patch and nothing else, a run is
\* committed once, later commits have later tokens, and a handoff says APPLIED
\* only of a committed run whose patch is in every file.
THEOREM LedgerCorrect == Spec => []PromotionInvariant
  <1>1. IInv => PromotionInvariant
    BY DEF IInv, PromotionInvariant, Ledger, AppliedIsCommitted, Mine, Committed, Whole
  <1> QED BY <1>1, Inductive, PTL

\* The user loses no edit, except one of a file that apply_patch holds.
THEOREM NoEditLost == Spec => []EditsSurvive
  <1>1. IInv => EditsSurvive
    BY DEF IInv
  <1> QED BY <1>1, Inductive, PTL

\* Unless a promotion died, a patch is in the checkout whole once its promotion
\* is over, or in no file but those ROLLBACK_FAILED was reported of.
THEOREM PatchesAreWhole == Spec => []AllOrNothing
  <1>1. IInv => AllOrNothing
    <2> SUFFICES ASSUME IInv, crashes = 0, NEW r \in Run, at[r].stage = "idle"
                 PROVE  \/ {f \in Touched[r] : r \in tree[f]} = Touched[r]
                        \/ {f \in Touched[r] : r \in tree[f]} \subseteq unrestored[r]
      BY DEF AllOrNothing
    <2>1. Whole(r) \/ Reported(r)
      BY DEF IInv, Mine
    <2> QED BY <2>1 DEF Whole, Reported
  <1> QED BY <1>1, Inductive, PTL
=============================================================================
