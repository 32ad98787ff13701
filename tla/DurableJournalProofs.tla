------------------------- MODULE DurableJournalProofs -------------------------
(***************************************************************************)
(* Proofs about DurableJournal, for every set of calls and processes,      *)
(* whichever calls roll back and however many crashes and failures happen. *)
(*                                                                         *)
(* The argument.  A transaction that writes was begun on the last          *)
(* committed history and nobody else commits while it is open (Alone), so  *)
(* its history extends the committed one by the events of calls that       *)
(* failed to append their line and by that of the call it is in            *)
(* (Snapshot).  A call that was refused, or rolled back, is in no history  *)
(* at all, committed or not (Decided); one that answers has committed      *)
(* (Executes).  The line of a call is written while it holds the           *)
(* transaction, with a number no committed event has: the last line of     *)
(* that number is its own when it commits (Lines).  The beginning of a     *)
(* line was left by a call that has ended without an answer of success     *)
(* (Fragments).                                                            *)
(***************************************************************************)
EXTENDS DurableJournal, TLAPS

Prefix(s, t) == Len(s) <= Len(t) /\ \A n \in 1 .. Len(s) : t[n] = s[n]

\* e is in no history, neither the committed one nor that of a transaction.
Absent(e) == e \notin ToSet(log) /\ \A p \in Proc : e \notin ToSet(view[p].log)

\* Of the lines with number n the last is that of e.
Newest(n, e, lines) ==
  \E i \in DOMAIN lines :
    /\ lines[i] = [seq |-> n, call |-> e, whole |-> TRUE]
    /\ \A k \in i + 1 .. Len(lines) : lines[k].seq # n

\* Every committed event but those whose append failed has the last line.
Lines == \A n \in DOMAIN log : outcome[log[n]] # "error" => Newest(n, log[n], file)

\* The lines that have their newline.
Whole == {line \in Line : line.whole}

\* The beginning of a line was left by a failed append or by a crash.
Fragments ==
  \A i \in DOMAIN file :
    file[i] \in Whole \/ outcome[file[i].call] \in {"error", "rolled back", "lost"}

\* p has updated the row and not yet inserted the event that explains it.
Moving(p) == at[p].stage \in {"number", "insert"} /\ Wants[at[p].call] # Checkpoint

Inserted(p) == at[p].stage \in {"line", "commit"}

\* What the transaction of p reads.  One that writes has the events of failed
\* calls beyond the committed history, and last that of the call p is in.
Snapshot(p) ==
  /\ conn[p] \in {"auto", "begun"} => view[p] = NoView
  /\ conn[p] = "reading" => Prefix(view[p].log, log)
  /\ conn[p] = "writing" =>
       /\ Prefix(log, view[p].log)
       /\ \A n \in Len(log) + 1 .. Len(view[p].log) :
            \/ outcome[view[p].log[n]] = "error"
            \/ n = Len(view[p].log) /\ Inserted(p)
  /\ IF Moving(p) THEN conn[p] = "writing" /\ view[p].row = Wants[at[p].call]
     ELSE Explained(view[p].row, view[p].log)

\* How far the call of p is.
Executes(p) ==
  /\ at[p].call = Nothing <=> at[p].stage = "idle"
  /\ at[p].call # Nothing => outcome[at[p].call] = "running"
  /\ at[p].stage \in {"begin", "read", "write", "number", "insert"} => Absent(at[p].call)
  /\ at[p].stage \in {"read", "write"} => Wants[at[p].call] # Checkpoint
  /\ at[p].stage = "insert" /\ Moving(p) => at[p].seq = Len(view[p].log) + 1
  /\ Inserted(p) =>
       /\ conn[p] = "writing"
       /\ at[p].seq = Len(view[p].log) /\ at[p].seq > Len(log)
       /\ view[p].log[at[p].seq] = at[p].call
       /\ at[p].call \notin ToSet(log)
  /\ at[p].stage = "commit" => Newest(at[p].seq, at[p].call, file)
  /\ at[p].stage \in {"project", "replace"} => conn[p] = "auto" /\ at[p].call \in ToSet(log)
  /\ at[p].stage = "replace" => Prefix(at[p].shown, log)

\* One transaction writes, and every call is executed by one process.
Alone ==
  /\ \A p, q \in Proc : conn[p] = "writing" /\ conn[q] = "writing" => p = q
  /\ \A p, q \in Proc : at[p].call = at[q].call /\ at[p].call # Nothing => p = q

\* What the outcome of a call says about the histories.
Decided ==
  \A e \in Call :
    /\ outcome[e] \in {"new", "refused", "rolled back"} => Absent(e)
    /\ outcome[e] \in {"ok", "unreported"} => e \in ToSet(log)

\* What the clients read is the committed history.
Shown ==
  /\ \A p \in Proc : (\A e \in Call : outcome[e] # "error") => Prefix(seen[p], log)
  /\ Prefix(projection, log)

IInv ==
  /\ TypeOK
  /\ \A p \in Proc : Snapshot(p) /\ Executes(p)
  /\ Alone /\ Decided /\ Lines /\ Fragments /\ RowIsExplained /\ Shown

-----------------------------------------------------------------------------
(* Histories and lines.                                                    *)

\* The members of a history are its entries.
LEMMA Members ==
  ASSUME NEW S, NEW s \in Seq(S), NEW e
  PROVE  /\ e \in ToSet(s) <=> \E n \in 1 .. Len(s) : s[n] = e
         /\ e \in ToSet(s) => e \in S
         /\ Len(s) \in Nat /\ DOMAIN s = 1 .. Len(s)
         /\ \A n \in 1 .. Len(s) : s[n] \in S
<1>1. Len(s) \in Nat /\ DOMAIN s = 1 .. Len(s) /\ \A n \in 1 .. Len(s) : s[n] \in S
  OBVIOUS
<1> QED  BY <1>1 DEF ToSet

\* An entry of a history.
LEMMA Entry ==
  ASSUME NEW S, NEW s \in Seq(S), NEW n \in DOMAIN s
  PROVE  s[n] \in S
OBVIOUS

\* Prefix, entry by entry, is IsPrefix.
LEMMA PrefixIsPrefix ==
  ASSUME NEW S, NEW s \in Seq(S), NEW t \in Seq(S)
  PROVE  IsPrefix(s, t) <=> Prefix(s, t)
<1>1. Len(s) \in Nat /\ Len(t) \in Nat
  OBVIOUS
<1>2. CASE Len(s) <= Len(t)
  <2>1. /\ SubSeq(s, 1, Len(s)) = [n \in 1 .. Len(s) |-> s[n]]
        /\ SubSeq(t, 1, Len(s)) = [n \in 1 .. Len(s) |-> t[n]]
    BY <1>1, <1>2
  <2>2. ASSUME SubSeq(s, 1, Len(s)) = SubSeq(t, 1, Len(s)), NEW n \in 1 .. Len(s)
        PROVE  t[n] = s[n]
    <3>1. [i \in 1 .. Len(s) |-> s[i]][n] = [i \in 1 .. Len(s) |-> t[i]][n]
      BY <2>1, <2>2
    <3> QED  BY <3>1
  <2> QED  BY <1>2, <2>1, <2>2 DEF IsPrefix, Prefix
<1> QED  BY <1>1, <1>2 DEF IsPrefix, Prefix

\* A history is a prefix of itself; prefixes compose and have fewer members.
LEMMA PrefixIsOrder ==
  ASSUME NEW S, NEW s \in Seq(S), NEW t \in Seq(S), NEW u \in Seq(S)
  PROVE  /\ Prefix(s, s)
         /\ Prefix(s, t) /\ Prefix(t, u) => Prefix(s, u)
         /\ Prefix(s, t) => \A e \in ToSet(s) : e \in ToSet(t)
<1>1. Len(s) \in Nat /\ Len(t) \in Nat /\ Len(u) \in Nat
  OBVIOUS
<1>2. ASSUME Prefix(s, t), NEW e \in ToSet(s)
      PROVE  e \in ToSet(t)
  <2>1. PICK n \in 1 .. Len(s) : s[n] = e
    BY <1>2, Members
  <2>2. n \in 1 .. Len(t) /\ t[n] = e
    BY <1>1, <1>2, <2>1 DEF Prefix
  <2> QED  BY <2>2, Members
<1> QED  BY <1>1, <1>2 DEF Prefix

\* An appended event: what it leaves as it was, and what it adds.
LEMMA AppendedEvent ==
  ASSUME NEW S, NEW s \in Seq(S), NEW e \in S
  PROVE  /\ Append(s, e) \in Seq(S)
         /\ Len(Append(s, e)) = Len(s) + 1
         /\ \A n \in 1 .. Len(s) : Append(s, e)[n] = s[n]
         /\ Append(s, e)[Len(s) + 1] = e
         /\ Prefix(s, Append(s, e))
         /\ \A x : x \in ToSet(Append(s, e)) <=> x \in ToSet(s) \/ x = e
<1> DEFINE t == Append(s, e)
<1>1. t \in Seq(S) /\ Len(s) \in Nat /\ Len(t) = Len(s) + 1
  OBVIOUS
<1>2. (\A n \in 1 .. Len(s) : t[n] = s[n]) /\ t[Len(s) + 1] = e
  OBVIOUS
<1> HIDE DEF t
<1>3. ASSUME NEW x
      PROVE  x \in ToSet(t) <=> x \in ToSet(s) \/ x = e
  <2>1. x \in ToSet(t) <=> \E n \in 1 .. Len(s) + 1 : t[n] = x
    BY <1>1, Members
  <2>2. x \in ToSet(s) <=> \E n \in 1 .. Len(s) : s[n] = x
    BY Members
  <2>3. ASSUME NEW n \in 1 .. Len(s) + 1
        PROVE  n \in 1 .. Len(s) \/ n = Len(s) + 1
    BY <1>1
  <2>4. Len(s) + 1 \in 1 .. Len(s) + 1 /\ \A n \in 1 .. Len(s) : n \in 1 .. Len(s) + 1
    BY <1>1
  <2> QED  BY <1>2, <2>1, <2>2, <2>3, <2>4, Zenon
<1> QED  BY <1>1, <1>2, <1>3 DEF Prefix, t

\* A page after a prefix of a history makes a longer prefix of it.
LEMMA PageIsPrefix ==
  ASSUME NEW S, NEW s \in Seq(S), NEW t \in Seq(S), Prefix(s, t),
         NEW n \in Len(s) + 1 .. Len(t)
  PROVE  /\ s \o SubSeq(t, Len(s) + 1, n) \in Seq(S)
         /\ Prefix(s \o SubSeq(t, Len(s) + 1, n), t)
<1>1. Len(s) \in Nat /\ Len(t) \in Nat /\ n \in Nat /\ n > Len(s) /\ n <= Len(t)
  OBVIOUS
<1> DEFINE page == SubSeq(t, Len(s) + 1, n)
<1>2. /\ page \in Seq(S) /\ Len(page) = n - Len(s)
      /\ \A i \in 1 .. Len(page) : page[i] = t[Len(s) + i]
  BY <1>1
<1> HIDE DEF page
<1>3. /\ s \o page \in Seq(S) /\ Len(s \o page) = n
      /\ \A i \in 1 .. n : (s \o page)[i] = IF i <= Len(s) THEN s[i] ELSE page[i - Len(s)]
  BY <1>1, <1>2
<1>4. ASSUME NEW i \in 1 .. n
      PROVE  t[i] = (s \o page)[i]
  <2>1. CASE i <= Len(s)
    BY <1>1, <1>3, <2>1 DEF Prefix
  <2>2. CASE i > Len(s)
    <3>1. i - Len(s) \in 1 .. Len(page) /\ Len(s) + (i - Len(s)) = i
      BY <1>1, <1>2, <2>2
    <3> QED  BY <1>1, <1>2, <1>3, <2>2, <3>1
  <2>3. i <= Len(s) \/ i > Len(s)
    BY <1>1
  <2> QED  BY <2>1, <2>2, <2>3
<1> QED  BY <1>1, <1>3, <1>4 DEF Prefix, page

\* A checkpoint does not move the run; any other event moves it where it wants.
LEMMA ExplainedByAppend ==
  ASSUME NEW s \in Seq(Call), NEW e \in Call, NEW r \in RunState,
         \/ Wants[e] = Checkpoint /\ Explained(r, s)
         \/ Wants[e] = r
  PROVE  Explained(r, Append(s, e))
<1> DEFINE t == Append(s, e)
<1>1. /\ t \in Seq(Call) /\ Len(t) = Len(s) + 1 /\ Len(s) \in Nat
      /\ DOMAIN t = 1 .. Len(s) + 1 /\ DOMAIN s = 1 .. Len(s)
      /\ \A n \in 1 .. Len(s) : t[n] = s[n]
      /\ t[Len(s) + 1] = e
  BY AppendedEvent
<1> HIDE DEF t
<1>2. CASE Wants[e] = r
  <2>1. Len(t) \in DOMAIN t /\ t[Len(t)] = e /\ Len(t) + 1 .. Len(t) = {}
    BY <1>1
  <2> QED  BY <1>2, <2>1 DEF Explained, t
<1>3. CASE Wants[e] = Checkpoint /\ r = "RUNNING" /\ \A n \in DOMAIN s : Wants[s[n]] = Checkpoint
  <2>1. \A n \in DOMAIN t : Wants[t[n]] = Checkpoint
    <3>1. ASSUME NEW n \in DOMAIN t
          PROVE  n \in DOMAIN s \/ n = Len(s) + 1
      BY <1>1
    <3> QED  BY <1>1, <1>3, <3>1
  <2> QED  BY <1>3, <2>1 DEF Explained, t
<1>4. CASE /\ Wants[e] = Checkpoint
           /\ \E n \in DOMAIN s : /\ r = Wants[s[n]]
                                  /\ \A k \in n + 1 .. Len(s) : Wants[s[k]] = Checkpoint
  <2>1. PICK n \in DOMAIN s : /\ r = Wants[s[n]]
                              /\ \A k \in n + 1 .. Len(s) : Wants[s[k]] = Checkpoint
    BY <1>4
  <2>2. n \in DOMAIN t /\ r = Wants[t[n]]
    BY <1>1, <2>1
  <2>3. ASSUME NEW k \in n + 1 .. Len(t)
        PROVE  Wants[t[k]] = Checkpoint
    <3>1. (k \in n + 1 .. Len(s) /\ k \in 1 .. Len(s)) \/ k = Len(s) + 1
      BY <1>1
    <3> QED  BY <1>1, <1>4, <2>1, <3>1
  <2> QED  BY <2>2, <2>3 DEF Explained, t
<1> QED  BY <1>2, <1>3, <1>4 DEF Explained

\* A line with another number hides no event, and a new line is the last.
LEMMA NewLine ==
  ASSUME NEW lines \in Seq(Line), NEW line \in Line
  PROVE  /\ Append(lines, line) \in Seq(Line)
         /\ \A n \in Nat, e \in Call : n # line.seq /\ Newest(n, e, lines)
                                         => Newest(n, e, Append(lines, line))
         /\ line.whole = TRUE => Newest(line.seq, line.call, Append(lines, line))
<1> DEFINE t == Append(lines, line)
<1>1. /\ t \in Seq(Line) /\ Len(t) = Len(lines) + 1 /\ Len(lines) \in Nat
      /\ DOMAIN t = 1 .. Len(lines) + 1 /\ DOMAIN lines = 1 .. Len(lines)
      /\ \A n \in 1 .. Len(lines) : t[n] = lines[n]
      /\ t[Len(lines) + 1] = line
  BY AppendedEvent
<1> HIDE DEF t
<1>2. ASSUME NEW n \in Nat, NEW e \in Call, n # line.seq, Newest(n, e, lines)
      PROVE  Newest(n, e, t)
  <2>1. PICK i \in DOMAIN lines : /\ lines[i] = [seq |-> n, call |-> e, whole |-> TRUE]
                                  /\ \A k \in i + 1 .. Len(lines) : lines[k].seq # n
    BY <1>2 DEF Newest
  <2>2. i \in DOMAIN t /\ t[i] = lines[i]
    BY <1>1
  <2>3. ASSUME NEW k \in i + 1 .. Len(t)
        PROVE  t[k].seq # n
    <3>1. (k \in i + 1 .. Len(lines) /\ k \in 1 .. Len(lines)) \/ k = Len(lines) + 1
      BY <1>1
    <3> QED  BY <1>1, <1>2, <2>1, <3>1
  <2> QED  BY <2>1, <2>2, <2>3, Zenon DEF Newest
<1>3. ASSUME line.whole = TRUE
      PROVE  Newest(line.seq, line.call, t)
  <2>1. line = [seq |-> line.seq, call |-> line.call, whole |-> line.whole]
    BY DEF Line
  <2>2. Len(t) \in DOMAIN t /\ t[Len(t)] = line /\ Len(t) + 1 .. Len(t) = {}
    BY <1>1
  <2> QED  BY <1>3, <2>1, <2>2 DEF Newest
<1> QED  BY <1>1, <1>2, <1>3 DEF t

-----------------------------------------------------------------------------
(* Types.                                                                  *)

Work == [stage: Stage, call: Call \union {Nothing}, seq: Nat, shown: Seq(Call)]

\* The fields of an entry of at and of a snapshot.
LEMMA Fields ==
  ASSUME TypeOK, NEW p \in Proc
  PROVE  /\ at[p] \in Work /\ at[p].stage \in Stage /\ at[p].call \in Call \union {Nothing}
         /\ at[p].seq \in Nat /\ at[p].shown \in Seq(Call)
         /\ view[p] \in View /\ view[p].log \in Seq(Call) /\ view[p].row \in RunState
         /\ conn[p] \in Conn /\ seen[p] \in Seq(Call)
         /\ Away \in Work /\ NoView \in View /\ Committed \in View
BY DEF TypeOK, Work, View, Away, NoView, Committed, RunState, Stage

\* What a SELECT sees is a history and a state.
LEMMA SeesView ==
  ASSUME TypeOK, NEW p \in Proc
  PROVE  Sees(p) \in View /\ Sees(p).log \in Seq(Call) /\ Sees(p).row \in RunState
<1>1. Sees(p) \in View
  BY Fields DEF Sees
<1> QED  BY <1>1 DEF View

\* What the parts of an action do to the types.
LEMMA PartTypes ==
  ASSUME TypeOK, NEW p \in Proc
  PROVE  /\ Selects(p) => conn' \in [Proc -> Conn] /\ view' \in [Proc -> View]
         /\ \A v \in View : Writes(p, v) => conn' \in [Proc -> Conn] /\ view' \in [Proc -> View]
         /\ CloseTransaction(p) => conn' \in [Proc -> Conn] /\ view' \in [Proc -> View]
         /\ \A s \in Stage : Goes(p, s) => at' \in [Proc -> Work]
         /\ \A how \in Outcome : Ends(p, how) =>
              at' \in [Proc -> Work] /\ outcome' \in [Call -> Outcome]
         /\ \A how \in Outcome : Raises(p, how) =>
              /\ at' \in [Proc -> Work] /\ outcome' \in [Call -> Outcome]
              /\ conn' \in [Proc -> Conn] /\ view' \in [Proc -> View]
<1>1. Selects(p) => conn' \in [Proc -> Conn] /\ view' \in [Proc -> View]
  BY Fields DEF Selects, TypeOK, Conn
<1>2. \A v \in View : Writes(p, v) => conn' \in [Proc -> Conn] /\ view' \in [Proc -> View]
  BY DEF Writes, TypeOK, Conn
<1>3. CloseTransaction(p) => conn' \in [Proc -> Conn] /\ view' \in [Proc -> View]
  BY Fields DEF CloseTransaction, TypeOK, Conn
<1>4. \A s \in Stage : Goes(p, s) => at' \in [Proc -> Work]
  BY DEF Goes, TypeOK, Work
<1>5. \A how \in Outcome : Ends(p, how) =>
        at' \in [Proc -> Work] /\ outcome' \in [Call -> Outcome]
  <2>1. at \in [Proc -> Work]
    BY DEF TypeOK, Work
  <2> QED  BY <2>1, Fields DEF Ends, TypeOK
<1>6. \A how \in Outcome : Raises(p, how) =>
        /\ at' \in [Proc -> Work] /\ outcome' \in [Call -> Outcome]
        /\ conn' \in [Proc -> Conn] /\ view' \in [Proc -> View]
  BY <1>3, <1>5 DEF Raises, TypeOK, Conn
<1> QED  BY <1>1, <1>2, <1>3, <1>4, <1>5, <1>6

\* The parts make up the type invariant.
LEMMA TypeParts ==
  ASSUME log' \in Seq(Call), row' \in RunState, file' \in Seq(Line), projection' \in Seq(Call),
         conn' \in [Proc -> Conn], view' \in [Proc -> View], at' \in [Proc -> Work],
         outcome' \in [Call -> Outcome], seen' \in [Proc -> Seq(Call)],
         faults' \in [crashes: 0 .. MaxCrashes, io: 0 .. MaxFaults]
  PROVE  TypeOK'
BY DEF TypeOK, Work

\* The counters of failures stay below their bounds.
LEMMA FaultTypes ==
  ASSUME TypeOK
  PROVE  /\ faults.crashes < MaxCrashes =>
              [faults EXCEPT !.crashes = @ + 1] \in [crashes: 0 .. MaxCrashes, io: 0 .. MaxFaults]
         /\ faults.io < MaxFaults =>
              [faults EXCEPT !.io = @ + 1] \in [crashes: 0 .. MaxCrashes, io: 0 .. MaxFaults]
<1>1. faults \in [crashes: 0 .. MaxCrashes, io: 0 .. MaxFaults]
  BY DEF TypeOK
<1>2. faults.crashes \in 0 .. MaxCrashes /\ faults.io \in 0 .. MaxFaults
  BY <1>1
<1>3. faults.crashes < MaxCrashes => faults.crashes + 1 \in 0 .. MaxCrashes
  BY <1>2, JournalAssumption DEF JournalAssumption
<1>4. faults.io < MaxFaults => faults.io + 1 \in 0 .. MaxFaults
  BY <1>2, JournalAssumption DEF JournalAssumption
<1> QED  BY <1>1, <1>3, <1>4

\* The start of a call.
LEMMA StartType ==
  ASSUME TypeOK, NEW p \in Proc, NEW e \in Call, Start(p, e)
  PROVE  TypeOK'
<1>1. at' \in [Proc -> Work]
  <2> DEFINE s == IF e \in Guarded THEN "begin"
                  ELSE IF Wants[e] = Checkpoint THEN "number"
                  ELSE "read"
             w == [Away EXCEPT !.call = e, !.stage = s]
  <2>1. w \in Work
    <3>1. s \in Stage
      BY DEF Stage
    <3> HIDE DEF s
    <3> QED  BY <3>1, Fields DEF Work
  <2>2. at' = [at EXCEPT ![p] = w] /\ at \in [Proc -> Work]
    BY DEF Start, TypeOK, Work
  <2> QED  BY <2>1, <2>2
<1>2. outcome' \in [Call -> Outcome]
  BY DEF Start, TypeOK, Outcome
<1> QED  BY <1>1, <1>2, TypeParts DEF Start, TypeOK

\* The steps of a call before its line.
LEMMA WorkTypes ==
  ASSUME TypeOK, NEW p \in Proc, Executes(p),
         \/ Begin(p) \/ ReadRow(p) \/ Refuse(p) \/ WriteRow(p)
         \/ Number(p) \/ Insert(p) \/ Clash(p) \/ Locked(p)
  PROVE  TypeOK'
<1>1. CASE Begin(p)
  <2>1. at' \in [Proc -> Work]
    BY <1>1, PartTypes DEF Begin, Stage
  <2> QED  BY <1>1, <2>1, PartTypes, Fields, TypeParts DEF Begin, TypeOK
<1>2. CASE ReadRow(p)
  <2>1. at' \in [Proc -> Work]
    BY <1>2, PartTypes DEF ReadRow, Stage
  <2> QED  BY <1>2, <2>1, PartTypes, TypeParts DEF ReadRow, TypeOK
<1>3. CASE Refuse(p)
  <2>1. at' \in [Proc -> Work] /\ outcome' \in [Call -> Outcome]
    BY <1>3, PartTypes DEF Refuse, Outcome
  <2> QED  BY <1>3, <2>1, PartTypes, TypeParts DEF Refuse, TypeOK
<1>4. CASE WriteRow(p)
  <2>1. at' \in [Proc -> Work]
    BY <1>4, PartTypes DEF WriteRow, Stage
  <2>2. Wants[at[p].call] \in RunState
    BY <1>4, Fields, JournalAssumption DEF WriteRow, Executes, JournalAssumption
  <2>3. [Sees(p) EXCEPT !.row = Wants[at[p].call]] \in View
    BY <2>2, SeesView DEF View
  <2> QED  BY <1>4, <2>1, <2>3, PartTypes, TypeParts DEF WriteRow, TypeOK
<1>5. CASE Number(p)
  <2>1. Len(Sees(p).log) + 1 \in Nat
    BY SeesView
  <2>2. PICK n \in Nat : n = Len(Sees(p).log) + 1
    BY <2>1
  <2>3. /\ at \in [Proc -> Work]
        /\ at' = [at EXCEPT ![p] = [[at[p] EXCEPT !.stage = "insert"] EXCEPT !.seq = n]]
    BY <1>5, <2>2 DEF Number, TypeOK, Work
  <2>4. PICK w \in Work : w = at[p]
    BY <2>3
  <2>5. [[w EXCEPT !.stage = "insert"] EXCEPT !.seq = n] \in Work
    BY DEF Work, Stage
  <2>6. at' \in [Proc -> Work]
    BY <2>3, <2>4, <2>5
  <2> QED  BY <1>5, <2>6, PartTypes, TypeParts DEF Number, TypeOK
<1>6. CASE Insert(p)
  <2>1. at' \in [Proc -> Work]
    BY <1>6, PartTypes DEF Insert, Stage
  <2>2. at[p].call \in Call
    BY <1>6, Fields DEF Insert, Executes
  <2>3. Append(Sees(p).log, at[p].call) \in Seq(Call)
    BY <2>2, SeesView
  <2>4. [Sees(p) EXCEPT !.log = Append(@, at[p].call)] \in View
    BY <2>3, SeesView DEF View
  <2> QED  BY <1>6, <2>1, <2>4, PartTypes, TypeParts DEF Insert, TypeOK
<1>7. CASE Clash(p)
  <2>1. at' \in [Proc -> Work] /\ outcome' \in [Call -> Outcome]
    BY <1>7, PartTypes DEF Clash, Outcome
  <2> QED  BY <1>7, <2>1, SeesView, PartTypes, TypeParts DEF Clash, TypeOK
<1>8. CASE Locked(p)
  <2>1. "refused" \in Outcome
    BY DEF Outcome
  <2> QED  BY <1>8, <2>1, PartTypes, TypeParts DEF Locked, TypeOK
<1> QED  BY <1>1, <1>2, <1>3, <1>4, <1>5, <1>6, <1>7, <1>8

\* What a write that does not return leaves is a file.
LEMMA TornTypes ==
  ASSUME TypeOK, NEW p \in Proc, Executes(p), at[p].stage = "line"
  PROVE  /\ \A whole \in BOOLEAN : LineOf(p, whole) \in Line
         /\ \A lines \in Torn(p) : lines \in Seq(Line)
<1>1. at[p].call \in Call /\ at[p].seq \in Nat /\ file \in Seq(Line)
  BY Fields DEF Executes, TypeOK
<1>2. \A whole \in BOOLEAN : LineOf(p, whole) \in Line
  BY <1>1 DEF LineOf, Line
<1>3. \A line \in Line : Append(file, line) \in Seq(Line)
  BY <1>1
<1> QED  BY <1>1, <1>2, <1>3 DEF Torn

\* The later steps, and those outside a call.
LEMMA OtherTypes ==
  ASSUME TypeOK, NEW p \in Proc, Executes(p),
         \/ AppendLine(p) \/ AppendFails(p) \/ Commit(p) \/ Project(p)
         \/ Replace(p) \/ ReplaceFails(p) \/ ReadPage(p) \/ Crash(p)
  PROVE  TypeOK'
<1>1. CASE AppendLine(p)
  <2>1. at' \in [Proc -> Work]
    BY <1>1, PartTypes DEF AppendLine, Stage
  <2>2. file' \in Torn(p)
    BY <1>1 DEF AppendLine, Torn
  <2>3. file' \in Seq(Line)
    BY <1>1, <2>2, TornTypes DEF AppendLine
  <2> QED  BY <1>1, <2>1, <2>3, TypeParts DEF AppendLine, TypeOK
<1>2. CASE AppendFails(p)
  <2>1. "rolled back" \in Outcome /\ "error" \in Outcome
    BY DEF Outcome
  <2>2. faults' \in [crashes: 0 .. MaxCrashes, io: 0 .. MaxFaults]
    BY <1>2, FaultTypes DEF AppendFails
  <2>3. file' \in Seq(Line)
    BY <1>2, TornTypes DEF AppendFails
  <2> QED  BY <1>2, <2>1, <2>2, <2>3, PartTypes, TypeParts DEF AppendFails, TypeOK
<1>3. CASE Commit(p)
  <2>1. at' \in [Proc -> Work]
    BY <1>3, PartTypes DEF Commit, Stage
  <2> QED  BY <1>3, <2>1, Fields, PartTypes, TypeParts DEF Commit, TypeOK
<1>4. CASE Project(p)
  <2>1. at' \in [Proc -> Work]
    <3>1. PICK h \in Seq(Call) : h = Sees(p).log
      BY SeesView
    <3>2. /\ at \in [Proc -> Work]
          /\ at' = [at EXCEPT ![p] = [[at[p] EXCEPT !.stage = "replace"] EXCEPT !.shown = h]]
      BY <1>4, <3>1 DEF Project, TypeOK, Work
    <3>3. PICK w \in Work : w = at[p]
      BY <3>2
    <3>4. [[w EXCEPT !.stage = "replace"] EXCEPT !.shown = h] \in Work
      BY DEF Work, Stage
    <3> QED  BY <3>2, <3>3, <3>4
  <2> QED  BY <1>4, <2>1, TypeParts DEF Project, TypeOK
<1>5. CASE Replace(p)
  <2>1. at' \in [Proc -> Work] /\ outcome' \in [Call -> Outcome]
    BY <1>5, PartTypes DEF Replace, Outcome
  <2> QED  BY <1>5, <2>1, Fields, TypeParts DEF Replace, TypeOK
<1>6. CASE ReplaceFails(p)
  <2>1. at' \in [Proc -> Work] /\ outcome' \in [Call -> Outcome]
    BY <1>6, PartTypes DEF ReplaceFails, Outcome
  <2>2. faults' \in [crashes: 0 .. MaxCrashes, io: 0 .. MaxFaults]
    BY <1>6, FaultTypes DEF ReplaceFails
  <2> QED  BY <1>6, <2>1, <2>2, TypeParts DEF ReplaceFails, TypeOK
<1>7. CASE ReadPage(p)
  <2>1. PICK n \in Len(seen[p]) + 1 .. Len(Sees(p).log) :
          seen' = [seen EXCEPT ![p] = @ \o SubSeq(Sees(p).log, Len(@) + 1, n)]
    BY <1>7 DEF ReadPage
  <2>2. seen[p] \o SubSeq(Sees(p).log, Len(seen[p]) + 1, n) \in Seq(Call)
    <3>1. Sees(p).log \in Seq(Call) /\ seen[p] \in Seq(Call)
      BY SeesView, Fields
    <3> QED  BY <2>1, <3>1
  <2>3. seen' \in [Proc -> Seq(Call)]
    BY <2>1, <2>2 DEF TypeOK
  <2> QED  BY <1>7, <2>3, PartTypes, TypeParts DEF ReadPage, TypeOK, Work
<1>8. CASE Crash(p)
  <2>1. at \in [Proc -> Work]
    BY DEF TypeOK, Work
  <2>2. at' \in [Proc -> Work] /\ outcome' \in [Call -> Outcome]
    BY <1>8, <2>1, Fields DEF Crash, TypeOK, Outcome
  <2>3. faults' \in [crashes: 0 .. MaxCrashes, io: 0 .. MaxFaults]
    BY <1>8, FaultTypes DEF Crash
  <2>4. file' \in Seq(Line)
    BY <1>8, TornTypes DEF Crash, TypeOK
  <2> QED  BY <1>8, <2>2, <2>3, <2>4, PartTypes, TypeParts DEF Crash, TypeOK
<1> QED  BY <1>1, <1>2, <1>3, <1>4, <1>5, <1>6, <1>7, <1>8

-----------------------------------------------------------------------------
(* A step of one process.                                                  *)

\* What any action of p does to the rest: it changes nothing of the other
\* processes, writes only if nobody else does, and brings no event into a
\* transaction but the committed ones and its own.
OwnStep(p) ==
  /\ \A q \in Proc \ {p} : at'[q] = at[q] /\ conn'[q] = conn[q] /\ view'[q] = view[q]
  /\ conn'[p] = "writing" => \A q \in Proc \ {p} : conn[q] # "writing"
  /\ \/ at'[p].call \in {at[p].call, Nothing}
     \/ at'[p].call \in Call /\ outcome[at'[p].call] = "new"
  /\ \A e \in Call \ {at[p].call} :
       outcome'[e] = outcome[e] \/ (outcome[e] = "new" /\ outcome'[e] = "running")
  /\ \A e \in ToSet(view'[p].log) :
       e \in ToSet(log) \/ e \in ToSet(view[p].log) \/ e = at[p].call

\* The invariant, for one process.
LEMMA Own ==
  ASSUME IInv, NEW p \in Proc
  PROVE  /\ TypeOK /\ Snapshot(p) /\ Executes(p) /\ Alone /\ Decided
         /\ Lines /\ Fragments /\ RowIsExplained /\ Shown
         /\ at[p].call \in Call <=> at[p].stage # "idle"
         /\ \A q \in Proc \ {p} : at[q].call # Nothing => at[q].call # at[p].call
         /\ conn[p] = "writing" => \A q \in Proc \ {p} : conn[q] # "writing"
<1>1. at[p].call \in Call \union {Nothing} /\ Nothing \notin Call
  BY Fields, JournalAssumption DEF IInv, JournalAssumption
<1> QED  BY <1>1 DEF IInv, Alone, Executes

\* An event that was in no history stays out, but for that of the call of p.
LEMMA StaysAbsent ==
  ASSUME NEW p \in Proc, OwnStep(p), NEW e, e # at[p].call, Absent(e),
         \A x \in ToSet(log') : x \in ToSet(log) \/ x \in ToSet(view[p].log)
  PROVE  Absent(e)'
<1>1. e \notin ToSet(log')
  BY DEF Absent
<1>2. ASSUME NEW q \in Proc
      PROVE  e \notin ToSet(view'[q].log)
  BY DEF Absent, OwnStep
<1> QED  BY <1>1, <1>2 DEF Absent

\* A failed append stays one.
LEMMA ErrorsStay ==
  ASSUME IInv, NEW p \in Proc, OwnStep(p)
  PROVE  /\ \A e \in Call : outcome[e] = "error" => outcome'[e] = "error"
         /\ (\A e \in Call : outcome'[e] # "error") => \A e \in Call : outcome[e] # "error"
<1>1. ASSUME NEW e \in Call, outcome[e] = "error"
      PROVE  outcome'[e] = "error"
  <2>1. e # at[p].call
    BY <1>1, Own, JournalAssumption DEF Executes, JournalAssumption
  <2> QED  BY <1>1, <2>1 DEF OwnStep
<1> QED  BY <1>1

\* A call that left the beginning of a line has ended, and stays what it was.
LEMMA FragmentsStay ==
  ASSUME IInv, NEW p \in Proc, OwnStep(p), file' = file \/ Fragments'
  PROVE  Fragments'
<1> SUFFICES ASSUME file' = file, NEW i \in DOMAIN file, file[i] \notin Whole
             PROVE  outcome'[file[i].call] \in {"error", "rolled back", "lost"}
  BY DEF Fragments
<1>1. /\ file[i].call \in Call
      /\ outcome[file[i].call] \in {"error", "rolled back", "lost"}
  <2>1. file \in Seq(Line)
    BY Own DEF TypeOK
  <2>2. file[i] \in Line
    BY <2>1, Entry
  <2> QED  BY <2>2, Own DEF Fragments, Line
<1>2. file[i].call # at[p].call
  BY <1>1, Own, JournalAssumption DEF Executes, JournalAssumption
<1> QED  BY <1>1, <1>2 DEF OwnStep

\* The invariant of a process that does not take the step.
LEMMA Aside ==
  ASSUME IInv, TypeOK', NEW p \in Proc, OwnStep(p), NEW q \in Proc \ {p},
         Prefix(log, log'),
         \A x \in ToSet(log') : x \in ToSet(log) \/ x \in ToSet(view[p].log),
         conn[q] = "writing" => log' = log /\ file' = file
  PROVE  Snapshot(q)' /\ Executes(q)'
<1>1. at'[q] = at[q] /\ conn'[q] = conn[q] /\ view'[q] = view[q]
  BY DEF OwnStep
<1>2. TypeOK /\ Snapshot(q) /\ Executes(q)
  BY Own
<1>3. /\ view[q].log \in Seq(Call) /\ log \in Seq(Call) /\ log' \in Seq(Call)
      /\ at[q].shown \in Seq(Call)
  BY <1>2, Fields DEF TypeOK
<1>4. (Moving(q)' <=> Moving(q)) /\ (Inserted(q)' <=> Inserted(q))
  BY <1>1 DEF Moving, Inserted
<1>5. Snapshot(q)'
  <2>1. ASSUME conn'[q] = "writing", NEW n \in Len(log') + 1 .. Len(view'[q].log)
        PROVE  outcome'[view'[q].log[n]] = "error" \/ (n = Len(view'[q].log) /\ Inserted(q)')
    <3>1. conn[q] = "writing" /\ n \in Len(log) + 1 .. Len(view[q].log)
      BY <1>1, <2>1
    <3>2. view[q].log[n] \in Call
      BY <1>3, <3>1
    <3>3. outcome[view[q].log[n]] = "error" \/ (n = Len(view[q].log) /\ Inserted(q))
      BY <1>2, <3>1 DEF Snapshot
    <3> QED  BY <1>1, <1>4, <3>2, <3>3, ErrorsStay
  <2>2. conn'[q] = "writing" => Prefix(log', view'[q].log)
    BY <1>1, <1>2 DEF Snapshot
  <2>3. conn'[q] = "reading" => Prefix(view'[q].log, log')
    BY <1>1, <1>2, <1>3, PrefixIsOrder DEF Snapshot
  <2>4. IF Moving(q)' THEN conn'[q] = "writing" /\ view'[q].row = Wants[at'[q].call]
        ELSE Explained(view'[q].row, view'[q].log)
    BY <1>1, <1>2, <1>4 DEF Snapshot
  <2>5. conn'[q] \in {"auto", "begun"} => view'[q] = NoView
    BY <1>1, <1>2 DEF Snapshot
  <2>6. (Explained(view[q].row, view[q].log))' <=> Explained(view'[q].row, view'[q].log)
    BY DEF Explained
  <2> QED  BY <2>1, <2>2, <2>3, <2>4, <2>5, <2>6 DEF Snapshot, NoView
<1>6. Executes(q)'
  <2>1. at[q].call # Nothing => at[q].call # at[p].call /\ at[q].call \in Call
    BY <1>2, Own, Fields
  <2>2. at'[q].call # Nothing => outcome'[at'[q].call] = "running"
    BY <1>1, <1>2, <2>1 DEF Executes, OwnStep
  <2>3. (at[q].stage \in {"begin", "read", "write", "number", "insert"} => Absent(at[q].call))'
    <3>1. SUFFICES ASSUME at[q].stage \in {"begin", "read", "write", "number", "insert"}
                   PROVE  /\ at[q].call \notin ToSet(log')
                          /\ \A r \in Proc : at[q].call \notin ToSet(view'[r].log)
      BY <1>1 DEF Absent
    <3>2. at[q].call # Nothing /\ Absent(at[q].call)
      BY <1>2, <3>1 DEF Executes
    <3>3. PICK e : e = at[q].call
      OBVIOUS
    <3>4. Absent(e) /\ e # at[p].call
      BY <2>1, <3>2, <3>3
    <3>5. Absent(e)'
      BY <3>4, StaysAbsent
    <3> QED  BY <3>3, <3>5 DEF Absent
  <2>4. Inserted(q)' =>
          /\ conn'[q] = "writing"
          /\ at'[q].seq = Len(view'[q].log) /\ at'[q].seq > Len(log')
          /\ view'[q].log[at'[q].seq] = at'[q].call
          /\ at'[q].call \notin ToSet(log')
    BY <1>1, <1>2, <1>4 DEF Executes
  <2>5. (at[q].stage = "commit" => Newest(at[q].seq, at[q].call, file))'
    BY <1>1, <1>2 DEF Executes, Inserted, Newest
  <2>6. at'[q].stage \in {"project", "replace"} => conn'[q] = "auto" /\ at'[q].call \in ToSet(log')
    BY <1>1, <1>2, <1>3, PrefixIsOrder DEF Executes
  <2>7. at'[q].stage = "replace" => Prefix(at'[q].shown, log')
    BY <1>1, <1>2, <1>3, PrefixIsOrder DEF Executes
  <2>8. /\ at'[q].call = Nothing <=> at'[q].stage = "idle"
        /\ at'[q].stage \in {"read", "write"} => Wants[at'[q].call] # Checkpoint
        /\ at'[q].stage = "insert" /\ Moving(q)' => at'[q].seq = Len(view'[q].log) + 1
    BY <1>1, <1>2, <1>4 DEF Executes
  <2> QED  BY <2>2, <2>3, <2>4, <2>5, <2>6, <2>7, <2>8 DEF Executes
<1> QED  BY <1>5, <1>6

\* One transaction writes and one process is in a call, still.
LEMMA StaysAlone ==
  ASSUME IInv, NEW p \in Proc, OwnStep(p)
  PROVE  Alone'
<1>1. ASSUME NEW q \in Proc, NEW r \in Proc, conn'[q] = "writing", conn'[r] = "writing"
      PROVE  q = r
  BY <1>1, Own DEF OwnStep, Alone
<1>2. ASSUME NEW q \in Proc \ {p}
      PROVE  at'[q].call # Nothing => at'[q].call # at'[p].call
  <2>1. at'[q] = at[q] /\ (at[q].call # Nothing => at[q].call # at[p].call)
    BY Own DEF OwnStep
  <2>2. at[q].call # Nothing => outcome[at[q].call] = "running"
    BY Own DEF Executes
  <2> QED  BY <2>1, <2>2 DEF OwnStep
<1>3. ASSUME NEW q \in Proc, NEW r \in Proc, at'[q].call = at'[r].call, at'[q].call # Nothing
      PROVE  q = r
  <2>1. CASE q # p /\ r # p
    <3>1. at'[q] = at[q] /\ at'[r] = at[r] /\ Alone
      BY <2>1, Own DEF OwnStep
    <3> QED  BY <1>3, <3>1 DEF Alone
  <2>2. CASE q = p \/ r = p
    BY <1>2, <1>3, <2>2
  <2> QED  BY <2>1, <2>2
<1> QED  BY <1>1, <1>3 DEF Alone

\* A step of p that commits nothing keeps the invariant, if it leaves p itself
\* as it should be and decides its call rightly.
LEMMA LocalStep ==
  ASSUME IInv, TypeOK', NEW p \in Proc, OwnStep(p), log' = log, row' = row,
         file' = file \/ (conn[p] = "writing" /\ Lines' /\ Fragments'),
         (seen' = seen /\ projection' = projection) \/ Shown',
         at[p].call \in Call /\ outcome'[at[p].call] \in {"new", "refused", "rolled back"} =>
           /\ at[p].call \notin ToSet(log) /\ at[p].call \notin ToSet(view'[p].log)
           /\ \A q \in Proc \ {p} : at[p].call \notin ToSet(view[q].log),
         at[p].call \in Call /\ outcome'[at[p].call] \in {"ok", "unreported"} =>
           at[p].call \in ToSet(log),
         Snapshot(p)', Executes(p)'
  PROVE  IInv'
<1>1. TypeOK /\ log \in Seq(Call)
  BY DEF IInv, TypeOK
<1>2. Prefix(log, log') /\ \A x \in ToSet(log') : x \in ToSet(log) \/ x \in ToSet(view[p].log)
  BY <1>1, PrefixIsOrder
<1>3. ASSUME NEW q \in Proc
      PROVE  Snapshot(q)' /\ Executes(q)'
  <2>1. CASE q = p
    BY <2>1
  <2>2. CASE q # p
    <3>1. conn[q] = "writing" => log' = log /\ file' = file
      BY <2>2, Own
    <3> QED  BY <1>2, <2>2, <3>1, Aside
  <2> QED  BY <2>1, <2>2
<1>4. Alone'
  BY StaysAlone
<1>5. Decided'
  <2>1. ASSUME NEW e \in Call
        PROVE  /\ outcome'[e] \in {"new", "refused", "rolled back"} => Absent(e)'
               /\ outcome'[e] \in {"ok", "unreported"} => e \in ToSet(log')
    <3>1. CASE e = at[p].call
      <4>1. outcome'[e] \in {"new", "refused", "rolled back"} =>
              \A q \in Proc : e \notin ToSet(view'[q].log)
        BY <3>1 DEF OwnStep
      <4> QED  BY <3>1, <4>1 DEF Absent
    <3>2. CASE e # at[p].call /\ outcome'[e] = outcome[e]
      <4>1. outcome[e] \in {"new", "refused", "rolled back"} => Absent(e)
        BY Own DEF Decided
      <4>2. outcome[e] \in {"ok", "unreported"} => e \in ToSet(log)
        BY Own DEF Decided
      <4> QED  BY <1>2, <3>2, <4>1, <4>2, StaysAbsent
    <3>3. CASE outcome'[e] = "running"
      BY <3>3
    <3> QED  BY <3>1, <3>2, <3>3 DEF OwnStep
  <2> QED  BY <2>1 DEF Decided
<1>6. Lines'
  <2>1. CASE file' = file
    <3>1. ASSUME NEW n \in DOMAIN log, outcome'[log[n]] # "error"
          PROVE  Newest(n, log[n], file)
      <4>1. log[n] \in Call
        BY <1>1, Entry
      <4>2. outcome[log[n]] # "error" /\ Lines
        BY <3>1, <4>1, Own, ErrorsStay
      <4> QED  BY <4>2 DEF Lines, Newest
    <3>2. \A n \in DOMAIN log' : outcome'[log'[n]] # "error" => Newest(n, log'[n], file')
      BY <2>1, <3>1
    <3> QED  BY <3>2 DEF Lines, Newest
  <2> QED  BY <2>1
<1>7. RowIsExplained'
  BY Own DEF RowIsExplained, Explained
<1>8. Fragments'
  BY FragmentsStay
<1>9. Shown'
  <2>1. CASE seen' = seen /\ projection' = projection
    <3>1. Shown
      BY Own
    <3> QED  BY <2>1, <3>1, ErrorsStay DEF Shown
  <2> QED  BY <2>1
<1> QED  BY <1>3, <1>4, <1>5, <1>6, <1>7, <1>8, <1>9 DEF IInv

-----------------------------------------------------------------------------
(* The parts of an action.                                                 *)

\* Goes moves p to another stage of its call; Ends takes it out.
LEMMA Moves ==
  ASSUME TypeOK, NEW p \in Proc
  PROVE  /\ \A s \in Stage : Goes(p, s) =>
              /\ at'[p].stage = s /\ at'[p].call = at[p].call
              /\ at'[p].seq = at[p].seq /\ at'[p].shown = at[p].shown
              /\ \A q \in Proc \ {p} : at'[q] = at[q]
         /\ \A how : Ends(p, how) =>
              /\ at'[p] = Away
              /\ \A q \in Proc \ {p} : at'[q] = at[q]
              /\ \A e \in Call \ {at[p].call} : outcome'[e] = outcome[e]
              /\ at[p].call \in Call => outcome'[at[p].call] = how
<1>1. ASSUME NEW s \in Stage, Goes(p, s)
      PROVE  /\ at'[p].stage = s /\ at'[p].call = at[p].call
             /\ at'[p].seq = at[p].seq /\ at'[p].shown = at[p].shown
             /\ \A q \in Proc \ {p} : at'[q] = at[q]
  <2>1. at \in [Proc -> Work]
    BY DEF TypeOK, Work
  <2> QED  BY <1>1, <2>1 DEF Goes, Work
<1>2. ASSUME NEW how, Ends(p, how)
      PROVE  /\ at'[p] = Away
             /\ \A q \in Proc \ {p} : at'[q] = at[q]
             /\ \A e \in Call \ {at[p].call} : outcome'[e] = outcome[e]
             /\ at[p].call \in Call => outcome'[at[p].call] = how
  BY <1>2 DEF Ends, TypeOK
<1> QED  BY <1>1, <1>2

\* The transaction of p after a SELECT: its snapshot, taken now or before.
LEMMA Selected ==
  ASSUME IInv, NEW p \in Proc, Selects(p)
  PROVE  /\ \A q \in Proc \ {p} : conn'[q] = conn[q] /\ view'[q] = view[q]
         /\ conn'[p] = "writing" <=> conn[p] = "writing"
         /\ conn[p] = "writing" => view'[p] = view[p]
         /\ conn'[p] \in {"auto", "begun"} => view'[p] = NoView
         /\ conn'[p] = "reading" => Prefix(view'[p].log, log)
         /\ ~Moving(p) => Explained(view'[p].row, view'[p].log)
         /\ \A e \in ToSet(view'[p].log) : e \in ToSet(log) \/ e \in ToSet(view[p].log)
         /\ conn'[p] # "auto" => view'[p] = Sees(p)
         /\ conn'[p] = "auto" => Sees(p) = Committed
<1>1. TypeOK /\ Snapshot(p) /\ RowIsExplained /\ Prefix(log, log)
  BY Own, PrefixIsOrder DEF TypeOK
<1>2. CASE conn[p] = "begun"
  <2>1. /\ conn'[p] = "reading" /\ view'[p] = Committed
        /\ \A q \in Proc \ {p} : conn'[q] = conn[q] /\ view'[q] = view[q]
    BY <1>1, <1>2 DEF Selects, TypeOK
  <2>2. view'[p].log = log /\ view'[p].row = row
    BY <2>1 DEF Committed
  <2> QED  BY <1>1, <1>2, <2>1, <2>2 DEF RowIsExplained, Sees
<1>3. CASE conn[p] # "begun"
  <2>1. conn' = conn /\ view' = view
    BY <1>3 DEF Selects
  <2>2. conn[p] \in {"auto", "reading", "writing"}
    BY <1>1, <1>3 DEF TypeOK, Conn
  <2>3. ~Moving(p) => Explained(view[p].row, view[p].log)
    BY <1>1 DEF Snapshot
  <2>4. /\ conn[p] = "auto" => view[p] = NoView
        /\ conn[p] = "reading" => Prefix(view[p].log, log)
    BY <1>1 DEF Snapshot
  <2> QED  BY <2>1, <2>2, <2>3, <2>4 DEF Sees
<1> QED  BY <1>2, <1>3

\* A step that selects and leaves p in its call, or out of one, as it was.
LEMMA SelectedSnapshot ==
  ASSUME IInv, TypeOK', NEW p \in Proc, OwnStep(p), Selects(p), log' = log, ~Inserted(p),
         Moving(p)' <=> Moving(p), Moving(p) => at'[p].call = at[p].call
  PROVE  Snapshot(p)'
<1>1. TypeOK /\ Snapshot(p)
  BY Own
<1>2. ASSUME conn'[p] = "writing"
      PROVE  /\ Prefix(log', view'[p].log)
             /\ \A n \in Len(log') + 1 .. Len(view'[p].log) : outcome'[view'[p].log[n]] = "error"
  <2>1. conn[p] = "writing" /\ view'[p] = view[p]
    BY <1>2, Selected
  <2>2. ASSUME NEW n \in Len(log) + 1 .. Len(view[p].log)
        PROVE  outcome'[view[p].log[n]] = "error"
    <3>1. view[p].log[n] \in Call
      <4>1. view[p].log \in Seq(Call) /\ log \in Seq(Call)
        BY <1>1, Fields DEF TypeOK
      <4> QED  BY <4>1
    <3> QED  BY <1>1, <2>1, <3>1, ErrorsStay DEF Snapshot
  <2> QED  BY <1>1, <2>1, <2>2 DEF Snapshot
<1>3. IF Moving(p)' THEN conn'[p] = "writing" /\ view'[p].row = Wants[at'[p].call]
      ELSE Explained(view'[p].row, view'[p].log)
  BY <1>1, Selected DEF Snapshot
<1>4. (Explained(view[p].row, view[p].log))' <=> Explained(view'[p].row, view'[p].log)
  BY DEF Explained
<1>5. /\ conn'[p] \in {"auto", "begun"} => view'[p] = NoView
      /\ conn'[p] = "reading" => Prefix(view'[p].log, log')
  BY Selected
<1> QED  BY <1>2, <1>3, <1>4, <1>5 DEF Snapshot, NoView

\* What p finds when it may write: the committed history, then failed events.
LEMMA Writable ==
  ASSUME IInv, NEW p \in Proc, MayWrite(p), ~Inserted(p)
  PROVE  /\ \A q \in Proc \ {p} : conn[q] # "writing"
         /\ Prefix(log, Sees(p).log)
         /\ \A n \in Len(log) + 1 .. Len(Sees(p).log) : outcome[Sees(p).log[n]] = "error"
         /\ IF Moving(p) THEN conn[p] = "writing" /\ Sees(p).row = Wants[at[p].call]
            ELSE Explained(Sees(p).row, Sees(p).log)
         /\ \A e \in ToSet(Sees(p).log) : e \in ToSet(log) \/ e \in ToSet(view[p].log)
<1>1. TypeOK /\ Snapshot(p) /\ RowIsExplained /\ log \in Seq(Call) /\ Prefix(log, log)
  BY Own, PrefixIsOrder DEF TypeOK
<1>2. \A q \in Proc \ {p} : conn[q] # "writing"
  BY Own DEF MayWrite
<1>3. CASE conn[p] = "writing"
  <2>1. Sees(p) = view[p]
    BY <1>3 DEF Sees
  <2> QED  BY <1>1, <1>2, <1>3, <2>1 DEF Snapshot
<1>4. CASE conn[p] # "writing"
  <2>1. Sees(p) = Committed
    BY <1>4 DEF Sees, MayWrite
  <2>2. Sees(p).log = log /\ Sees(p).row = row
    BY <2>1 DEF Committed
  <2>3. Len(log) \in Nat /\ Len(log) + 1 .. Len(log) = {}
    BY <1>1
  <2>4. ~Moving(p)
    BY <1>1, <1>4 DEF Snapshot
  <2> QED  BY <1>1, <1>2, <2>2, <2>3, <2>4 DEF RowIsExplained
<1> QED  BY <1>3, <1>4

\* A process that is out of its call, its transaction closed or as it was.
LEMMA LeftAlone ==
  ASSUME IInv, TypeOK', NEW p \in Proc, OwnStep(p), log' = log, at'[p] = Away,
         \/ conn'[p] \in {"auto", "begun"} /\ view'[p] = NoView
         \/ /\ conn'[p] = conn[p] /\ view'[p] = view[p] /\ ~Moving(p)
            /\ Inserted(p) => outcome'[at[p].call] = "error"
  PROVE  Snapshot(p)' /\ Executes(p)'
<1>1. TypeOK /\ Snapshot(p) /\ Executes(p)
  BY Own
<1>2. ~Moving(p)' /\ ~Inserted(p)'
  BY DEF Moving, Inserted, Away
<1>3. Executes(p)'
  BY <1>2 DEF Executes, Away, Absent, Inserted
<1>4. Explained("RUNNING", <<>>)
  BY DEF Explained
<1>5. CASE conn'[p] \in {"auto", "begun"} /\ view'[p] = NoView
  <2>1. view'[p].row = "RUNNING" /\ view'[p].log = <<>>
    BY <1>5 DEF NoView
  <2>2. Explained(view'[p].row, view'[p].log)
    BY <1>4, <2>1
  <2>3. (Explained(view[p].row, view[p].log))' <=> Explained(view'[p].row, view'[p].log)
    BY DEF Explained
  <2> QED  BY <1>2, <1>3, <1>5, <2>2, <2>3 DEF Snapshot, NoView
<1>6. CASE /\ conn'[p] = conn[p] /\ view'[p] = view[p] /\ ~Moving(p)
           /\ Inserted(p) => outcome'[at[p].call] = "error"
  <2>1. Explained(view'[p].row, view'[p].log)
    BY <1>1, <1>6 DEF Snapshot
  <2>2. (Explained(view[p].row, view[p].log))' <=> Explained(view'[p].row, view'[p].log)
    BY DEF Explained
  <2>3. ASSUME conn'[p] = "writing", NEW n \in Len(log') + 1 .. Len(view'[p].log)
        PROVE  outcome'[view'[p].log[n]] = "error"
    <3>1. view[p].log \in Seq(Call) /\ log \in Seq(Call)
      BY <1>1, Fields DEF TypeOK
    <3>2. view[p].log[n] \in Call /\ n \in Len(log) + 1 .. Len(view[p].log)
      BY <1>6, <2>3, <3>1
    <3>3. outcome[view[p].log[n]] = "error" \/ (n = Len(view[p].log) /\ Inserted(p))
      BY <1>1, <1>6, <2>3, <3>2 DEF Snapshot
    <3>4. Inserted(p) => view[p].log[Len(view[p].log)] = at[p].call
      BY <1>1 DEF Executes
    <3> QED  BY <1>6, <3>2, <3>3, <3>4, ErrorsStay
  <2>4. /\ conn'[p] \in {"auto", "begun"} => view'[p] = NoView
        /\ conn'[p] = "reading" => Prefix(view'[p].log, log')
        /\ conn'[p] = "writing" => Prefix(log', view'[p].log)
    BY <1>1, <1>6 DEF Snapshot
  <2>5. conn'[p] = "writing" =>
          \A n \in Len(log') + 1 .. Len(view'[p].log) : outcome'[view'[p].log[n]] = "error"
    BY <2>3
  <2>6. IF Moving(p)' THEN conn'[p] = "writing" /\ view'[p].row = Wants[at'[p].call]
        ELSE Explained(view'[p].row, view'[p].log)
    BY <1>2, <2>1
  <2> QED  BY <1>3, <2>2, <2>4, <2>5, <2>6 DEF Snapshot, NoView
<1> QED  BY <1>3, <1>5, <1>6

-----------------------------------------------------------------------------
\* A process out of its call executes nothing.
LEMMA Idle ==
  ASSUME NEW p \in Proc, at'[p] = Away
  PROVE  /\ Executes(p)' /\ ~Moving(p)' /\ ~Inserted(p)'
         /\ at'[p].call = Nothing /\ at'[p].stage = "idle"
BY DEF Executes, Moving, Inserted, Away, Absent

\* A step that leaves the transaction of p as it was.
LEMMA KeptSnapshot ==
  ASSUME IInv, TypeOK', NEW p \in Proc, OwnStep(p), log' = log,
         conn'[p] = conn[p], view'[p] = view[p],
         Moving(p)' <=> Moving(p), Moving(p) => at'[p].call = at[p].call,
         Inserted(p) => Inserted(p)'
  PROVE  Snapshot(p)'
<1>1. TypeOK /\ Snapshot(p)
  BY Own
<1>2. ASSUME NEW n \in Len(log') + 1 .. Len(view'[p].log), conn'[p] = "writing"
      PROVE  outcome'[view'[p].log[n]] = "error" \/ (n = Len(view'[p].log) /\ Inserted(p)')
  <2>1. view[p].log \in Seq(Call) /\ log \in Seq(Call)
    BY <1>1, Fields DEF TypeOK
  <2>2. view[p].log[n] \in Call /\ n \in Len(log) + 1 .. Len(view[p].log)
    BY <1>2, <2>1
  <2>3. outcome[view[p].log[n]] = "error" \/ (n = Len(view[p].log) /\ Inserted(p))
    BY <1>1, <1>2, <2>2 DEF Snapshot
  <2> QED  BY <2>2, <2>3, ErrorsStay
<1>3. IF Moving(p)' THEN conn'[p] = "writing" /\ view'[p].row = Wants[at'[p].call]
      ELSE Explained(view'[p].row, view'[p].log)
  BY <1>1 DEF Snapshot
<1>4. (Explained(view[p].row, view[p].log))' <=> Explained(view'[p].row, view'[p].log)
  BY DEF Explained
<1>5. /\ conn'[p] \in {"auto", "begun"} => view'[p] = NoView
      /\ conn'[p] = "reading" => Prefix(view'[p].log, log')
      /\ conn'[p] = "writing" => Prefix(log', view'[p].log)
  BY <1>1 DEF Snapshot
<1> QED  BY <1>2, <1>3, <1>4, <1>5 DEF Snapshot, NoView

\* A step that writes.
LEMMA WrittenSnapshot ==
  ASSUME IInv, TypeOK', NEW p \in Proc, log' = log, conn'[p] = "writing",
         Prefix(log, view'[p].log),
         \A n \in Len(log) + 1 .. Len(view'[p].log) :
           outcome'[view'[p].log[n]] = "error" \/ (n = Len(view'[p].log) /\ Inserted(p)'),
         IF Moving(p)' THEN view'[p].row = Wants[at'[p].call]
         ELSE Explained(view'[p].row, view'[p].log)
  PROVE  Snapshot(p)'
<1>1. (Explained(view[p].row, view[p].log))' <=> Explained(view'[p].row, view'[p].log)
  BY DEF Explained
<1> QED  BY <1>1 DEF Snapshot

\* Writing, closing and raising, seen by p and by the others.
LEMMA Connections ==
  ASSUME TypeOK, NEW p \in Proc
  PROVE  /\ \A v : Writes(p, v) =>
              /\ conn'[p] = "writing" /\ view'[p] = v
              /\ \A q \in Proc \ {p} : conn'[q] = conn[q] /\ view'[q] = view[q]
         /\ CloseTransaction(p) =>
              /\ conn'[p] = "auto" /\ view'[p] = NoView
              /\ \A q \in Proc \ {p} : conn'[q] = conn[q] /\ view'[q] = view[q]
         /\ \A how : Raises(p, how) =>
              /\ \A q \in Proc \ {p} : conn'[q] = conn[q] /\ view'[q] = view[q]
              /\ at[p].call \in Guarded => conn'[p] = "auto" /\ view'[p] = NoView
              /\ at[p].call \notin Guarded =>
                   /\ view'[p] = view[p]
                   /\ conn'[p] = IF conn[p] = "auto" THEN "begun" ELSE conn[p]
BY DEF Writes, CloseTransaction, Raises, TypeOK

\* The call of p is still in no history.
LEMMA StillAbsent ==
  ASSUME NEW p \in Proc, OwnStep(p), log' = log, Absent(at[p].call), at'[p].call = at[p].call,
         \A e \in ToSet(view'[p].log) : e \in ToSet(log) \/ e \in ToSet(view[p].log)
  PROVE  (Absent(at[p].call))'
<1>1. \A q \in Proc : at[p].call \notin ToSet(view'[q].log)
  BY DEF Absent, OwnStep
<1>2. at[p].call \notin ToSet(log')
  BY DEF Absent
<1> QED  BY <1>1, <1>2 DEF Absent

-----------------------------------------------------------------------------
(* The actions.                                                            *)

\* A call starts: its event is new.
LEMMA StartKeeps ==
  ASSUME IInv, TypeOK', NEW p \in Proc, NEW e \in Call, Start(p, e)
  PROVE  IInv'
<1> DEFINE s == IF e \in Guarded THEN "begin"
                ELSE IF Wants[e] = Checkpoint THEN "number"
                ELSE "read"
           w == [Away EXCEPT !.call = e, !.stage = s]
<1>1. TypeOK /\ at[p].stage = "idle" /\ at[p].call \notin Call /\ outcome[e] = "new"
  BY Own DEF Start
<1>2. at'[p] = w /\ \A q \in Proc \ {p} : at'[q] = at[q]
  BY <1>1 DEF Start, TypeOK
<1>3. /\ at'[p].call = e /\ at'[p].stage = s
      /\ s \in {"begin", "number", "read"}
      /\ s = "number" => Wants[e] = Checkpoint
      /\ s = "read" => Wants[e] # Checkpoint
  <2>1. w.call = e /\ w.stage = s
    <3> HIDE DEF s
    <3> QED  BY DEF Away
  <2> QED  BY <1>2, <2>1
<1>4. e # Nothing
  BY JournalAssumption DEF JournalAssumption
<1> HIDE DEF s, w
<1>5. /\ outcome'[e] = "running" /\ \A x \in Call \ {e} : outcome'[x] = outcome[x]
      /\ log' = log /\ row' = row /\ file' = file /\ projection' = projection
      /\ conn' = conn /\ view' = view /\ seen' = seen
  BY <1>1 DEF Start, TypeOK
<1>6. OwnStep(p)
  BY <1>1, <1>2, <1>3, <1>5, Own DEF OwnStep
<1>7. ~Moving(p) /\ ~Moving(p)' /\ ~Inserted(p) /\ ~Inserted(p)'
  BY <1>1, <1>3 DEF Moving, Inserted
<1>8. Snapshot(p)'
  BY <1>5, <1>6, <1>7, KeptSnapshot
<1>9. Executes(p)'
  <2>1. Absent(e)
    BY <1>1, Own DEF Decided
  <2>2. (Absent(at[p].call))'
    BY <1>3, <1>5, <2>1 DEF Absent
  <2> QED  BY <1>3, <1>4, <1>5, <1>7, <2>2 DEF Executes
<1> QED  BY <1>1, <1>5, <1>6, <1>8, <1>9, LocalStep

\* BEGIN IMMEDIATE.
LEMMA BeginKeeps ==
  ASSUME IInv, TypeOK', NEW p \in Proc, Begin(p)
  PROVE  IInv'
<1> DEFINE s == IF Wants[at[p].call] = Checkpoint THEN "number" ELSE "read"
<1>1. TypeOK /\ Executes(p) /\ at[p].stage = "begin" /\ conn[p] = "auto" /\ MayWrite(p)
  BY Own DEF Begin
<1>2. ~Moving(p) /\ ~Inserted(p) /\ Sees(p) = Committed
  BY <1>1 DEF Moving, Inserted, Sees
<1>3. /\ at'[p].call = at[p].call /\ at'[p].stage = s
      /\ \A q \in Proc \ {p} : at'[q] = at[q]
  <2>1. s \in Stage
    BY DEF Stage
  <2> QED  BY <1>1, <2>1, Moves DEF Begin
<1>4. /\ s \in {"number", "read"}
      /\ s = "number" => Wants[at[p].call] = Checkpoint
      /\ s = "read" => Wants[at[p].call] # Checkpoint
  OBVIOUS
<1> HIDE DEF s
<1>5. /\ conn'[p] = "writing" /\ view'[p] = Committed
      /\ \A q \in Proc \ {p} : conn'[q] = conn[q] /\ view'[q] = view[q]
  BY <1>1, Connections DEF Begin
<1>6. /\ log' = log /\ row' = row /\ file' = file /\ projection' = projection
      /\ outcome' = outcome /\ seen' = seen
  BY DEF Begin
<1>7. view'[p].log = log /\ view'[p].row = row
  BY <1>5 DEF Committed
<1>8. OwnStep(p)
  BY <1>1, <1>2, <1>3, <1>5, <1>6, <1>7, Writable DEF OwnStep
<1>9. ~Moving(p)' /\ ~Inserted(p)'
  BY <1>3, <1>4 DEF Moving, Inserted
<1>10. Snapshot(p)'
  <2>1. /\ Prefix(log, view'[p].log) /\ Explained(view'[p].row, view'[p].log)
        /\ \A n \in Len(log) + 1 .. Len(view'[p].log) : outcome'[view'[p].log[n]] = "error"
    BY <1>1, <1>2, <1>5, <1>6, Writable
  <2> QED  BY <1>5, <1>6, <1>9, <2>1, WrittenSnapshot
<1>11. (Absent(at[p].call))'
  BY <1>1, <1>3, <1>6, <1>7, <1>8, StillAbsent DEF Executes
<1>12. Executes(p)'
  BY <1>1, <1>3, <1>4, <1>6, <1>9, <1>11 DEF Executes
<1>13. at[p].call \in Call => outcome'[at[p].call] = "running"
  BY <1>1, <1>6, JournalAssumption DEF Executes, JournalAssumption
<1> QED  BY <1>6, <1>8, <1>10, <1>12, <1>13, LocalStep

\* The row is read.
LEMMA ReadRowKeeps ==
  ASSUME IInv, TypeOK', NEW p \in Proc, ReadRow(p)
  PROVE  IInv'
<1>1. TypeOK /\ Executes(p) /\ at[p].stage = "read" /\ Selects(p)
  BY Own DEF ReadRow
<1>2. /\ at'[p].call = at[p].call /\ at'[p].stage = "write"
      /\ \A q \in Proc \ {p} : at'[q] = at[q]
  <2>1. "write" \in Stage
    BY DEF Stage
  <2> QED  BY <1>1, <2>1, Moves DEF ReadRow
<1>3. /\ log' = log /\ row' = row /\ file' = file /\ projection' = projection
      /\ outcome' = outcome /\ seen' = seen
  BY DEF ReadRow
<1>4. ~Moving(p) /\ ~Inserted(p) /\ ~Moving(p)' /\ ~Inserted(p)'
  BY <1>1, <1>2 DEF Moving, Inserted
<1>5. OwnStep(p)
  BY <1>1, <1>2, <1>3, Selected, Own DEF OwnStep
<1>6. Snapshot(p)'
  BY <1>1, <1>3, <1>4, <1>5, SelectedSnapshot
<1>7. (Absent(at[p].call))'
  BY <1>1, <1>2, <1>3, <1>5, Selected, StillAbsent DEF Executes
<1>8. Executes(p)'
  BY <1>1, <1>2, <1>3, <1>4, <1>7 DEF Executes
<1>9. at[p].call \in Call => outcome'[at[p].call] = "running"
  BY <1>1, <1>3, JournalAssumption DEF Executes, JournalAssumption
<1> QED  BY <1>3, <1>5, <1>6, <1>8, <1>9, LocalStep

\* The transition is refused: the event of the call is in no history.
LEMMA RefuseKeeps ==
  ASSUME IInv, TypeOK', NEW p \in Proc, Refuse(p)
  PROVE  IInv'
<1>1. TypeOK /\ Executes(p) /\ at[p].stage = "read" /\ Absent(at[p].call) /\ at[p].call \in Call
  BY Own DEF Refuse, Executes
<1>2. /\ at'[p] = Away /\ \A q \in Proc \ {p} : at'[q] = at[q]
      /\ outcome'[at[p].call] = "refused"
      /\ \A e \in Call \ {at[p].call} : outcome'[e] = outcome[e]
  BY <1>1, Moves DEF Refuse
<1>3. /\ log' = log /\ row' = row /\ file' = file /\ projection' = projection /\ seen' = seen
  BY DEF Refuse
<1>4. ~Moving(p) /\ ~Inserted(p) /\ ~Moving(p)' /\ ~Inserted(p)' /\ at'[p].call = Nothing
  BY <1>1, <1>2, Idle DEF Moving, Inserted
<1>5. CASE at[p].call \in Guarded
  <2>1. /\ conn'[p] = "auto" /\ view'[p] = NoView
        /\ \A q \in Proc \ {p} : conn'[q] = conn[q] /\ view'[q] = view[q]
    BY <1>1, <1>5, Connections DEF Refuse
  <2>2. ToSet(view'[p].log) = {}
    BY <2>1 DEF NoView, ToSet
  <2>3. OwnStep(p)
    BY <1>2, <1>4, <2>1, <2>2 DEF OwnStep
  <2>4. Snapshot(p)' /\ Executes(p)'
    BY <1>2, <1>3, <2>1, <2>3, LeftAlone
  <2> QED  BY <1>1, <1>2, <1>3, <2>2, <2>3, <2>4, LocalStep DEF Absent
<1>6. CASE at[p].call \notin Guarded
  <2>1. Selects(p)
    BY <1>6 DEF Refuse
  <2>2. OwnStep(p)
    BY <1>2, <1>4, <2>1, Selected, Own DEF OwnStep
  <2>3. Snapshot(p)' /\ Executes(p)'
    BY <1>2, <1>3, <1>4, <2>1, <2>2, SelectedSnapshot, Idle
  <2>4. at[p].call \notin ToSet(view'[p].log)
    BY <1>1, <2>1, Selected DEF Absent
  <2> QED  BY <1>1, <1>2, <1>3, <2>2, <2>3, <2>4, LocalStep DEF Absent
<1> QED  BY <1>5, <1>6

\* UPDATE runs SET state=?.
LEMMA WriteRowKeeps ==
  ASSUME IInv, TypeOK', NEW p \in Proc, WriteRow(p)
  PROVE  IInv'
<1>1. TypeOK /\ Executes(p) /\ at[p].stage = "write" /\ MayWrite(p)
  BY Own DEF WriteRow
<1>2. /\ at'[p].call = at[p].call /\ at'[p].stage = "number"
      /\ \A q \in Proc \ {p} : at'[q] = at[q]
  <2>1. "number" \in Stage
    BY DEF Stage
  <2> QED  BY <1>1, <2>1, Moves DEF WriteRow
<1>3. /\ log' = log /\ row' = row /\ file' = file /\ projection' = projection
      /\ outcome' = outcome /\ seen' = seen
  BY DEF WriteRow
<1>4. ~Moving(p) /\ ~Inserted(p) /\ ~Inserted(p)' /\ Moving(p)'
  BY <1>1, <1>2 DEF Moving, Inserted, Executes
<1>5. /\ conn'[p] = "writing" /\ view'[p] = [Sees(p) EXCEPT !.row = Wants[at[p].call]]
      /\ \A q \in Proc \ {p} : conn'[q] = conn[q] /\ view'[q] = view[q]
  BY <1>1, Connections DEF WriteRow
<1>6. view'[p].log = Sees(p).log /\ view'[p].row = Wants[at[p].call]
  BY <1>1, <1>5, SeesView DEF View
<1>7. OwnStep(p)
  BY <1>1, <1>2, <1>3, <1>4, <1>5, <1>6, Writable DEF OwnStep
<1>8. Snapshot(p)'
  <2>1. /\ Prefix(log, view'[p].log) /\ view'[p].row = Wants[at'[p].call]
        /\ \A n \in Len(log) + 1 .. Len(view'[p].log) : outcome'[view'[p].log[n]] = "error"
    BY <1>1, <1>2, <1>3, <1>4, <1>6, Writable
  <2> QED  BY <1>3, <1>4, <1>5, <2>1, WrittenSnapshot
<1>9. (Absent(at[p].call))'
  <2>1. \A e \in ToSet(view'[p].log) : e \in ToSet(log) \/ e \in ToSet(view[p].log)
    BY <1>1, <1>4, <1>6, Writable
  <2> QED  BY <1>1, <1>2, <1>3, <1>7, <2>1, StillAbsent DEF Executes
<1>10. Executes(p)'
  BY <1>1, <1>2, <1>3, <1>4, <1>9 DEF Executes
<1>11. at[p].call \in Call => outcome'[at[p].call] = "running"
  BY <1>1, <1>3, JournalAssumption DEF Executes, JournalAssumption
<1> QED  BY <1>3, <1>7, <1>8, <1>10, <1>11, LocalStep

\* seq = last_seq + 1, of the transaction once the row is updated in it.
LEMMA NumberKeeps ==
  ASSUME IInv, TypeOK', NEW p \in Proc, Number(p)
  PROVE  IInv'
<1>1. TypeOK /\ Snapshot(p) /\ Executes(p) /\ at[p].stage = "number" /\ Selects(p)
  BY Own DEF Number
<1>2. /\ at'[p].call = at[p].call /\ at'[p].stage = "insert"
      /\ at'[p].seq = Len(Sees(p).log) + 1
      /\ \A q \in Proc \ {p} : at'[q] = at[q]
  BY <1>1 DEF Number, TypeOK
<1>3. /\ log' = log /\ row' = row /\ file' = file /\ projection' = projection
      /\ outcome' = outcome /\ seen' = seen
  BY DEF Number
<1>4. ~Inserted(p) /\ ~Inserted(p)' /\ (Moving(p)' <=> Moving(p))
  BY <1>1, <1>2 DEF Moving, Inserted
<1>5. OwnStep(p)
  BY <1>1, <1>2, <1>3, Selected, Own DEF OwnStep
<1>6. Snapshot(p)'
  BY <1>1, <1>2, <1>3, <1>4, <1>5, SelectedSnapshot
<1>7. (Absent(at[p].call))'
  BY <1>1, <1>2, <1>3, <1>5, Selected, StillAbsent DEF Executes
<1>8. Moving(p)' => at'[p].seq = Len(view'[p].log) + 1
  BY <1>1, <1>2, <1>4, Selected DEF Snapshot, Sees
<1>9. Executes(p)'
  BY <1>1, <1>2, <1>3, <1>4, <1>7, <1>8 DEF Executes
<1>10. at[p].call \in Call => outcome'[at[p].call] = "running"
  BY <1>1, <1>3, JournalAssumption DEF Executes, JournalAssumption
<1> QED  BY <1>3, <1>5, <1>6, <1>9, <1>10, LocalStep

\* INSERT INTO events.
LEMMA InsertKeeps ==
  ASSUME IInv, TypeOK', NEW p \in Proc, Insert(p)
  PROVE  IInv'
<1> DEFINE c == at[p].call
           v == Sees(p)
<1>1. /\ TypeOK /\ Executes(p) /\ at[p].stage = "insert" /\ MayWrite(p)
      /\ at[p].seq = Len(v.log) + 1
  BY Own DEF Insert
<1>2. /\ at'[p].call = c /\ at'[p].stage = "line" /\ at'[p].seq = at[p].seq
      /\ \A q \in Proc \ {p} : at'[q] = at[q]
  <2>1. "line" \in Stage
    BY DEF Stage
  <2> QED  BY <1>1, <2>1, Moves DEF Insert
<1>3. /\ log' = log /\ row' = row /\ file' = file /\ projection' = projection
      /\ outcome' = outcome /\ seen' = seen
  BY DEF Insert
<1>4. ~Inserted(p) /\ ~Moving(p)' /\ Inserted(p)'
  BY <1>1, <1>2 DEF Moving, Inserted
<1>5. c \in Call /\ Absent(c) /\ c # Nothing /\ outcome[c] = "running"
  BY <1>1, Own DEF Executes
<1>6. v \in View /\ v.log \in Seq(Call) /\ v.row \in RunState /\ log \in Seq(Call)
  BY <1>1, SeesView DEF TypeOK
<1>7. /\ conn'[p] = "writing" /\ view'[p] = [v EXCEPT !.log = Append(@, c)]
      /\ \A q \in Proc \ {p} : conn'[q] = conn[q] /\ view'[q] = view[q]
  BY <1>1, Connections DEF Insert
<1>8. view'[p].log = Append(v.log, c) /\ view'[p].row = v.row
  BY <1>6, <1>7 DEF View
<1>9. /\ \A q \in Proc \ {p} : conn[q] # "writing"
      /\ Prefix(log, v.log)
      /\ \A n \in Len(log) + 1 .. Len(v.log) : outcome[v.log[n]] = "error"
      /\ IF Moving(p) THEN v.row = Wants[c] ELSE Explained(v.row, v.log)
      /\ \A e \in ToSet(v.log) : e \in ToSet(log) \/ e \in ToSet(view[p].log)
  BY <1>1, <1>4, Writable
<1> HIDE DEF c, v
<1> DEFINE t == Append(v.log, c)
<1>10. /\ t \in Seq(Call) /\ Len(t) = Len(v.log) + 1 /\ Len(v.log) \in Nat /\ Len(log) \in Nat
       /\ \A n \in 1 .. Len(v.log) : t[n] = v.log[n]
       /\ t[Len(v.log) + 1] = c
       /\ Prefix(v.log, t)
       /\ \A e : e \in ToSet(t) <=> e \in ToSet(v.log) \/ e = c
  BY <1>5, <1>6, AppendedEvent
<1>11. Explained(v.row, t)
  <2>1. Moving(p) <=> Wants[c] # Checkpoint
    BY <1>1 DEF Moving, c
  <2> QED  BY <1>5, <1>6, <1>9, <2>1, ExplainedByAppend
<1> HIDE DEF t
<1>12. view'[p].log = t
  BY <1>8 DEF t
<1>13. OwnStep(p)
  BY <1>2, <1>3, <1>7, <1>9, <1>10, <1>12 DEF OwnStep, c
<1>14. Prefix(log, t) /\ Len(log) < Len(t)
  <2>1. Prefix(log, t)
    BY <1>6, <1>9, <1>10, PrefixIsOrder
  <2>2. Len(log) <= Len(v.log)
    BY <1>9 DEF Prefix
  <2> QED  BY <1>10, <2>1, <2>2
<1>15. Snapshot(p)'
  <2>1. ASSUME NEW n \in Len(log) + 1 .. Len(t)
        PROVE  outcome'[t[n]] = "error" \/ n = Len(t)
    <3>1. n = Len(t) \/ (n \in Len(log) + 1 .. Len(v.log) /\ n \in 1 .. Len(v.log))
      BY <1>10
    <3> QED  BY <1>3, <1>9, <1>10, <3>1
  <2> QED  BY <1>3, <1>4, <1>7, <1>8, <1>11, <1>12, <1>14, <2>1, WrittenSnapshot
<1>16. Executes(p)'
  <2>1. /\ at'[p].seq = Len(view'[p].log) /\ at'[p].seq > Len(log')
        /\ view'[p].log[at'[p].seq] = at'[p].call
    BY <1>1, <1>2, <1>3, <1>10, <1>12, <1>14
  <2>2. at'[p].call \notin ToSet(log')
    BY <1>2, <1>3, <1>5 DEF Absent
  <2> QED  BY <1>2, <1>3, <1>4, <1>5, <1>7, <2>1, <2>2 DEF Executes
<1>17. outcome'[at[p].call] = "running"
  BY <1>3, <1>5 DEF c
<1> QED  BY <1>3, <1>13, <1>15, <1>16, <1>17, LocalStep

\* UNIQUE(run_id, seq): never in a transaction that updated the row.
LEMMA ClashKeeps ==
  ASSUME IInv, TypeOK', NEW p \in Proc, Clash(p)
  PROVE  IInv'
<1>1. /\ TypeOK /\ Executes(p) /\ at[p].stage = "insert" /\ MayWrite(p)
      /\ Absent(at[p].call) /\ at[p].call \in Call /\ Snapshot(p)
      /\ at[p].seq # Len(Sees(p).log) + 1
  BY Own DEF Clash, Executes
<1>2. /\ at'[p] = Away /\ \A q \in Proc \ {p} : at'[q] = at[q]
      /\ outcome'[at[p].call] = "refused"
      /\ \A e \in Call \ {at[p].call} : outcome'[e] = outcome[e]
  BY <1>1, Moves DEF Clash
<1>3. /\ log' = log /\ row' = row /\ file' = file /\ projection' = projection /\ seen' = seen
  BY DEF Clash
<1>4. ~Moving(p)
  BY <1>1 DEF Snapshot, Executes, Sees
<1>5. ~Inserted(p) /\ ~Moving(p)' /\ ~Inserted(p)' /\ at'[p].call = Nothing /\ Executes(p)'
  BY <1>1, <1>2, Idle DEF Inserted
<1>6. /\ conn'[p] = "writing" /\ view'[p] = Sees(p)
      /\ \A q \in Proc \ {p} : conn'[q] = conn[q] /\ view'[q] = view[q]
  BY <1>1, Connections DEF Clash
<1>7. OwnStep(p)
  BY <1>1, <1>2, <1>5, <1>6, Writable DEF OwnStep
<1>8. Snapshot(p)'
  <2>1. ASSUME NEW n \in Len(log) + 1 .. Len(Sees(p).log)
        PROVE  outcome'[Sees(p).log[n]] = "error"
    <3>1. outcome[Sees(p).log[n]] = "error"
      BY <1>1, <1>5, Writable
    <3>2. Sees(p).log \in Seq(Call) /\ log \in Seq(Call)
      BY <1>1, SeesView DEF TypeOK
    <3>3. Sees(p).log[n] \in Call
      BY <3>2
    <3> QED  BY <1>7, <3>1, <3>3, ErrorsStay
  <2>2. Prefix(log, Sees(p).log) /\ Explained(Sees(p).row, Sees(p).log)
    BY <1>1, <1>4, <1>5, Writable
  <2> QED  BY <1>3, <1>5, <1>6, <2>1, <2>2, WrittenSnapshot
<1>9. at[p].call \notin ToSet(view'[p].log)
  BY <1>1, <1>5, <1>6, Writable DEF Absent
<1> QED  BY <1>1, <1>2, <1>3, <1>5, <1>7, <1>8, <1>9, LocalStep DEF Absent

\* "database is locked": the row was not updated, the event not inserted.
LEMMA LockedKeeps ==
  ASSUME IInv, TypeOK', NEW p \in Proc, Locked(p)
  PROVE  IInv'
<1>1. /\ TypeOK /\ Executes(p) /\ Snapshot(p) /\ at[p].stage \in {"begin", "write", "insert"}
      /\ Absent(at[p].call) /\ at[p].call \in Call
      /\ at[p].stage = "insert" => ~MayWrite(p)
      /\ Raises(p, "refused")
  BY Own DEF Locked, Executes
<1>2. /\ at'[p] = Away /\ \A q \in Proc \ {p} : at'[q] = at[q]
      /\ outcome'[at[p].call] = "refused"
      /\ \A e \in Call \ {at[p].call} : outcome'[e] = outcome[e]
  BY <1>1, Moves DEF Raises
<1>3. /\ log' = log /\ row' = row /\ file' = file /\ projection' = projection /\ seen' = seen
  BY DEF Locked
<1>4. ~Moving(p) /\ ~Inserted(p)
  BY <1>1 DEF Moving, Inserted, Snapshot, MayWrite
<1>5. at'[p].call = Nothing
  BY <1>2, Idle
<1>6. /\ \A q \in Proc \ {p} : conn'[q] = conn[q] /\ view'[q] = view[q]
      /\ \/ conn'[p] \in {"auto", "begun"} /\ view'[p] = NoView
         \/ conn'[p] = conn[p] /\ view'[p] = view[p]
  BY <1>1, Connections DEF Snapshot
<1>7. ToSet(NoView.log) = {}
  BY DEF NoView, ToSet
<1>8. OwnStep(p)
  BY <1>2, <1>5, <1>6, <1>7, Own DEF OwnStep
<1>9. Snapshot(p)' /\ Executes(p)'
  BY <1>2, <1>3, <1>4, <1>6, <1>8, LeftAlone
<1> QED  BY <1>1, <1>2, <1>3, <1>6, <1>7, <1>8, <1>9, LocalStep DEF Absent

\* A line of p hides no committed event, and is a fragment only if the call ends.
LEMMA OneMoreLine ==
  ASSUME IInv, NEW p \in Proc, at[p].stage = "line", OwnStep(p), log' = log,
         NEW line \in Line, line.seq = at[p].seq, line.call = at[p].call,
         file' = Append(file, line)
  PROVE  /\ Lines'
         /\ line \in Whole \/ outcome'[at[p].call] \in {"error", "rolled back", "lost"} => Fragments'
<1>1. /\ TypeOK /\ Executes(p) /\ Inserted(p) /\ Lines /\ Fragments
      /\ file \in Seq(Line) /\ log \in Seq(Call) /\ at[p].seq > Len(log)
  BY Own DEF Inserted, TypeOK, Executes
<1>2. ASSUME NEW n \in DOMAIN log, outcome'[log[n]] # "error"
      PROVE  Newest(n, log[n], file')
  <2>1. Len(log) \in Nat /\ n \in 1 .. Len(log) /\ log[n] \in Call
    BY <1>1, Members
  <2>2. n # line.seq /\ n \in Nat
    BY <1>1, <2>1, Fields
  <2>3. Newest(n, log[n], file)
    BY <1>1, <1>2, <2>1, ErrorsStay DEF Lines
  <2> QED  BY <1>1, <2>1, <2>2, <2>3, NewLine
<1>3. \A n \in DOMAIN log' : outcome'[log'[n]] # "error" => Newest(n, log'[n], file')
  BY <1>2
<1>4. file' \in Seq(Line) /\ Len(file') = Len(file) + 1
  BY <1>1, AppendedEvent
<1>5. /\ Len(file) \in Nat /\ DOMAIN file = 1 .. Len(file)
      /\ DOMAIN file' = 1 .. Len(file) + 1
  BY <1>1, <1>4, Members
<1>6. (\A i \in 1 .. Len(file) : file'[i] = file[i]) /\ file'[Len(file) + 1] = line
  BY <1>1, AppendedEvent
<1>7. ASSUME line \in Whole \/ outcome'[at[p].call] \in {"error", "rolled back", "lost"},
             NEW i \in DOMAIN file'
      PROVE  file'[i] \in Whole \/ outcome'[file'[i].call] \in {"error", "rolled back", "lost"}
  <2>1. i \in 1 .. Len(file) \/ i = Len(file) + 1
    BY <1>5
  <2>2. CASE i = Len(file) + 1
    BY <1>6, <1>7, <2>2, Zenon
  <2>3. CASE i \in 1 .. Len(file)
    <3>1. i \in DOMAIN file /\ file'[i] = file[i]
      BY <1>5, <1>6, <2>3
    <3>2. file[i] \in Whole \/ outcome[file[i].call] \in {"error", "rolled back", "lost"}
      BY <1>1, <3>1 DEF Fragments
    <3>3. file[i].call \in Call
      <4>1. file[i] \in Line
        BY <1>1, <3>1, Entry
      <4> QED  BY <4>1 DEF Line
    <3>4. CASE outcome[file[i].call] \in {"error", "rolled back", "lost"}
      <4>1. file[i].call # at[p].call
        BY <1>1, <3>4, JournalAssumption DEF Executes, JournalAssumption
      <4> QED  BY <3>1, <3>3, <3>4, <4>1 DEF OwnStep
    <3> QED  BY <3>1, <3>2, <3>4, Zenon
  <2> QED  BY <2>1, <2>2, <2>3
<1> QED  BY <1>3, <1>7 DEF Lines, Newest, Fragments

\* Whatever a write leaves, if it is a fragment only where the call ends.
LEMMA MoreLines ==
  ASSUME IInv, NEW p \in Proc, at[p].stage = "line", OwnStep(p), log' = log,
         \/ file' \in {file, Append(file, LineOf(p, TRUE))}
         \/ file' \in Torn(p) /\ outcome'[at[p].call] \in {"error", "rolled back", "lost"}
  PROVE  Lines' /\ Fragments'
<1>1. TypeOK /\ Executes(p) /\ Lines /\ log \in Seq(Call)
  BY Own DEF TypeOK
<1>2. CASE file' = file
  <2>1. ASSUME NEW n \in DOMAIN log, outcome'[log[n]] # "error"
        PROVE  Newest(n, log[n], file)
    BY <1>1, <2>1, Entry, ErrorsStay DEF Lines
  <2>2. \A n \in DOMAIN log' : outcome'[log'[n]] # "error" => Newest(n, log'[n], file')
    BY <1>2, <2>1
  <2> QED  BY <1>2, <2>2, FragmentsStay DEF Lines, Newest
<1>3. CASE file' = Append(file, LineOf(p, TRUE))
  <2>1. /\ LineOf(p, TRUE) \in Line /\ LineOf(p, TRUE) \in Whole
        /\ LineOf(p, TRUE).seq = at[p].seq /\ LineOf(p, TRUE).call = at[p].call
    BY <1>1, TornTypes DEF LineOf, Whole
  <2> QED  BY <1>3, <2>1, OneMoreLine
<1>4. CASE /\ file' = Append(file, LineOf(p, FALSE))
           /\ outcome'[at[p].call] \in {"error", "rolled back", "lost"}
  <2>1. /\ LineOf(p, FALSE) \in Line
        /\ LineOf(p, FALSE).seq = at[p].seq /\ LineOf(p, FALSE).call = at[p].call
    BY <1>1, TornTypes DEF LineOf
  <2> QED  BY <1>4, <2>1, OneMoreLine
<1> QED  BY <1>2, <1>3, <1>4 DEF Torn

\* The line: its number is later than any committed one, and it is the last.
LEMMA AppendLineKeeps ==
  ASSUME IInv, TypeOK', NEW p \in Proc, AppendLine(p)
  PROVE  IInv'
<1>1. TypeOK /\ Executes(p) /\ at[p].stage = "line" /\ Inserted(p) /\ at[p].call \in Call
  BY Own DEF AppendLine, Inserted
<1>2. /\ at'[p].call = at[p].call /\ at'[p].stage = "commit" /\ at'[p].seq = at[p].seq
      /\ \A q \in Proc \ {p} : at'[q] = at[q]
  <2>1. "commit" \in Stage
    BY DEF Stage
  <2> QED  BY <1>1, <2>1, Moves DEF AppendLine
<1>3. /\ log' = log /\ row' = row /\ projection' = projection /\ conn' = conn /\ view' = view
      /\ outcome' = outcome /\ seen' = seen
      /\ file' = Append(file, LineOf(p, TRUE))
  BY DEF AppendLine
<1>4. Inserted(p)' /\ ~Moving(p) /\ ~Moving(p)'
  BY <1>1, <1>2 DEF Inserted, Moving
<1>5. OwnStep(p)
  BY <1>2, <1>3, Own DEF OwnStep
<1>6. Snapshot(p)'
  BY <1>3, <1>4, <1>5, KeptSnapshot
<1>7. at[p].seq \in Nat /\ Newest(at[p].seq, at[p].call, file')
  <2> DEFINE line == LineOf(p, TRUE)
  <2>1. line \in Line /\ at[p].seq \in Nat /\ file \in Seq(Line)
    BY <1>1, TornTypes, Fields DEF TypeOK
  <2>2. line.seq = at[p].seq /\ line.call = at[p].call /\ line.whole = TRUE
    BY DEF LineOf
  <2> HIDE DEF line
  <2>3. file' = Append(file, line)
    BY <1>3 DEF line
  <2> QED  BY <2>1, <2>2, <2>3, NewLine
<1>8. Executes(p)'
  <2>1. (Newest(at[p].seq, at[p].call, file))'
    BY <1>2, <1>7 DEF Newest
  <2> QED  BY <1>1, <1>2, <1>3, <1>4, <2>1 DEF Executes
<1>9. Lines' /\ Fragments'
  BY <1>1, <1>3, <1>5, MoreLines
<1>10. outcome'[at[p].call] = "running" /\ conn[p] = "writing"
  BY <1>1, <1>3, JournalAssumption DEF Executes, JournalAssumption
<1> QED  BY <1>3, <1>5, <1>6, <1>8, <1>9, <1>10, LocalStep

\* The append fails: a guarded call rolls back, another leaves its event in the
\* transaction, as one that has no line.
LEMMA AppendFailsKeeps ==
  ASSUME IInv, TypeOK', NEW p \in Proc, AppendFails(p)
  PROVE  IInv'
<1> DEFINE how == IF at[p].call \in Guarded THEN "rolled back" ELSE "error"
<1>1. /\ TypeOK /\ Executes(p) /\ Snapshot(p) /\ at[p].stage = "line" /\ Inserted(p)
      /\ at[p].call \in Call /\ conn[p] = "writing" /\ Raises(p, how)
  BY Own DEF AppendFails, Inserted, Executes
<1>2. /\ at'[p] = Away /\ \A q \in Proc \ {p} : at'[q] = at[q]
      /\ outcome'[at[p].call] = how
      /\ \A e \in Call \ {at[p].call} : outcome'[e] = outcome[e]
  BY <1>1, Moves DEF Raises
<1>3. /\ log' = log /\ row' = row /\ file' \in Torn(p) /\ projection' = projection /\ seen' = seen
  BY DEF AppendFails
<1>4. ~Moving(p) /\ at'[p].call = Nothing
  BY <1>1, <1>2, Idle DEF Moving
<1>5. /\ \A q \in Proc \ {p} : conn'[q] = conn[q] /\ view'[q] = view[q]
      /\ \/ conn'[p] = "auto" /\ view'[p] = NoView /\ how = "rolled back"
         \/ conn'[p] = conn[p] /\ view'[p] = view[p] /\ how = "error"
  BY <1>1, Connections
<1> HIDE DEF how
<1>6. ToSet(NoView.log) = {}
  BY DEF NoView, ToSet
<1>7. OwnStep(p)
  BY <1>2, <1>4, <1>5, <1>6, Own DEF OwnStep
<1>8. Snapshot(p)' /\ Executes(p)'
  BY <1>2, <1>3, <1>4, <1>5, <1>7, LeftAlone
<1>9. ASSUME NEW q \in Proc \ {p}
      PROVE  at[p].call \notin ToSet(view[q].log)
  <2>1. conn[q] # "writing" /\ Snapshot(q) /\ conn[q] \in Conn
    BY <1>1, Own, Fields
  <2>2. view[q].log \in Seq(Call) /\ log \in Seq(Call) /\ at[p].call \notin ToSet(log)
    BY <1>1, Fields DEF TypeOK, Executes
  <2>3. CASE conn[q] = "reading"
    BY <2>1, <2>2, <2>3, PrefixIsOrder DEF Snapshot
  <2>4. CASE conn[q] \in {"auto", "begun"}
    BY <1>6, <2>1, <2>4 DEF Snapshot
  <2> QED  BY <2>1, <2>3, <2>4 DEF Conn
<1>10. at[p].call \notin ToSet(log)
  BY <1>1 DEF Executes
<1>11. Lines' /\ Fragments'
  BY <1>1, <1>2, <1>3, <1>5, <1>7, MoreLines
<1> QED  BY <1>1, <1>2, <1>3, <1>5, <1>6, <1>7, <1>8, <1>9, <1>10, <1>11, LocalStep

\* The commit: the history grows by that of the transaction.
LEMMA CommitKeeps ==
  ASSUME IInv, TypeOK', NEW p \in Proc, Commit(p)
  PROVE  IInv'
<1>1. /\ TypeOK /\ Executes(p) /\ Snapshot(p) /\ at[p].stage = "commit" /\ Inserted(p)
      /\ at[p].call \in Call /\ conn[p] = "writing"
  BY Own DEF Commit, Inserted, Executes
<1>2. /\ at'[p].call = at[p].call /\ at'[p].stage = "project"
      /\ \A q \in Proc \ {p} : at'[q] = at[q]
  <2>1. "project" \in Stage
    BY DEF Stage
  <2> QED  BY <1>1, <2>1, Moves DEF Commit
<1>3. /\ log' = view[p].log /\ row' = view[p].row /\ file' = file
      /\ projection' = projection /\ outcome' = outcome /\ seen' = seen
  BY DEF Commit
<1>4. /\ conn'[p] = "auto" /\ view'[p] = NoView
      /\ \A q \in Proc \ {p} : conn'[q] = conn[q] /\ view'[q] = view[q]
  BY <1>1, Connections DEF Commit
<1>5. log \in Seq(Call) /\ view[p].log \in Seq(Call) /\ log' \in Seq(Call) /\ Prefix(log, log')
  BY <1>1, <1>3, Fields DEF Snapshot, TypeOK
<1>6. ToSet(NoView.log) = {}
  BY DEF NoView, ToSet
<1>7. OwnStep(p)
  BY <1>2, <1>3, <1>4, <1>6 DEF OwnStep
<1>8. \A x \in ToSet(log') : x \in ToSet(log) \/ x \in ToSet(view[p].log)
  BY <1>3
<1>9. at[p].call \in ToSet(log') /\ outcome[at[p].call] = "running"
  <2>1. at[p].seq \in 1 .. Len(view[p].log) /\ view[p].log[at[p].seq] = at[p].call
    <3>1. Len(log) \in Nat
      BY <1>5
    <3> QED  BY <1>1, <3>1, Fields DEF Executes
  <2>2. at[p].call \in ToSet(view[p].log)
    BY <1>5, <2>1, Members
  <2> QED  BY <1>1, <1>3, <2>2, JournalAssumption DEF Executes, JournalAssumption
<1>10. Snapshot(p)' /\ Executes(p)'
  <2>1. ~Moving(p)' /\ ~Inserted(p)'
    BY <1>2 DEF Moving, Inserted
  <2>2. Explained(view'[p].row, view'[p].log)
    BY <1>4 DEF NoView, Explained
  <2>3. (Explained(view[p].row, view[p].log))' <=> Explained(view'[p].row, view'[p].log)
    BY DEF Explained
  <2>4. Snapshot(p)'
    BY <1>4, <2>1, <2>2, <2>3 DEF Snapshot, NoView
  <2>5. Executes(p)'
    BY <1>1, <1>2, <1>3, <1>4, <1>9, <2>1, JournalAssumption DEF Executes, JournalAssumption
  <2> QED  BY <2>4, <2>5
<1>11. ASSUME NEW q \in Proc
       PROVE  Snapshot(q)' /\ Executes(q)'
  <2>1. CASE q = p
    BY <1>10, <2>1
  <2>2. CASE q # p
    <3>1. conn[q] # "writing"
      BY <1>1, <2>2, Own
    <3> QED  BY <1>5, <1>7, <1>8, <2>2, <3>1, Aside
  <2> QED  BY <2>1, <2>2
<1>12. Decided'
  <2>1. ASSUME NEW e \in Call
        PROVE  /\ outcome'[e] \in {"new", "refused", "rolled back"} => Absent(e)'
               /\ outcome'[e] \in {"ok", "unreported"} => e \in ToSet(log')
    <3>1. CASE e = at[p].call
      BY <1>3, <1>9, <3>1
    <3>2. CASE e # at[p].call
      <4>1. /\ outcome[e] \in {"new", "refused", "rolled back"} => Absent(e)
            /\ outcome[e] \in {"ok", "unreported"} => e \in ToSet(log)
        BY Own DEF Decided
      <4> QED  BY <1>3, <1>5, <1>7, <1>8, <3>2, <4>1, StaysAbsent, PrefixIsOrder
    <3> QED  BY <3>1, <3>2
  <2> QED  BY <2>1 DEF Decided
<1>13. Lines'
  <2>1. ASSUME NEW n \in DOMAIN view[p].log, outcome[view[p].log[n]] # "error"
        PROVE  Newest(n, view[p].log[n], file)
    <3>1. n \in 1 .. Len(view[p].log) /\ Len(log) \in Nat
      BY <1>5
    <3>2. CASE n \in 1 .. Len(log)
      <4>1. n \in DOMAIN log /\ view[p].log[n] = log[n]
        BY <1>3, <1>5, <3>2, Members DEF Prefix
      <4> QED  BY <2>1, <4>1, Own DEF Lines, Newest
    <3>3. CASE n \in Len(log) + 1 .. Len(view[p].log)
      <4>1. n = Len(view[p].log)
        BY <1>1, <2>1, <3>3 DEF Snapshot
      <4> QED  BY <1>1, <4>1 DEF Executes
    <3> QED  BY <3>1, <3>2, <3>3
  <2>2. \A n \in DOMAIN log' : outcome'[log'[n]] # "error" => Newest(n, log'[n], file')
    BY <1>3, <2>1
  <2> QED  BY <2>2 DEF Lines, Newest
<1>14. RowIsExplained'
  <2>1. ~Moving(p)
    BY <1>1 DEF Moving
  <2>2. Explained(row', log')
    BY <1>1, <1>3, <2>1 DEF Snapshot
  <2> QED  BY <2>2 DEF RowIsExplained, Explained
<1>15. Shown'
  <2>1. Shown /\ projection \in Seq(Call)
    BY <1>1, Own DEF TypeOK
  <2>2. Prefix(projection', log')
    BY <1>3, <1>5, <2>1, PrefixIsOrder DEF Shown
  <2>3. ASSUME NEW q \in Proc, \A e \in Call : outcome'[e] # "error"
        PROVE  Prefix(seen'[q], log')
    BY <1>1, <1>3, <1>5, <2>1, <2>3, Fields, PrefixIsOrder DEF Shown
  <2> QED  BY <2>2, <2>3 DEF Shown
<1>16. Fragments'
  BY <1>3, <1>7, FragmentsStay
<1> QED  BY <1>7, <1>11, <1>12, <1>13, <1>14, <1>15, <1>16, StaysAlone DEF IInv

\* The projection is computed from the committed history.
LEMMA ProjectKeeps ==
  ASSUME IInv, TypeOK', NEW p \in Proc, Project(p)
  PROVE  IInv'
<1>1. /\ TypeOK /\ Executes(p) /\ at[p].stage = "project" /\ at[p].call \in Call
      /\ conn[p] = "auto"
  BY Own DEF Project, Executes
<1>2. /\ at'[p].call = at[p].call /\ at'[p].stage = "replace" /\ at'[p].shown = log
      /\ \A q \in Proc \ {p} : at'[q] = at[q]
  <2>1. Sees(p).log = log
    BY <1>1 DEF Sees, Committed
  <2> QED  BY <1>1, <2>1 DEF Project, TypeOK
<1>3. /\ log' = log /\ row' = row /\ file' = file /\ projection' = projection /\ conn' = conn
      /\ view' = view /\ outcome' = outcome /\ seen' = seen
  BY DEF Project
<1>4. ~Inserted(p) /\ ~Inserted(p)' /\ ~Moving(p) /\ ~Moving(p)'
  BY <1>1, <1>2 DEF Inserted, Moving
<1>5. OwnStep(p)
  BY <1>2, <1>3, Own DEF OwnStep
<1>6. Snapshot(p)'
  BY <1>3, <1>4, <1>5, KeptSnapshot
<1>7. Executes(p)'
  <2>1. Prefix(log, log)
    BY <1>1, PrefixIsOrder DEF TypeOK
  <2> QED  BY <1>1, <1>2, <1>3, <1>4, <2>1 DEF Executes
<1>8. outcome'[at[p].call] = "running"
  BY <1>1, <1>3, JournalAssumption DEF Executes, JournalAssumption
<1> QED  BY <1>3, <1>5, <1>6, <1>7, <1>8, LocalStep

\* state.json is replaced, or not: the call is committed.
LEMMA ReplaceKeeps ==
  ASSUME IInv, TypeOK', NEW p \in Proc, Replace(p) \/ ReplaceFails(p)
  PROVE  IInv'
<1>1. /\ TypeOK /\ Executes(p) /\ at[p].stage = "replace" /\ at[p].call \in Call
      /\ at[p].call \in ToSet(log) /\ Prefix(at[p].shown, log)
  BY Own DEF Replace, ReplaceFails, Executes
<1>2. /\ at'[p] = Away /\ \A q \in Proc \ {p} : at'[q] = at[q]
      /\ outcome'[at[p].call] \in {"ok", "unreported"}
      /\ \A e \in Call \ {at[p].call} : outcome'[e] = outcome[e]
  BY <1>1, Moves DEF Replace, ReplaceFails
<1>3. /\ log' = log /\ row' = row /\ file' = file /\ conn' = conn /\ view' = view /\ seen' = seen
      /\ projection' \in {projection, at[p].shown}
  BY DEF Replace, ReplaceFails
<1>4. ~Moving(p) /\ ~Inserted(p) /\ at'[p].call = Nothing
  BY <1>1, <1>2, Idle DEF Moving, Inserted
<1>5. OwnStep(p)
  BY <1>2, <1>3, <1>4, Own DEF OwnStep
<1>6. Snapshot(p)' /\ Executes(p)'
  BY <1>2, <1>3, <1>4, <1>5, LeftAlone
<1>7. Shown'
  <2>1. Shown
    BY Own
  <2> QED  BY <1>1, <1>3, <1>5, <2>1, ErrorsStay DEF Shown
<1> QED  BY <1>1, <1>2, <1>3, <1>5, <1>6, <1>7, LocalStep

\* A page of events: what an idle process sees is committed, or failed.
LEMMA ReadPageKeeps ==
  ASSUME IInv, TypeOK', NEW p \in Proc, ReadPage(p)
  PROVE  IInv'
<1>1. TypeOK /\ Executes(p) /\ Snapshot(p) /\ at[p].stage = "idle" /\ Selects(p)
  BY Own DEF ReadPage
<1>2. /\ log' = log /\ row' = row /\ file' = file /\ projection' = projection /\ at' = at
      /\ outcome' = outcome
  BY DEF ReadPage
<1>3. ~Moving(p) /\ ~Inserted(p) /\ ~Moving(p)' /\ ~Inserted(p)' /\ at[p].call \notin Call
  BY <1>1, <1>2, Own DEF Moving, Inserted
<1>4. OwnStep(p)
  BY <1>1, <1>2, Selected, Own DEF OwnStep
<1>5. Snapshot(p)'
  BY <1>1, <1>2, <1>3, <1>4, SelectedSnapshot
<1>6. Executes(p)'
  BY <1>1, <1>2, <1>3 DEF Executes
<1>7. Shown'
  <2>1. PICK n \in Len(seen[p]) + 1 .. Len(Sees(p).log) :
          seen' = [seen EXCEPT ![p] = @ \o SubSeq(Sees(p).log, Len(@) + 1, n)]
    BY <1>1 DEF ReadPage
  <2>2. /\ \A q \in Proc \ {p} : seen'[q] = seen[q]
        /\ seen'[p] = seen[p] \o SubSeq(Sees(p).log, Len(seen[p]) + 1, n)
    BY <1>1, <2>1 DEF TypeOK
  <2>3. Shown /\ log \in Seq(Call) /\ seen[p] \in Seq(Call) /\ Sees(p).log \in Seq(Call)
    BY <1>1, Own, Fields, SeesView DEF TypeOK
  <2>4. ASSUME \A e \in Call : outcome[e] # "error"
        PROVE  Prefix(seen'[p], log)
    <3>1. Prefix(Sees(p).log, log) /\ Prefix(log, log)
      <4>1. Prefix(log, log)
        BY <2>3, PrefixIsOrder
      <4>2. CASE conn[p] = "writing"
        <5>1. /\ Sees(p) = view[p] /\ Prefix(log, view[p].log)
              /\ \A i \in Len(log) + 1 .. Len(view[p].log) : outcome[view[p].log[i]] = "error"
          BY <1>1, <1>3, <4>2 DEF Sees, Snapshot
        <5>2. view[p].log \in Seq(Call)
          BY <2>3, <5>1
        <5>3. Len(log) \in Nat /\ Len(view[p].log) \in Nat
          BY <2>3, <5>2
        <5>4. ASSUME Len(log) < Len(view[p].log)
              PROVE  FALSE
          <6>1. Len(view[p].log) \in Len(log) + 1 .. Len(view[p].log)
            BY <5>3, <5>4
          <6>2. view[p].log[Len(view[p].log)] \in Call
            BY <5>2, <5>3, <5>4
          <6> QED  BY <2>4, <5>1, <6>1, <6>2
        <5>5. Len(view[p].log) = Len(log)
          BY <5>1, <5>3, <5>4 DEF Prefix
        <5> QED  BY <4>1, <5>1, <5>5 DEF Prefix
      <4>3. CASE conn[p] = "reading"
        BY <1>1, <4>1, <4>3 DEF Sees, Snapshot
      <4>4. CASE conn[p] \notin {"writing", "reading"}
        BY <4>1, <4>4 DEF Sees, Committed
      <4> QED  BY <4>1, <4>2, <4>3, <4>4
    <3>2. Len(Sees(p).log) <= Len(log) /\ \A i \in 1 .. Len(Sees(p).log) : log[i] = Sees(p).log[i]
      BY <3>1 DEF Prefix
    <3>3. Prefix(seen[p], Sees(p).log)
      <4>1. Prefix(seen[p], log)
        BY <2>3, <2>4 DEF Shown
      <4>2. Len(seen[p]) \in Nat /\ Len(Sees(p).log) \in Nat /\ Len(seen[p]) < Len(Sees(p).log)
        BY <2>1, <2>3
      <4> QED  BY <3>2, <4>1, <4>2 DEF Prefix
    <3>4. /\ seen'[p] \in Seq(Call) /\ Prefix(seen'[p], Sees(p).log)
      BY <2>1, <2>2, <2>3, <3>3, PageIsPrefix
    <3> QED  BY <2>3, <3>1, <3>4, PrefixIsOrder
  <2> QED  BY <1>2, <2>2, <2>3, <2>4 DEF Shown
<1> QED  BY <1>2, <1>3, <1>4, <1>5, <1>6, <1>7, LocalStep

\* A process dies: what it had not committed is gone.
LEMMA CrashKeeps ==
  ASSUME IInv, TypeOK', NEW p \in Proc, Crash(p)
  PROVE  IInv'
<1>1. TypeOK /\ Executes(p)
  BY Own
<1>2. /\ at'[p] = Away /\ \A q \in Proc \ {p} : at'[q] = at[q]
      /\ \A e \in Call : outcome'[e] = IF e = at[p].call THEN "lost" ELSE outcome[e]
  BY <1>1 DEF Crash, TypeOK
<1>3. /\ log' = log /\ row' = row /\ projection' = projection /\ seen' = seen
      /\ file' = file \/ (at[p].stage = "line" /\ file' \in Torn(p))
  BY DEF Crash
<1>4. /\ conn'[p] = "auto" /\ view'[p] = NoView
      /\ \A q \in Proc \ {p} : conn'[q] = conn[q] /\ view'[q] = view[q]
  BY <1>1, Connections DEF Crash
<1>5. ToSet(NoView.log) = {} /\ at'[p].call = Nothing
  BY <1>2, Idle DEF NoView, ToSet
<1>6. OwnStep(p)
  BY <1>2, <1>4, <1>5 DEF OwnStep
<1>7. Snapshot(p)' /\ Executes(p)'
  BY <1>2, <1>3, <1>4, <1>6, LeftAlone
<1>8. at[p].call \in Call => outcome'[at[p].call] = "lost"
  BY <1>2
<1>9. file' = file \/ (conn[p] = "writing" /\ Lines' /\ Fragments')
  <2>1. at[p].stage = "line" => conn[p] = "writing" /\ at[p].call \in Call
    BY <1>1, Own DEF Executes, Inserted
  <2> QED  BY <1>3, <1>6, <1>8, <2>1, MoreLines
<1> QED  BY <1>3, <1>6, <1>7, <1>8, <1>9, LocalStep

-----------------------------------------------------------------------------
(* The theorems.                                                           *)

\* The first state: no history, no transaction.
LEMMA InitIInv == Init => IInv
<1> SUFFICES ASSUME Init
             PROVE  IInv
  OBVIOUS
<1>1. /\ log = <<>> /\ row = "RUNNING" /\ file = <<>> /\ projection = <<>>
      /\ conn = [p \in Proc |-> "auto"] /\ view = [p \in Proc |-> NoView]
      /\ at = [p \in Proc |-> Away] /\ outcome = [e \in Call |-> "new"]
      /\ seen = [p \in Proc |-> <<>>] /\ faults = [crashes |-> 0, io |-> 0]
  BY DEF Init
<1>2. <<>> \in Seq(Call) /\ <<>> \in Seq(Line) /\ Len(<<>>) = 0 /\ DOMAIN <<>> = {}
  OBVIOUS
<1>3. TypeOK
  <2>1. Away \in [stage: Stage, call: Call \union {Nothing}, seq: Nat, shown: Seq(Call)]
    BY DEF Away, Stage
  <2>2. NoView \in View /\ "RUNNING" \in RunState /\ "auto" \in Conn /\ "new" \in Outcome
    BY DEF NoView, View, RunState, Conn, Outcome
  <2>3. faults \in [crashes: 0 .. MaxCrashes, io: 0 .. MaxFaults]
    BY <1>1, JournalAssumption DEF JournalAssumption
  <2> QED  BY <1>1, <1>2, <2>1, <2>2, <2>3 DEF TypeOK
<1>4. ToSet(<<>>) = {} /\ Prefix(<<>>, <<>>) /\ Explained("RUNNING", <<>>)
  BY <1>2 DEF ToSet, Prefix, Explained
<1>5. ASSUME NEW p \in Proc
      PROVE  Snapshot(p) /\ Executes(p)
  <2>1. conn[p] = "auto" /\ view[p] = NoView /\ at[p] = Away
    BY <1>1
  <2>2. at[p].stage = "idle" /\ at[p].call = Nothing
        /\ view[p].row = "RUNNING" /\ view[p].log = <<>>
    BY <2>1 DEF Away, NoView
  <2>3. ~Moving(p) /\ ~Inserted(p)
    BY <2>2 DEF Moving, Inserted
  <2> QED  BY <1>4, <2>1, <2>2, <2>3 DEF Snapshot, Executes
<1>6. Alone
  BY <1>1 DEF Alone, Away
<1>7. Decided
  <2>1. ASSUME NEW e
        PROVE  Absent(e)
    BY <1>1, <1>4 DEF Absent, NoView
  <2> QED  BY <1>1, <2>1 DEF Decided
<1>8. Lines /\ Fragments /\ RowIsExplained
  BY <1>1, <1>2, <1>4 DEF Lines, Fragments, RowIsExplained
<1>9. Shown
  BY <1>1, <1>4 DEF Shown
<1> QED  BY <1>3, <1>5, <1>6, <1>7, <1>8, <1>9 DEF IInv

\* Every step keeps the invariant.
LEMMA NextKeeps == IInv /\ [Next]_vars => IInv'
<1> SUFFICES ASSUME IInv, [Next]_vars
             PROVE  IInv'
  OBVIOUS
<1>1. CASE UNCHANGED vars
  <2>1. /\ log' = log /\ row' = row /\ file' = file /\ projection' = projection /\ conn' = conn
        /\ view' = view /\ at' = at /\ outcome' = outcome /\ seen' = seen /\ faults' = faults
    BY <1>1 DEF vars
  <2>2. TypeOK'
    BY <2>1, Own DEF IInv, TypeOK
  <2>3. ASSUME NEW p \in Proc
        PROVE  Snapshot(p)' /\ Executes(p)'
    <3>1. Snapshot(p) /\ Executes(p)
      BY Own
    <3> QED  BY <2>1, <3>1 DEF Snapshot, Executes, Moving, Inserted, Absent, Newest, NoView,
                               Explained
  <2>4. Alone' /\ Decided' /\ Shown'
    BY <2>1 DEF IInv, Alone, Decided, Absent, Shown
  <2>5. Lines' /\ Fragments' /\ RowIsExplained'
    BY <2>1 DEF IInv, Lines, Newest, Fragments, RowIsExplained, Explained
  <2> QED  BY <2>2, <2>3, <2>4, <2>5 DEF IInv
<1>2. CASE Next
  <2>1. PICK p \in Proc :
          \/ \E e \in Call : Start(p, e)
          \/ Step(p) \/ ReadPage(p) \/ Crash(p)
    BY <1>2 DEF Next
  <2>2. TypeOK /\ Executes(p)
    BY Own
  <2>3. ASSUME NEW e \in Call, Start(p, e)
        PROVE  IInv'
    BY <2>2, <2>3, StartType, StartKeeps
  <2>4. CASE Begin(p) \/ ReadRow(p) \/ Refuse(p) \/ WriteRow(p)
             \/ Number(p) \/ Insert(p) \/ Clash(p) \/ Locked(p)
    <3>1. TypeOK'
      BY <2>2, <2>4, WorkTypes
    <3> QED  BY <2>4, <3>1, BeginKeeps, ReadRowKeeps, RefuseKeeps, WriteRowKeeps,
                NumberKeeps, InsertKeeps, ClashKeeps, LockedKeeps
  <2>5. CASE AppendLine(p) \/ AppendFails(p) \/ Commit(p) \/ Project(p)
             \/ Replace(p) \/ ReplaceFails(p) \/ ReadPage(p) \/ Crash(p)
    <3>1. TypeOK'
      BY <2>2, <2>5, OtherTypes
    <3> QED  BY <2>5, <3>1, AppendLineKeeps, AppendFailsKeeps, CommitKeeps, ProjectKeeps,
                ReplaceKeeps, ReadPageKeeps, CrashKeeps
  <2> QED  BY <2>1, <2>3, <2>4, <2>5 DEF Step
<1> QED  BY <1>1, <1>2

\* The invariant holds in every reachable state.
THEOREM Inductive == Spec => []IInv
<1>1. Init => IInv
  BY InitIInv
<1>2. IInv /\ [Next]_vars => IInv'
  BY NextKeeps
<1> QED  BY <1>1, <1>2, PTL DEF Spec

\* _append_event, events_after and _project_locked give three views of one
\* history: the row is the one the history ends in, clients miss no event and
\* see none twice, and state.json shows only what was committed.
THEOREM OneHistory == Spec => []JournalInvariant
<1>1. IInv => JournalInvariant
  <2> SUFFICES ASSUME IInv
               PROVE  JournalInvariant
    OBVIOUS
  <2>1. TypeOK /\ RowIsExplained /\ Shown
    BY DEF IInv
  <2>2. IsPrefix(projection, log)
    BY <2>1, PrefixIsPrefix DEF TypeOK, Shown
  <2>3. ASSUME NEW p \in Proc, \A e \in Call : outcome[e] # "error"
        PROVE  IsPrefix(seen[p], log)
    BY <2>1, <2>3, Fields, PrefixIsPrefix DEF TypeOK, Shown
  <2> QED  BY <2>1, <2>2, <2>3 DEF JournalInvariant, ReadersMissNothing, ProjectionIsHistory
<1> QED  BY <1>1, Inductive, PTL

\* A call that answered is in the history, and so is one that only failed to
\* replace state.json; one that was refused or rolled back is in no history,
\* not even in that of a transaction another call left open.
THEOREM TrueAnswers == Spec => []AnswersAreTrue
<1>1. IInv => AnswersAreTrue
  BY DEF IInv, Decided, Absent, AnswersAreTrue
<1> QED  BY <1>1, Inductive, PTL

\* The evidence file.  Of an event that is committed, and whose own append did
\* not fail, the last line with its number is its own; that line can be read
\* unless it is glued to what a failed append or a crash left of another.
THEOREM EvidenceIsTrue == Spec => []LastLineIsTheEvent
<1>1. IInv => LastLineIsTheEvent
  <2> SUFFICES ASSUME IInv, NEW n \in DOMAIN log, outcome[log[n]] # "error"
               PROVE  \E i \in DOMAIN file :
                        /\ file[i] = [seq |-> n, call |-> log[n], whole |-> TRUE]
                        /\ \A k \in i + 1 .. Len(file) : file[k].seq # n
                        /\ \/ Readable(i)
                           \/ outcome[file[i - 1].call] \in {"error", "rolled back", "lost"}
    BY DEF LastLineIsTheEvent
  <2>1. PICK i \in DOMAIN file :
          /\ file[i] = [seq |-> n, call |-> log[n], whole |-> TRUE]
          /\ \A k \in i + 1 .. Len(file) : file[k].seq # n
    BY DEF IInv, Lines, Newest
  <2>2. file[i].whole /\ (i > 1 => i - 1 \in DOMAIN file)
    <3>1. file \in Seq(Line)
      BY DEF IInv, TypeOK
    <3>2. DOMAIN file = 1 .. Len(file) /\ Len(file) \in Nat
      BY <3>1
    <3> QED  BY <2>1, <3>2
  <2>3. Readable(i) \/ outcome[file[i - 1].call] \in {"error", "rolled back", "lost"}
    BY <2>2 DEF IInv, Fragments, Readable, Whole
  <2> QED  BY <2>1, <2>3
<1> QED  BY <1>1, Inductive, PTL

=============================================================================
