---------------------------- MODULE DurableJournal ----------------------------
(***************************************************************************)
(* How a call of DurableRunService (sentra_mcp/services/durable.py)        *)
(* reaches its three stores: the tables of SQLite, the evidence file       *)
(* events.jsonl and the projection state.json of a run.                    *)
(*                                                                         *)
(* Every process has one connection and, because of its RLock, one call at *)
(* a time; several processes share the files.  A call that writes with no  *)
(* BEGIN IMMEDIATE does not roll back when it raises: its transaction      *)
(* stays open on the connection, with what it wrote so far, and the next   *)
(* call of the process continues inside it.                                *)
(*                                                                         *)
(* row is the row a call decides on and updates, here runs.state as in     *)
(* transition_run.  update_operation treats its row of operations in the   *)
(* same way; reserve_operation_intent and begin_machine_effect, the        *)
(* guarded calls, do so after BEGIN IMMEDIATE.                             *)
(***************************************************************************)
EXTENDS Naturals, Sequences, SequencesExt

CONSTANTS
  Call,         \* calls, each with an event of its own
  Proc,         \* processes that opened the same state directory
  Checkpoint,   \* what a call wants that only appends an event
  Wants,        \* Wants[e]: the run state call e asks for, or Checkpoint
  Guarded,      \* the calls inside BEGIN IMMEDIATE ... except: rollback
  Nothing,      \* no call
  MaxCrashes,   \* bound on the crashes
  MaxFaults     \* bound on the failures of the file system

RunState == {"RUNNING", "PAUSED", "SUCCEEDED"}

ASSUME JournalAssumption ==
  /\ Checkpoint \notin RunState
  /\ Wants \in [Call -> RunState \union {Checkpoint}]
  /\ Guarded \subseteq Call
  /\ Nothing \notin Call
  /\ MaxCrashes \in Nat
  /\ MaxFaults \in Nat

VARIABLES
  log,          \* committed events of the run; the index is the column seq
  row,          \* committed column runs.state
  file,         \* what was written to events.jsonl, line by line
  projection,   \* the history state.json was computed from
  conn,         \* conn[p]: the transaction open on the connection of p
  view,         \* view[p]: what that transaction reads, its own writes included
  at,           \* at[p]: the call p executes and how far it is
  outcome,      \* outcome[e]: what became of call e
  seen,         \* seen[p]: the events a client of p received, page by page
  faults        \* [crashes, io]: what went wrong so far

vars == <<log, row, file, projection, conn, view, at, outcome, seen, faults>>

-----------------------------------------------------------------------------
\* A line that is not whole is the beginning of one, without its newline.
Line == [seq: Nat, call: Call, whole: BOOLEAN]
View == [log: Seq(Call), row: RunState]
Conn == {"auto", "begun", "reading", "writing"}
Stage == {"idle", "begin", "read", "write", "number", "insert", "line",
          "commit", "project", "replace"}
Outcome == {"new", "running", "ok", "refused", "error", "rolled back",
            "unreported", "lost"}

TypeOK ==
  /\ log \in Seq(Call)
  /\ row \in RunState
  /\ file \in Seq(Line)
  /\ projection \in Seq(Call)
  /\ conn \in [Proc -> Conn]
  /\ view \in [Proc -> View]
  /\ at \in [Proc -> [stage: Stage, call: Call \union {Nothing}, seq: Nat,
                      shown: Seq(Call)]]
  /\ outcome \in [Call -> Outcome]
  /\ seen \in [Proc -> Seq(Call)]
  /\ faults \in [crashes: 0 .. MaxCrashes, io: 0 .. MaxFaults]

Committed == [log |-> log, row |-> row]
Away == [stage |-> "idle", call |-> Nothing, seq |-> 0, shown |-> <<>>]
NoView == [log |-> <<>>, row |-> "RUNNING"]

Init ==
  /\ log = <<>>
  /\ row = "RUNNING"
  /\ file = <<>>
  /\ projection = <<>>
  /\ conn = [p \in Proc |-> "auto"]
  /\ view = [p \in Proc |-> NoView]
  /\ at = [p \in Proc |-> Away]
  /\ outcome = [e \in Call |-> "new"]
  /\ seen = [p \in Proc |-> <<>>]
  /\ faults = [crashes |-> 0, io |-> 0]

-----------------------------------------------------------------------------
\* RUN_TRANSITIONS, over the states of RunState.
RUN_TRANSITIONS ==
  [s \in RunState |-> CASE s = "RUNNING" -> {"PAUSED", "SUCCEEDED"}
                        [] s = "PAUSED"  -> {"RUNNING"}
                        [] OTHER         -> {}]

\* What a SELECT of p sees, and the snapshot it pins in a transaction that
\* a failed write has left open.
Sees(p) == IF conn[p] \in {"reading", "writing"} THEN view[p] ELSE Committed

Selects(p) ==
  IF conn[p] = "begun"
  THEN /\ conn' = [conn EXCEPT ![p] = "reading"]
       /\ view' = [view EXCEPT ![p] = Committed]
  ELSE UNCHANGED <<conn, view>>

\* SQLite has one writer, and refuses a writer whose snapshot is not the last.
MayWrite(p) ==
  \/ conn[p] = "writing"
  \/ /\ \A q \in Proc : conn[q] # "writing"
     /\ conn[p] = "reading" => view[p] = Committed

Writes(p, v) ==
  /\ conn' = [conn EXCEPT ![p] = "writing"]
  /\ view' = [view EXCEPT ![p] = v]

CloseTransaction(p) ==
  /\ conn' = [conn EXCEPT ![p] = "auto"]
  /\ view' = [view EXCEPT ![p] = NoView]

Goes(p, stage) == at' = [at EXCEPT ![p].stage = stage]

\* The call of p returns or raises.
Ends(p, how) ==
  /\ outcome' = [outcome EXCEPT ![at[p].call] = how]
  /\ at' = [at EXCEPT ![p] = Away]

\* (Mutant: no call rolls back.)
RaisesOpen(p, how) ==
  /\ Ends(p, how)
  /\ IF conn[p] = "auto" THEN conn' = [conn EXCEPT ![p] = "begun"] /\ UNCHANGED view
     ELSE UNCHANGED <<conn, view>>

\* An exception: only the guarded calls roll back; elsewhere Python's implicit
\* BEGIN, and whatever followed it, stays.
Raises(p, how) ==
  /\ Ends(p, how)
  /\ IF at[p].call \in Guarded THEN CloseTransaction(p)
     ELSE IF conn[p] = "auto" THEN /\ conn' = [conn EXCEPT ![p] = "begun"]
                                   /\ UNCHANGED view
     ELSE UNCHANGED <<conn, view>>

-----------------------------------------------------------------------------
(* One call.                                                               *)

Start(p, e) ==
  /\ at[p].stage = "idle"
  /\ outcome[e] = "new"
  /\ outcome' = [outcome EXCEPT ![e] = "running"]
  /\ at' = [at EXCEPT ![p] =
       [Away EXCEPT !.call = e,
                    !.stage = IF e \in Guarded THEN "begin"
                              ELSE IF Wants[e] = Checkpoint THEN "number"
                              ELSE "read"]]
  /\ UNCHANGED <<log, row, file, projection, conn, view, seen, faults>>

\* BEGIN IMMEDIATE; SQLite refuses it inside the transaction a call left.
Begin(p) ==
  /\ at[p].stage = "begin"
  /\ conn[p] = "auto"
  /\ MayWrite(p)
  /\ Writes(p, Committed)
  /\ Goes(p, IF Wants[at[p].call] = Checkpoint THEN "number" ELSE "read")
  /\ UNCHANGED <<log, row, file, projection, outcome, seen, faults>>

\* _run_row and the test of the transition table; a plain call reads before
\* it owns the database.
ReadRow(p) ==
  LET wanted == Wants[at[p].call]
      current == Sees(p).row
  IN /\ at[p].stage = "read"
     /\ wanted = current \/ wanted \in RUN_TRANSITIONS[current]
     /\ Selects(p)
     /\ Goes(p, "write")
     /\ UNCHANGED <<log, row, file, projection, outcome, seen, faults>>

\* DurableStateConflict.
Refuse(p) ==
  LET wanted == Wants[at[p].call]
      current == Sees(p).row
  IN /\ at[p].stage = "read"
     /\ ~(wanted = current \/ wanted \in RUN_TRANSITIONS[current])
     /\ Ends(p, "refused")
     /\ IF at[p].call \in Guarded THEN CloseTransaction(p) ELSE Selects(p)
     /\ UNCHANGED <<log, row, file, projection, seen, faults>>

\* (Mutant: the UPDATE commits on its own.)
WriteRowAlone(p) ==
  /\ at[p].stage = "write"
  /\ MayWrite(p)
  /\ Writes(p, [Sees(p) EXCEPT !.row = Wants[at[p].call]])
  /\ row' = Wants[at[p].call]
  /\ Goes(p, "number")
  /\ UNCHANGED <<log, file, projection, outcome, seen, faults>>

\* UPDATE runs SET state=?; the first write of a plain call.
WriteRow(p) ==
  /\ at[p].stage = "write"
  /\ MayWrite(p)
  /\ Writes(p, [Sees(p) EXCEPT !.row = Wants[at[p].call]])
  /\ Goes(p, "number")
  /\ UNCHANGED <<log, row, file, projection, outcome, seen, faults>>

\* seq = last_seq + 1
Number(p) ==
  /\ at[p].stage = "number"
  /\ Selects(p)
  /\ at' = [at EXCEPT ![p].stage = "insert",
                      ![p].seq = Len(Sees(p).log) + 1]
  /\ UNCHANGED <<log, row, file, projection, outcome, seen, faults>>

\* INSERT INTO events and UPDATE runs SET last_seq.
Insert(p) ==
  /\ at[p].stage = "insert"
  /\ MayWrite(p)
  /\ at[p].seq = Len(Sees(p).log) + 1
  /\ Writes(p, [Sees(p) EXCEPT !.log = Append(@, at[p].call)])
  /\ Goes(p, "line")
  /\ UNCHANGED <<log, row, file, projection, outcome, seen, faults>>

\* UNIQUE(run_id, seq): another process took the number.  The INSERT is undone,
\* its transaction is not.
Clash(p) ==
  /\ at[p].stage = "insert"
  /\ MayWrite(p)
  /\ at[p].seq # Len(Sees(p).log) + 1
  /\ Ends(p, "refused")
  /\ Writes(p, Sees(p))
  /\ UNCHANGED <<log, row, file, projection, seen, faults>>

\* (Mutant: no busy timeout.)
LockedAtOnce(p) ==
  /\ \/ at[p].stage \in {"write", "insert"} /\ conn[p] = "reading" /\ ~MayWrite(p)
     \/ at[p].stage = "begin" /\ conn[p] # "auto"
  /\ Raises(p, "refused")
  /\ UNCHANGED <<log, row, file, projection, seen, faults>>

\* "database is locked", after the busy timeout or at once.
Locked(p) ==
  /\ \/ at[p].stage \in {"write", "insert"} /\ ~MayWrite(p)
     \/ at[p].stage = "begin" /\ (conn[p] # "auto" \/ ~MayWrite(p))
  /\ Raises(p, "refused")
  /\ UNCHANGED <<log, row, file, projection, seen, faults>>

LineOf(p, whole) == [seq |-> at[p].seq, call |-> at[p].call, whole |-> whole]

\* The file after a write that does not return: without the line, with the
\* beginning of it, or with all of it (closing a file writes what is left).
Torn(p) == {file} \union {Append(file, LineOf(p, whole)) : whole \in BOOLEAN}

\* The line is appended and synced before the transaction commits.
AppendLine(p) ==
  /\ at[p].stage = "line"
  /\ file' = Append(file, LineOf(p, TRUE))
  /\ Goes(p, "commit")
  /\ UNCHANGED <<log, row, projection, conn, view, outcome, seen, faults>>

\* (Mutant: an append that fails is ignored, as a failing fsync is.)
AppendFailsQuietly(p) ==
  /\ at[p].stage = "line"
  /\ faults.io < MaxFaults
  /\ faults' = [faults EXCEPT !.io = @ + 1]
  /\ Goes(p, "commit")
  /\ UNCHANGED <<log, row, file, projection, conn, view, outcome, seen>>

AppendFails(p) ==
  /\ at[p].stage = "line"
  /\ faults.io < MaxFaults
  /\ faults' = [faults EXCEPT !.io = @ + 1]
  /\ Raises(p, IF at[p].call \in Guarded THEN "rolled back" ELSE "error")
  /\ file' \in Torn(p)
  /\ UNCHANGED <<log, row, projection, seen>>

Commit(p) ==
  /\ at[p].stage = "commit"
  /\ log' = view[p].log
  /\ row' = view[p].row
  /\ CloseTransaction(p)
  /\ Goes(p, "project")
  /\ UNCHANGED <<file, projection, outcome, seen, faults>>

\* _project_locked: read, write a temporary file, replace state.json.
Project(p) ==
  /\ at[p].stage = "project"
  /\ at' = [at EXCEPT ![p].stage = "replace", ![p].shown = Sees(p).log]
  /\ UNCHANGED <<log, row, file, projection, conn, view, outcome, seen, faults>>

Replace(p) ==
  /\ at[p].stage = "replace"
  /\ projection' = at[p].shown
  /\ Ends(p, "ok")
  /\ UNCHANGED <<log, row, file, conn, view, seen, faults>>

\* PermissionError: the caller sees an exception of a call that is committed.
ReplaceFails(p) ==
  /\ at[p].stage = "replace"
  /\ faults.io < MaxFaults
  /\ faults' = [faults EXCEPT !.io = @ + 1]
  /\ Ends(p, "unreported")
  /\ UNCHANGED <<log, row, file, projection, conn, view, seen>>

-----------------------------------------------------------------------------
\* events_after: a page of the events after the client's cursor.
ReadPage(p) ==
  /\ at[p].stage = "idle"
  /\ \E n \in Len(seen[p]) + 1 .. Len(Sees(p).log) :
       seen' = [seen EXCEPT ![p] =
                  @ \o SubSeq(Sees(p).log, Len(@) + 1, n)]
  /\ Selects(p)
  /\ UNCHANGED <<log, row, file, projection, at, outcome, faults>>

\* The process dies and is started again; SQLite undoes what was not committed,
\* nobody undoes the lines.
Crash(p) ==
  /\ faults.crashes < MaxCrashes
  /\ faults' = [faults EXCEPT !.crashes = @ + 1]
  /\ outcome' = [e \in Call |-> IF e = at[p].call THEN "lost" ELSE outcome[e]]
  /\ at' = [at EXCEPT ![p] = Away]
  /\ CloseTransaction(p)
  /\ file' \in IF at[p].stage = "line" THEN Torn(p) ELSE {file}
  /\ UNCHANGED <<log, row, projection, seen>>

\* The next step of the call p is in; every stage has one.
Step(p) ==
  \/ Begin(p) \/ ReadRow(p) \/ Refuse(p) \/ WriteRow(p) \/ Number(p)
  \/ Insert(p) \/ Clash(p) \/ Locked(p) \/ AppendLine(p) \/ AppendFails(p)
  \/ Commit(p) \/ Project(p) \/ Replace(p) \/ ReplaceFails(p)

Next ==
  \E p \in Proc :
    \/ \E e \in Call : Start(p, e)
    \/ Step(p)
    \/ ReadPage(p)
    \/ Crash(p)

Spec == Init /\ [][Next]_vars

\* A process that is alive executes its call; nothing makes it start one.
Fairness == \A p \in Proc : WF_vars(Step(p))

FairSpec == Spec /\ Fairness

-----------------------------------------------------------------------------
(* Properties.                                                             *)

\* A call that answered is in the history, and so is one whose projection
\* alone failed; a call that was refused, or rolled back, never gets in, not
\* even with a later call that continues the transaction it left behind.
AnswersAreTrue ==
  \A e \in Call :
    /\ outcome[e] \in {"ok", "unreported"} => e \in ToSet(log)
    /\ outcome[e] \in {"refused", "rolled back"} =>
         /\ e \notin ToSet(log)
         /\ \A p \in Proc : e \notin ToSet(view[p].log)

\* A line can be read unless it is glued to the beginning of another.
Readable(i) == file[i].whole /\ (i > 1 => file[i - 1].whole)

\* events.jsonl is evidence: of the lines with the number of a committed event
\* the last is that event's, although crashes and rollbacks leave lines of
\* events that never were.  Only an event whose append failed has no line, and
\* only one glued to what a failed append or a crash left cannot be read.
LastLineIsTheEvent ==
  \A n \in DOMAIN log : outcome[log[n]] # "error" =>
    \E i \in DOMAIN file :
      /\ file[i] = [seq |-> n, call |-> log[n], whole |-> TRUE]
      /\ \A k \in i + 1 .. Len(file) : file[k].seq # n
      /\ Readable(i) \/ outcome[file[i - 1].call] \in {"error", "rolled back", "lost"}

\* The state a history leads to: of its last event that moved the run, or the
\* first one.
Explained(state, history) ==
  \/ state = "RUNNING" /\ \A n \in DOMAIN history : Wants[history[n]] = Checkpoint
  \/ \E n \in DOMAIN history :
       /\ state = Wants[history[n]]
       /\ \A k \in n + 1 .. Len(history) : Wants[history[k]] = Checkpoint

\* The state of the run is the one its history ends in, with whatever other
\* calls' transactions it was committed.
RowIsExplained == Explained(row, log)

\* A client that pages through the events misses none and sees none twice,
\* whichever processes write meanwhile; a process in which an append failed
\* may have shown it what was never committed.
ReadersMissNothing ==
  \A p \in Proc : (\A e \in Call : outcome[e] # "error") => IsPrefix(seen[p], log)

\* state.json shows a history that was committed, never an uncommitted one.
ProjectionIsHistory == IsPrefix(projection, log)

\* What every step maintains: types, and three views of one history, the row,
\* the readers and the projection.
JournalInvariant ==
  TypeOK /\ RowIsExplained /\ ReadersMissNothing /\ ProjectionIsHistory

\* Two processes never wait for each other for ever: every call ends.
EveryCallEnds == \A e \in Call : outcome[e] = "running" ~> outcome[e] # "running"

=============================================================================
