------------------------------ MODULE Backfill ------------------------------
(***************************************************************************)
(* A backfill walks one table toward an end cursor read at its start, one  *)
(* window of rows per transaction, while the application goes on writing   *)
(* (apply/backend/{postgres,mysql,sqlite}/backfill_sql.rs).  The step may  *)
(* be authored, or the last expand step of an online column rename, which  *)
(* walks under the dual-write trigger of render/expand_contract.rs.        *)
(*                                                                         *)
(* Abstractions.  A row is the pair of columns the step copies between;    *)
(* its key is the cursor tuple, a number.  The transform is `to := from`   *)
(* and is taken not to be idempotent: `ran` counts it.  The project lock   *)
(* is held by whoever runs (Deploy), so there is one runner.  A failing    *)
(* statement rolls its transaction back as a death does.                   *)
(***************************************************************************)
EXTENDS Integers, FiniteSets, Sequences

CONSTANTS
  Keys,          \* cursor values a row can have
  Values,        \* values of either column
  Null,          \* SQL NULL
  NoRow,         \* no row has the key
  Checksums,     \* bodies of the step the author has written
  Specs,         \* the steps to consider, each a StepSpec
  BatchSize,     \* spec.batch_size
  MaxCrashes,    \* bound: deaths of the runner
  MaxWrites,     \* bound: statements of the application
  MaxRollbacks   \* bound: rollbacks through the recorded inverse

StepSpec == [backend : {"postgres", "mysql", "sqlite"},
             filtered : BOOLEAN,   \* WHERE to IS NULL
             perRow : BOOLEAN,     \* one UPDATE per row, under FOR UPDATE
             guarded : BOOLEAN,    \* guardUpdates, or an external invariant
             rename : BOOLEAN]     \* the E3 of an online rename

ASSUME KeysAssumption == Keys \subseteq Nat \ {0} /\ IsFiniteSet(Keys)
ASSUME BatchAssumption == BatchSize \in Nat \ {0}
ASSUME BoundsAssumption == MaxCrashes \in Nat /\ MaxWrites \in Nat /\ MaxRollbacks \in Nat
ASSUME SpecsAssumption == Specs \subseteq StepSpec
ASSUME RowsAssumption ==
  Null \notin Values /\ NoRow \notin [from : Values \cup {Null}, to : Values \cup {Null}]

VARIABLES
  spec,       \* the step being run, chosen once
  table,      \* key -> row
  guard,      \* the trigger that refuses a change of the cursor columns is there
  progress,   \* the step's row of schema_backfills
  journal,    \* the latest event of the step's version
  pc,         \* where the runner is
  body,       \* the checksum the runner was given
  window,     \* keys a running set-based statement has selected
  crashes, writes, rollbacks,
  \* What the properties remember of the past.
  ran,        \* key -> bodies whose transform has been committed to the row there
  cohort,     \* keys of rows that met the filter at capture and still owe a transform
  said,       \* key -> what the application last asked the row to hold
  touched     \* keys of rows updated without a change to either column

rows == <<table, ran, cohort, said, touched>>
bounds == <<crashes, writes, rollbacks>>
vars == <<spec, rows, guard, progress, journal, pc, body, window, bounds>>

Cells == Values \cup {Null}
Row == [from : Cells, to : Cells]
Present == {k \in Keys : table[k] # NoRow}

(***************************************************************************)
(* The table and its triggers.                                             *)
(***************************************************************************)
Meets(row) == spec.filtered => row.to = Null

Copied(row) == [row EXCEPT !.to = row.from]

\* Mutant: an UPDATE of both columns matches neither arm.
MirrorOne(old, new) ==
  IF new.from # old.from /\ new.to = old.to
  THEN [new EXCEPT !.to = new.from]
  ELSE IF new.to # old.to /\ new.from = old.from THEN [new EXCEPT !.from = new.to] ELSE new

\* The dual-write trigger on an UPDATE: only `from` changed, or `to` wins.
Mirror(old, new) ==
  IF new.from # old.from /\ new.to = old.to
  THEN [new EXCEPT !.to = new.from]
  ELSE [new EXCEPT !.from = new.to]

\* The dual-write trigger on an INSERT.
MirrorNew(new) ==
  IF new.to = Null /\ new.from # Null
  THEN [new EXCEPT !.to = new.from]
  ELSE [new EXCEPT !.from = new.to]

Stored(old, new) == IF spec.rename THEN Mirror(old, new) ELSE new
StoredNew(new) == IF spec.rename THEN MirrorNew(new) ELSE new

(***************************************************************************)
(* The cursor.                                                             *)
(***************************************************************************)
NoProgress ==
  [exists |-> FALSE, body |-> "", guard |-> "none", captured |-> FALSE,
   last |-> 0, end |-> 0, complete |-> FALSE]

\* Mutant: keys compared as text, where 9 is the greatest of 9, 10 and 11.
HighestAsText(S) == IF S = {} THEN 0 ELSE IF 9 \in S THEN 9 ELSE CHOOSE k \in S : \A j \in S : j <= k

Highest(S) == IF S = {} THEN 0 ELSE CHOOSE k \in S : \A j \in S : j <= k

\* Mutant: a bound the type of the cursor can not hold.
EndCursorPast == Highest({k \in Present : Meets(table[k])}) + 1

EndCursor == Highest({k \in Present : Meets(table[k])})

Candidates ==
  {k \in Present : progress.last < k /\ k <= progress.end /\ Meets(table[k])}

Window == {k \in Candidates : Cardinality({j \in Candidates : j < k}) < BatchSize}

\* Mutant: no window is read FOR UPDATE.
NeverLocks == TRUE

\* The set-based UPDATE of PostgreSQL reads its window before it locks a row of it.
SetBased == spec.backend = "postgres" /\ ~spec.perRow

-----------------------------------------------------------------------------
\* For an online rename the earlier expand steps have run: the trigger is there and no
\* row has been copied.
Init ==
  /\ spec \in Specs
  /\ \E there \in SUBSET Keys, filled \in SUBSET Keys, v \in Values :
       /\ filled \subseteq there
       /\ spec.rename => filled = {}
       /\ table = [k \in Keys |-> IF k \notin there THEN NoRow
                                  ELSE [from |-> v, to |-> IF k \in filled THEN v ELSE Null]]
       /\ said = [k \in Keys |-> IF k \in filled \/ (spec.rename /\ k \in there)
                                 THEN v ELSE Null]
  /\ guard = FALSE
  /\ progress = NoProgress
  /\ journal = [kind |-> "none", body |-> ""]
  /\ pc = "idle" /\ body = "" /\ window = {}
  /\ crashes = 0 /\ writes = 0 /\ rollbacks = 0
  /\ ran = [k \in Keys |-> <<>>]
  /\ cohort = {} /\ touched = {}

-----------------------------------------------------------------------------
Goto(there) == pc' = there

\* Where a run goes on from what schema_backfills says.
Resume(p) ==
  CASE p.complete -> IF spec.backend # "mysql" THEN "finish"
                     ELSE IF p.guard = "cleanup_pending" THEN "cleanup" ELSE "append"
    [] ~p.complete /\ p.guard = "planned" -> "guard"
    [] ~p.complete /\ p.guard # "planned" /\ ~p.captured -> "capture"
    [] ~p.complete /\ p.captured -> IF p.end = 0 THEN "finish" ELSE "walk"

\* Mutant: a resumed walk takes whatever body it is given.
AnyBody(b) == TRUE

\* The recorded checksum of a walk that has begun is the one supplied.
BodyAgrees(b) == progress.exists => progress.body = b

\* run_backfill_step, run_backfill: a version that is applied is skipped; the progress row
\* says where to go on.
Begin(b) ==
  /\ pc = "idle" /\ journal.kind # "applied"
  /\ BodyAgrees(b)
  /\ body' = b
  /\ Goto(IF progress.exists THEN Resume(progress) ELSE "initialize")
  /\ UNCHANGED <<spec, rows, guard, progress, journal, window, bounds>>

\* The cohort: rows that meet the filter as the end cursor is read.
Capture(p) ==
  /\ progress' = [p EXCEPT !.captured = TRUE, !.end = EndCursor]
  /\ cohort' = {k \in Present : Meets(table[k])}
  /\ Goto(IF EndCursor = 0 THEN "finish" ELSE "walk")

\* Mutant: the end cursor is read before the trigger is there, and it never comes.
CaptureUnguarded ==
  /\ pc = "initialize" /\ spec.backend # "mysql"
  /\ Capture([NoProgress EXCEPT !.exists = TRUE, !.body = body, !.guard = "installed"])
  /\ UNCHANGED <<spec, table, ran, said, touched, guard, journal, body, window, bounds>>

\* PostgreSQL and SQLite, one transaction: the guard, the end cursor, the progress row.
Initialize ==
  /\ pc = "initialize" /\ spec.backend # "mysql"
  /\ guard' = spec.guarded
  /\ Capture([NoProgress EXCEPT !.exists = TRUE, !.body = body,
                                !.guard = IF spec.guarded THEN "installed" ELSE "none"])
  /\ UNCHANGED <<spec, table, ran, said, touched, journal, body, window, bounds>>

\* MySQL: the obligation is durable before the trigger it is about.
InitializeObligation ==
  /\ pc = "initialize" /\ spec.backend = "mysql"
  /\ progress' = [NoProgress EXCEPT !.exists = TRUE, !.body = body,
                                    !.guard = IF spec.guarded THEN "planned" ELSE "none"]
  /\ Goto(IF spec.guarded THEN "guard" ELSE "capture")
  /\ UNCHANGED <<spec, rows, guard, journal, body, window, bounds>>

\* CREATE TRIGGER commits by itself; a trigger that an earlier attempt left is adopted.
CreateGuard ==
  /\ pc = "guard"
  /\ guard' = TRUE
  /\ Goto("installed")
  /\ UNCHANGED <<spec, rows, progress, journal, body, window, bounds>>

RecordGuard ==
  /\ pc = "installed"
  /\ progress' = [progress EXCEPT !.guard = "installed"]
  /\ Goto("capture")
  /\ UNCHANGED <<spec, rows, guard, journal, body, window, bounds>>

InitializeCohort ==
  /\ pc = "capture"
  /\ Capture(progress)
  /\ UNCHANGED <<spec, table, ran, said, touched, guard, journal, body, window, bounds>>

-----------------------------------------------------------------------------
\* Mutant: a full window ends the walk.
WriteAndStop(selected) ==
  /\ table' = [k \in Keys |-> IF k \in selected THEN Stored(table[k], Copied(table[k]))
                              ELSE table[k]]
  /\ ran' = [k \in Keys |-> IF k \in selected THEN Append(ran[k], body) ELSE ran[k]]
  /\ cohort' = cohort \ selected
  /\ progress' = [progress EXCEPT !.last = IF selected = {} THEN @ ELSE Highest(selected)]
  /\ Goto(IF Cardinality(selected) <= BatchSize THEN "finish" ELSE "walk")
  /\ UNCHANGED <<spec, said, touched, guard, journal, body, bounds>>

\* One window is written and the cursor moves to its last key, in one transaction.
Write(selected) ==
  /\ table' = [k \in Keys |-> IF k \in selected THEN Stored(table[k], Copied(table[k]))
                              ELSE table[k]]
  /\ ran' = [k \in Keys |-> IF k \in selected THEN Append(ran[k], body) ELSE ran[k]]
  /\ cohort' = cohort \ selected
  /\ progress' = [progress EXCEPT !.last = IF selected = {} THEN @ ELSE Highest(selected)]
  /\ Goto(IF Cardinality(selected) < BatchSize THEN "finish" ELSE "walk")
  /\ UNCHANGED <<spec, said, touched, guard, journal, body, bounds>>

\* MySQL, SQLite and per-row steps: the rows are locked as they are selected.
RunBatch ==
  /\ pc = "walk" /\ ~SetBased
  /\ Write(Window)
  /\ UNCHANGED window

\* PostgreSQL, set-based: the statement's snapshot ...
SelectWindow ==
  /\ pc = "walk" /\ SetBased
  /\ window' = Window
  /\ Goto("update")
  /\ UNCHANGED <<spec, rows, guard, progress, journal, body, bounds>>

\* ... and its UPDATE, which waits for row locks and matches on the key alone. A row that
\* has gone makes the two counts differ.
UpdateWindow ==
  /\ pc = "update" /\ window \subseteq Present
  /\ Write(window)
  /\ window' = {}

BatchFails ==
  /\ pc = "update" /\ ~(window \subseteq Present)
  /\ window' = {} /\ Goto("idle")
  /\ UNCHANGED <<spec, rows, guard, progress, journal, body, bounds>>

-----------------------------------------------------------------------------
Journaled == journal' = [kind |-> "applied", body |-> body]

\* PostgreSQL and SQLite, one transaction: the guard goes, the progress row is complete,
\* the version is applied.
FinishBackfill ==
  /\ pc = "finish" /\ spec.backend # "mysql"
  /\ guard' = (guard /\ progress.complete)
  /\ progress' = [progress EXCEPT !.complete = TRUE,
                                  !.guard = IF @ = "installed" THEN "cleaned" ELSE @]
  /\ Journaled
  /\ Goto("idle")
  /\ UNCHANGED <<spec, rows, body, window, bounds>>

\* Mutant: MySQL journals the version as soon as its walk is complete.
CompleteAndJournal ==
  /\ pc = "finish" /\ spec.backend = "mysql"
  /\ progress' = [progress EXCEPT !.complete = TRUE,
                                  !.guard = IF @ = "installed" THEN "cleanup_pending" ELSE @]
  /\ Journaled
  /\ Goto(IF progress.guard = "installed" THEN "cleanup" ELSE "append")
  /\ UNCHANGED <<spec, rows, guard, body, window, bounds>>

MarkDurableComplete ==
  /\ pc = "finish" /\ spec.backend = "mysql"
  /\ progress' = [progress EXCEPT !.complete = TRUE,
                                  !.guard = IF @ = "installed" THEN "cleanup_pending" ELSE @]
  /\ Goto(IF progress.guard = "installed" THEN "cleanup" ELSE "append")
  /\ UNCHANGED <<spec, rows, guard, journal, body, window, bounds>>

\* DROP TRIGGER commits by itself, before its record.
DropGuard ==
  /\ pc = "cleanup"
  /\ guard' = FALSE
  /\ Goto("dropped")
  /\ UNCHANGED <<spec, rows, progress, journal, body, window, bounds>>

RecordCleaned ==
  /\ pc = "dropped"
  /\ progress' = [progress EXCEPT !.guard = "cleaned"]
  /\ Goto("append")
  /\ UNCHANGED <<spec, rows, guard, journal, body, window, bounds>>

AppendCompletedJournal ==
  /\ pc = "append"
  /\ Journaled
  /\ Goto("idle")
  /\ UNCHANGED <<spec, rows, guard, progress, body, window, bounds>>

\* The runner dies, or a statement fails: the open transaction is gone.
Crash ==
  /\ pc # "idle" /\ crashes < MaxCrashes
  /\ crashes' = crashes + 1
  /\ window' = {} /\ Goto("idle")
  /\ UNCHANGED <<spec, rows, guard, progress, journal, body, writes, rollbacks>>

\* The inverse's DML and the rolled_back event commit together; the progress row stays.
RollBack ==
  /\ pc = "idle" /\ journal.kind = "applied" /\ ~spec.rename
  /\ rollbacks < MaxRollbacks
  /\ rollbacks' = rollbacks + 1
  /\ table' = [k \in Keys |-> IF k \in Present THEN [table[k] EXCEPT !.to = Null] ELSE NoRow]
  /\ ran' = [k \in Keys |-> <<>>]
  /\ said' = [k \in Keys |-> Null]
  /\ cohort' = Present
  /\ journal' = [journal EXCEPT !.kind = "rolled_back"]
  /\ UNCHANGED <<spec, touched, guard, progress, pc, body, window, crashes, writes>>

-----------------------------------------------------------------------------
(***************************************************************************)
(* The application.                                                        *)
(***************************************************************************)
AppWrites ==
  /\ writes < MaxWrites
  /\ writes' = writes + 1
  /\ UNCHANGED <<spec, guard, progress, journal, pc, body, window, crashes, rollbacks>>

Insert(k, new) ==
  /\ k \notin Present
  /\ table' = [table EXCEPT ![k] = StoredNew(new)]
  /\ ran' = [ran EXCEPT ![k] = <<>>]
  /\ said' = [said EXCEPT ![k] = IF spec.rename THEN StoredNew(new).to ELSE new.to]
  /\ touched' = touched \ {k}
  /\ UNCHANGED cohort
  /\ AppWrites

Delete(k) ==
  /\ k \in Present
  /\ table' = [table EXCEPT ![k] = NoRow]
  /\ ran' = [ran EXCEPT ![k] = <<>>]
  /\ said' = [said EXCEPT ![k] = Null]
  /\ cohort' = cohort \ {k} /\ touched' = touched \ {k}
  /\ AppWrites

\* An UPDATE of either column or of both; a rename keeps what the destination was given.
Update(k, new) ==
  /\ k \in Present /\ new # table[k]
  /\ table' = [table EXCEPT ![k] = Stored(@, new)]
  /\ said' = CASE new.to # table[k].to -> [said EXCEPT ![k] = new.to]
               [] new.to = table[k].to -> IF spec.rename THEN [said EXCEPT ![k] = new.from]
                                          ELSE said
  /\ cohort' = IF spec.filtered /\ table'[k].to # table[k].to THEN cohort \ {k} ELSE cohort
  /\ UNCHANGED <<ran, touched>>
  /\ AppWrites

\* An UPDATE that leaves both columns as they are.
Touch(k) ==
  /\ k \in Present
  /\ table' = [table EXCEPT ![k] = Stored(@, @)]
  /\ touched' = touched \cup {k}
  /\ UNCHANGED <<ran, said, cohort>>
  /\ AppWrites

\* The cursor columns of a row change. The guard refuses it; an external invariant is a
\* promise that it does not happen once the step has been deployed.
MoveKey(k, to) ==
  /\ k \in Present /\ to \in Keys \ Present
  /\ ~guard
  /\ spec.guarded \/ (pc = "idle" /\ ~progress.exists)
  /\ table' = [table EXCEPT ![to] = table[k], ![k] = NoRow]
  /\ ran' = [ran EXCEPT ![to] = ran[k], ![k] = <<>>]
  /\ said' = [said EXCEPT ![to] = said[k], ![k] = Null]
  /\ cohort' = (cohort \ {k}) \cup {j \in {to} : k \in cohort}
  /\ touched' = (touched \ {k}) \cup {j \in {to} : k \in touched}
  /\ AppWrites

-----------------------------------------------------------------------------
RunnerStep ==
  \/ \E b \in Checksums : Begin(b)
  \/ Initialize \/ InitializeObligation \/ CreateGuard \/ RecordGuard \/ InitializeCohort
  \/ RunBatch \/ SelectWindow \/ UpdateWindow \/ BatchFails
  \/ FinishBackfill \/ MarkDurableComplete \/ DropGuard \/ RecordCleaned
  \/ AppendCompletedJournal

Application ==
  \E k \in Keys :
    \/ \E new \in Row : Insert(k, new) \/ Update(k, new)
    \/ Delete(k)
    \/ Touch(k)
    \/ \E to \in Keys : MoveKey(k, to)

Next == RunnerStep \/ Crash \/ RollBack \/ Application

Spec == Init /\ [][Next]_vars

-----------------------------------------------------------------------------
(***************************************************************************)
(* Properties.                                                             *)
(***************************************************************************)
GuardStates == {"none", "planned", "installed", "cleanup_pending", "cleaned"}

\* Every variable keeps its type, and a walk stays inside its bounds.
BackfillTypeOK ==
  /\ spec \in StepSpec
  /\ table \in [Keys -> Row \cup {NoRow}]
  /\ guard \in BOOLEAN
  /\ progress \in [exists : BOOLEAN, body : Checksums \cup {""}, guard : GuardStates,
                   captured : BOOLEAN, last : Keys \cup {0}, end : Keys \cup {0},
                   complete : BOOLEAN]
  /\ journal \in [kind : {"none", "applied", "rolled_back"}, body : Checksums \cup {""}]
  /\ pc \in {"idle", "initialize", "guard", "installed", "capture", "walk", "update",
             "finish", "cleanup", "dropped", "append"}
  /\ body \in Checksums \cup {""}
  /\ window \subseteq Keys
  /\ crashes \in 0..MaxCrashes /\ writes \in 0..MaxWrites /\ rollbacks \in 0..MaxRollbacks
  /\ ran \in [Keys -> Seq(Checksums)]
  /\ cohort \subseteq Keys /\ touched \subseteq Keys
  /\ said \in [Keys -> Cells]

\* However the runner dies and resumes and whatever the application does meanwhile, the
\* transform, which need not be idempotent, is committed to a row at most once: the cursor
\* moves with the rows it covers (run_batch) and the guard keeps a row from overtaking it.
TransformedOnce == \A k \in Keys : Len(ran[k]) <= 1

\* The rows that met the filter as the end cursor was read, that are still there and whose
\* destination the application has not written since, have been transformed when the
\* version is journaled as applied (run_backfill's two stopping rules, finish_backfill).
Replayed == journal.kind = "applied" => cohort = {}

\* Replayed, until the step is rolled back.
CohortCovered == rollbacks = 0 => Replayed

\* One body does the whole walk: a step edited between two attempts transforms no row, and
\* the journal names the body that ran (decode_progress, validate_resume_progress).
OneBody ==
  /\ \A k \in Keys, i \in 1..2 : i <= Len(ran[k]) => ran[k][i] = progress.body
  /\ journal.kind # "none" => journal.body = progress.body

\* A guarded step's trigger is there from the capture of the cohort to the completion of
\* the walk, over every death of the runner (install_guard, ensure_guard_installed).
GuardHeld ==
  spec.guarded /\ progress.captured /\ ~progress.complete => guard

\* "An upstream completed-step skip can never strand a trigger": a version that is skipped
\* from now on has left no trigger that refuses the application's updates
\* (finalize_backfill, finish_backfill).
NoneStranded == journal.kind # "none" => ~guard

\* Once the rename's backfill is complete the two columns agree in every row, whichever of
\* them the application has been writing meanwhile (dual_write_function_body).
Aligned ==
  spec.rename /\ progress.complete => \A k \in Present : table[k].from = table[k].to

Holds(k) ==
  \/ said[k] = Null
  \/ table[k].to = said[k]
  \/ spec.rename /\ table[k].from = said[k]

\* What the application last wrote to the pair is in the row: neither the walk nor the
\* dual-write trigger loses it.
ValuesKept == spec.filtered => \A k \in Present : Holds(k)

\* ValuesKept, but for rows updated through another column, and but for PostgreSQL's
\* set-based step, whose UPDATE does not look at the filter again.
WritesSurvive ==
  spec.filtered /\ (spec.rename \/ spec.perRow \/ spec.backend # "postgres") =>
    \A k \in Present \ touched : Holds(k)
=============================================================================
