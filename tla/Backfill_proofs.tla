-------------------------- MODULE Backfill_proofs --------------------------
(***************************************************************************)
(* What holds of every behaviour of Backfill, for every table, batch size, *)
(* step and bound.                                                         *)
(***************************************************************************)
EXTENDS Backfill, FiniteSetTheorems, TLAPS

-----------------------------------------------------------------------------
(* The inductive invariant.                                                *)

\* Where the runner is, by what it was given and what the progress row says.
Running ==
  /\ pc # "idle" => body \in Checksums /\ journal.kind # "applied"
  /\ pc = "initialize" => ~progress.exists
  /\ pc \notin {"idle", "initialize"} => progress.exists /\ progress.body = body
  /\ pc \in {"guard", "installed"} => progress.guard = "planned"
  /\ pc = "capture" => ~progress.captured /\ progress.guard # "planned"
  /\ pc \in {"walk", "update"} => progress.captured /\ ~progress.complete
  /\ pc = "update" => SetBased
  /\ pc = "finish" =>
       progress.captured /\ (progress.complete => spec.backend # "mysql")
  /\ pc \in {"cleanup", "dropped"} => progress.guard = "cleanup_pending"
  /\ pc = "append" => progress.complete /\ progress.guard # "cleanup_pending"

\* What the progress row says of the trigger, and the journal of the progress row.
Recorded ==
  /\ ~progress.exists => progress = NoProgress
  /\ progress.complete => progress.captured
  /\ progress.guard = "planned" => ~progress.captured /\ spec.guarded
  /\ progress.guard = "installed" => guard /\ ~progress.complete
  /\ progress.guard = "cleanup_pending" => progress.complete /\ spec.backend = "mysql"
  /\ progress.guard = "cleaned" => ~guard /\ progress.complete
  /\ progress.guard = "none" => ~guard /\ (progress.exists => ~spec.guarded)
  /\ pc = "installed" => guard
  /\ pc = "dropped" => ~guard
  /\ journal.kind # "none" =>
       /\ progress.complete /\ progress.guard # "cleanup_pending"
       /\ journal.body = progress.body

\* Keys past the cursor, before every other key of the cohort, and the last of them when
\* they do not fill a batch.
Ahead(S) ==
  /\ \A k \in S : progress.last < k
  /\ \A k \in cohort \ S, j \in S : j < k
  /\ Cardinality(S) < BatchSize => cohort \subseteq S

\* The cursor has passed every row that was transformed, and none that still waits.
Walked ==
  /\ ~progress.captured => cohort = {} /\ progress.last = 0
  /\ \A k \in Keys : ran[k] \in {<<>>, <<progress.body>>}
  /\ ~progress.complete => \A k \in Keys : ran[k] # <<>> => k <= progress.last
  /\ progress.captured /\ ~progress.complete => cohort \subseteq Candidates
  /\ pc = "update" => Ahead(window)
  /\ pc = "finish" /\ ~progress.complete => cohort = {}
  /\ progress.complete /\ rollbacks = 0 => cohort = {}

\* The columns of a rename differ only in a row the walk will reach.
Twins ==
  spec.rename =>
    /\ rollbacks = 0
    /\ \A k \in Present :
         \/ table[k].from = table[k].to
         \/ table[k].to = Null /\ (progress.captured => k \in cohort)

Control == BackfillTypeOK /\ Running /\ Recorded

IInv == Control /\ Walked /\ Twins /\ WritesSurvive

-----------------------------------------------------------------------------
(* Sets of keys.                                                           *)

\* A set of numbers that is finite and not empty has a least and a greatest element.
LEMMA Extremes ==
  ASSUME NEW S, IsFiniteSet(S), S \subseteq Nat, S # {}
  PROVE  /\ \E k \in S : \A j \in S : k <= j
         /\ \E k \in S : \A j \in S : j <= k
<1> DEFINE Below(k) == {j \in S : j < k}
           Above(k) == {j \in S : k < j}
           R == StrictSubsetOrdering(S)
<1>1. \A k \in S : Below(k) \in FiniteSubsetsOf(S) /\ Above(k) \in FiniteSubsetsOf(S)
  BY FS_Subset DEF FiniteSubsetsOf
<1>2. IsWellFoundedOn(R, FiniteSubsetsOf(S))
  BY FS_StrictSubsetOrderingWellFounded
<1>3. \E k \in S : \A j \in S : k <= j
  <2>1. PICK T \in {Below(k) : k \in S} : \A U \in {Below(k) : k \in S} : ~(<<U, T>> \in R)
    <3> HIDE DEF R, Below
    <3>1. {Below(k) : k \in S} \subseteq FiniteSubsetsOf(S) /\ {Below(k) : k \in S} # {}
      BY <1>1
    <3> QED
      BY <1>2, <3>1, WFMin
  <2>2. PICK k \in S : T = Below(k)
    BY <2>1
  <2>3. ASSUME NEW j \in S, j < k
        PROVE  FALSE
    <3>1. \A i \in S : i < j => i < k
      BY <2>3
    <3>2. j \in Below(k) /\ j \notin Below(j)
      BY <2>3
    <3>3. <<Below(j), Below(k)>> \in R
      BY <3>1, <3>2 DEF StrictSubsetOrdering
    <3> QED
      BY <2>1, <2>2, <3>3
  <2> QED
    BY <2>3
<1>4. \E k \in S : \A j \in S : j <= k
  <2>1. PICK T \in {Above(k) : k \in S} : \A U \in {Above(k) : k \in S} : ~(<<U, T>> \in R)
    <3> HIDE DEF R, Above
    <3>1. {Above(k) : k \in S} \subseteq FiniteSubsetsOf(S) /\ {Above(k) : k \in S} # {}
      BY <1>1
    <3> QED
      BY <1>2, <3>1, WFMin
  <2>2. PICK k \in S : T = Above(k)
    BY <2>1
  <2>3. ASSUME NEW j \in S, k < j
        PROVE  FALSE
    <3>1. \A i \in S : j < i => k < i
      BY <2>3
    <3>2. j \in Above(k) /\ j \notin Above(j)
      BY <2>3
    <3>3. <<Above(j), Above(k)>> \in R
      BY <3>1, <3>2 DEF StrictSubsetOrdering
    <3> QED
      BY <2>1, <2>2, <3>3
  <2> QED
    BY <2>3
<1> QED
  BY <1>3, <1>4

\* Highest finds the greatest key.
LEMMA HighestIs ==
  ASSUME NEW S, S \subseteq Keys
  PROVE  /\ Highest(S) \in Keys \cup {0}
         /\ S # {} => Highest(S) \in S
         /\ \A j \in S : j <= Highest(S)
<1>1. S # {} => \E k \in S : \A j \in S : j <= k
  BY Extremes, FS_Subset, KeysAssumption
<1> QED
  BY <1>1 DEF Highest

\* A window leaves out no candidate before one it takes, and all of them only when full.
LEMMA WindowIs ==
  ASSUME BackfillTypeOK
  PROVE  /\ Window \subseteq Candidates /\ Candidates \subseteq Keys
         /\ \A k \in Candidates \ Window, j \in Window : j < k
         /\ Cardinality(Window) < BatchSize => Candidates \subseteq Window
<1> DEFINE Before(k) == {j \in Candidates : j < k}
<1>1. Window \subseteq Candidates /\ Candidates \subseteq Keys
  BY DEF Window, Candidates, Present
<1>2. \A k \in Candidates : IsFiniteSet(Before(k)) /\ Cardinality(Before(k)) \in Nat
  BY <1>1, FS_Subset, FS_CardinalityType, KeysAssumption
<1>3. ASSUME NEW k \in Candidates \ Window, NEW j \in Window, ~(j < k)
      PROVE  FALSE
  <2>1. Before(k) \subseteq Before(j)
    <3>1. Candidates \subseteq Nat /\ j \in Nat /\ k \in Nat /\ k <= j
      BY <1>1, <1>3, KeysAssumption
    <3>2. \A i \in Candidates : i < k => i < j
      BY <3>1
    <3> QED
      BY <3>2
  <2>2. Cardinality(Before(k)) <= Cardinality(Before(j))
    BY <1>1, <1>2, <2>1, FS_Subset
  <2>3. Cardinality(Before(j)) < BatchSize /\ ~(Cardinality(Before(k)) < BatchSize)
    BY DEF Window
  <2> QED
    BY <1>1, <1>2, <2>2, <2>3, BatchAssumption
<1>4. ASSUME Cardinality(Window) < BatchSize, Candidates \ Window # {}
      PROVE  FALSE
  <2>1. PICK k \in Candidates \ Window : \A j \in Candidates \ Window : k <= j
    <3>1. Candidates \ Window \subseteq Nat /\ IsFiniteSet(Candidates \ Window)
      BY <1>1, FS_Subset, KeysAssumption
    <3> QED
      BY <1>4, <3>1, Extremes
  <2>2. Before(k) \subseteq Window
    <3>1. \A j \in Candidates : j < k => j \in Window
      BY <1>1, <2>1, KeysAssumption
    <3> QED
      BY <3>1
  <2>3. IsFiniteSet(Window) /\ Cardinality(Window) \in Nat
    BY <1>1, FS_Subset, FS_CardinalityType, KeysAssumption
  <2>4. Cardinality(Before(k)) <= Cardinality(Window)
    BY <2>2, <2>3, FS_Subset
  <2>5. ~(Cardinality(Before(k)) < BatchSize)
    BY <2>1 DEF Window
  <2> QED
    BY <1>2, <1>4, <2>1, <2>3, <2>4, <2>5, BatchAssumption
<1> QED
  BY <1>1, <1>3, <1>4

-----------------------------------------------------------------------------
(* Types.                                                                  *)

LEMMA RowType ==
  ASSUME BackfillTypeOK, NEW old \in Row, NEW new \in Row
  PROVE  Stored(old, new) \in Row /\ StoredNew(new) \in Row /\ Copied(old) \in Row
  BY DEF Row, Stored, StoredNew, Mirror, MirrorNew, Copied

LEMMA PresentRow ==
  ASSUME BackfillTypeOK, NEW k \in Present
  PROVE  k \in Keys /\ table[k] \in Row
  BY DEF BackfillTypeOK, Present

LEMMA CaptureType ==
  ASSUME BackfillTypeOK, NEW p, Capture(p), p.captured = FALSE,
         p \in [exists : BOOLEAN, body : Checksums \cup {""}, guard : GuardStates,
                captured : BOOLEAN, last : Keys \cup {0}, end : Keys \cup {0},
                complete : BOOLEAN],
         guard' \in BOOLEAN, UNCHANGED <<spec, table, ran, said, touched, journal, body, window, bounds>>
  PROVE  BackfillTypeOK'
<1>1. EndCursor \in Keys \cup {0}
  BY HighestIs DEF EndCursor, Present
<1> QED
  BY <1>1 DEF BackfillTypeOK, Capture, Goto, bounds, Present

LEMMA WriteType ==
  ASSUME BackfillTypeOK, NEW selected, selected \subseteq Present, body \in Checksums,
         Write(selected), window' \in {window, {}}
  PROVE  BackfillTypeOK'
<1>1. table' \in [Keys -> Row \cup {NoRow}]
  <2>1. \A k \in selected : Stored(table[k], Copied(table[k])) \in Row
    BY RowType, PresentRow
  <2> QED
    BY <2>1 DEF Write, BackfillTypeOK
<1>2. ran' \in [Keys -> Seq(Checksums)]
  <2>1. \A k \in Keys : ran[k] \in Seq(Checksums)
    BY DEF BackfillTypeOK
  <2>2. \A k \in Keys : Append(ran[k], body) \in Seq(Checksums)
    BY <2>1
  <2> QED
    BY <2>1, <2>2 DEF Write
<1>3. Highest(selected) \in Keys \cup {0}
  BY HighestIs DEF Present
<1> QED
  BY <1>1, <1>2, <1>3 DEF Write, BackfillTypeOK, Goto, bounds

LEMMA RunnerType ==
  ASSUME BackfillTypeOK, Running, RunnerStep \/ Crash
  PROVE  BackfillTypeOK'
<1>1. ASSUME NEW b \in Checksums, Begin(b)
      PROVE  BackfillTypeOK'
  <2>1. Resume(progress) \in {"finish", "cleanup", "append", "guard", "capture", "walk"}
    BY DEF BackfillTypeOK, Resume
  <2> QED
    BY <1>1, <2>1 DEF BackfillTypeOK, Begin, Goto, rows, bounds
<1>2. CASE Initialize
  <2>1. guard' \in BOOLEAN
    BY <1>2 DEF Initialize, BackfillTypeOK, StepSpec
  <2> QED
    BY <1>2, <2>1, CaptureType DEF Initialize, NoProgress, BackfillTypeOK, GuardStates
<1>3. CASE InitializeObligation
  BY <1>3 DEF InitializeObligation, BackfillTypeOK, NoProgress, GuardStates, Goto, rows, bounds
<1>4. CASE CreateGuard
  BY <1>4 DEF CreateGuard, BackfillTypeOK, Goto, rows, bounds
<1>5. CASE RecordGuard
  BY <1>5 DEF RecordGuard, BackfillTypeOK, Goto, rows, bounds, GuardStates
<1>6. CASE InitializeCohort
  BY <1>6, CaptureType DEF InitializeCohort, BackfillTypeOK, Running
<1>7. CASE RunBatch
  BY <1>7, WriteType, WindowIs DEF RunBatch, Candidates, Running
<1>8. CASE SelectWindow
  <2>1. window' \subseteq Keys /\ pc' = "update"
    BY <1>8, WindowIs DEF SelectWindow, Goto
  <2> QED
    BY <1>8, <2>1 DEF SelectWindow, BackfillTypeOK, rows, bounds
<1>9. CASE UpdateWindow
  BY <1>9, WriteType DEF UpdateWindow, Running
<1>10. CASE BatchFails
  BY <1>10 DEF BatchFails, BackfillTypeOK, Goto, rows, bounds
<1>11. CASE FinishBackfill
  BY <1>11 DEF FinishBackfill, Journaled, BackfillTypeOK, Goto, rows, bounds, GuardStates, Running
<1>12. CASE MarkDurableComplete
  BY <1>12 DEF MarkDurableComplete, BackfillTypeOK, Goto, rows, bounds, GuardStates
<1>13. CASE DropGuard
  BY <1>13 DEF DropGuard, BackfillTypeOK, Goto, rows, bounds
<1>14. CASE RecordCleaned
  BY <1>14 DEF RecordCleaned, BackfillTypeOK, Goto, rows, bounds, GuardStates
<1>15. CASE AppendCompletedJournal
  BY <1>15 DEF AppendCompletedJournal, Journaled, BackfillTypeOK, Goto, rows, bounds
<1>16. CASE Crash
  <2>1. crashes' \in 0..MaxCrashes
    <3>1. crashes \in 0..MaxCrashes
      BY DEF BackfillTypeOK
    <3> QED
      BY <1>16, <3>1, BoundsAssumption DEF Crash
  <2> QED
    BY <1>16, <2>1 DEF Crash, BackfillTypeOK, Goto, rows, bounds
<1> QED
  BY <1>1, <1>2, <1>3, <1>4, <1>5, <1>6, <1>7, <1>8, <1>9, <1>10, <1>11, <1>12, <1>13,
     <1>14, <1>15, <1>16 DEF RunnerStep

LEMMA RollBackType ==
  ASSUME BackfillTypeOK, RollBack
  PROVE  BackfillTypeOK'
<1>1. table' \in [Keys -> Row \cup {NoRow}]
  <2>1. \A k \in Present : [table[k] EXCEPT !.to = Null] \in Row
    BY PresentRow DEF Row, Cells
  <2> QED
    BY <2>1 DEF RollBack
<1>2. ran' \in [Keys -> Seq(Checksums)]
  <2>1. <<>> \in Seq(Checksums)
    OBVIOUS
  <2> QED
    BY <2>1 DEF RollBack
<1>3. said' \in [Keys -> Cells]
  BY DEF RollBack, Cells
<1>4. rollbacks' \in 0..MaxRollbacks
  <2>1. rollbacks \in 0..MaxRollbacks
    BY DEF BackfillTypeOK
  <2> QED
    BY <2>1, BoundsAssumption DEF RollBack
<1> QED
  BY <1>1, <1>2, <1>3, <1>4 DEF RollBack, BackfillTypeOK, Present

\* A function updated at a point keeps its type.
LEMMA Updated ==
  ASSUME NEW S, NEW T, NEW f \in [S -> T], NEW x, NEW y \in T
  PROVE  [f EXCEPT ![x] = y] \in [S -> T]
  OBVIOUS

LEMMA ApplicationType ==
  ASSUME BackfillTypeOK, Application
  PROVE  BackfillTypeOK'
<1> DEFINE Rest == /\ table' \in [Keys -> Row \cup {NoRow}]
                   /\ ran' \in [Keys -> Seq(Checksums)]
                   /\ said' \in [Keys -> Cells]
                   /\ cohort' \subseteq Keys /\ touched' \subseteq Keys
<1>0. <<>> \in Seq(Checksums) /\ Null \in Cells
  BY DEF Cells
<1>1. AppWrites /\ Rest => BackfillTypeOK'
  <2>1. AppWrites => writes' \in 0..MaxWrites
    <3>1. writes \in 0..MaxWrites
      BY DEF BackfillTypeOK
    <3> QED
      BY <3>1, BoundsAssumption DEF AppWrites
  <2> QED
    BY <2>1 DEF AppWrites, BackfillTypeOK
<1>2. ASSUME NEW k \in Keys, NEW new \in Row, Insert(k, new)
      PROVE  Rest
  <2>1. StoredNew(new) \in Row /\ StoredNew(new).to \in Cells /\ new.to \in Cells
    BY RowType DEF Row
  <2>2. table' \in [Keys -> Row \cup {NoRow}]
    BY <1>2, <2>1 DEF Insert, BackfillTypeOK
  <2>3. ran' \in [Keys -> Seq(Checksums)]
    BY <1>2, <1>0, Updated DEF Insert, BackfillTypeOK
  <2>4. said' \in [Keys -> Cells]
    BY <1>2, <2>1 DEF Insert, BackfillTypeOK
  <2> QED
    BY <1>2, <2>2, <2>3, <2>4 DEF Insert, BackfillTypeOK
<1>3. ASSUME NEW k \in Keys, NEW new \in Row, Update(k, new)
      PROVE  Rest
  <2>1. Stored(table[k], new) \in Row /\ new.to \in Cells /\ new.from \in Cells
    BY <1>3, RowType, PresentRow DEF Row, Update
  <2>2. table' \in [Keys -> Row \cup {NoRow}] /\ ran' = ran /\ touched' = touched
    BY <1>3, <2>1 DEF Update, BackfillTypeOK
  <2>3. said' \in [Keys -> Cells]
    BY <1>3, <2>1 DEF Update, BackfillTypeOK
  <2>4. cohort' \subseteq Keys
    BY <1>3 DEF Update, BackfillTypeOK
  <2> QED
    BY <2>2, <2>3, <2>4 DEF BackfillTypeOK
<1>4. ASSUME NEW k \in Keys, Delete(k)
      PROVE  Rest
  <2>1. table' \in [Keys -> Row \cup {NoRow}]
    BY <1>4 DEF Delete, BackfillTypeOK
  <2>2. ran' \in [Keys -> Seq(Checksums)]
    BY <1>4, <1>0, Updated DEF Delete, BackfillTypeOK
  <2>3. said' \in [Keys -> Cells]
    BY <1>4, <1>0 DEF Delete, BackfillTypeOK
  <2> QED
    BY <1>4, <2>1, <2>2, <2>3 DEF Delete, BackfillTypeOK
<1>5. ASSUME NEW k \in Keys, Touch(k)
      PROVE  Rest
  <2>1. Stored(table[k], table[k]) \in Row
    BY <1>5, RowType, PresentRow DEF Touch
  <2> QED
    BY <1>5, <2>1 DEF Touch, BackfillTypeOK
<1>6. ASSUME NEW k \in Keys, NEW to \in Keys, MoveKey(k, to)
      PROVE  Rest
  <2>1. table' \in [Keys -> Row \cup {NoRow}]
    <3>1. [table EXCEPT ![to] = table[k]] \in [Keys -> Row \cup {NoRow}]
      BY DEF BackfillTypeOK
    <3> QED
      BY <1>6, <3>1 DEF MoveKey
  <2>2. ran' \in [Keys -> Seq(Checksums)]
    <3>1. [ran EXCEPT ![to] = ran[k]] \in [Keys -> Seq(Checksums)]
      BY Updated DEF BackfillTypeOK
    <3> QED
      BY <1>0, <1>6, <3>1, Updated DEF MoveKey
  <2>3. said' \in [Keys -> Cells]
    BY <1>6 DEF MoveKey, BackfillTypeOK, Cells
  <2>4. cohort' \subseteq Keys /\ touched' \subseteq Keys
    BY <1>6 DEF MoveKey, BackfillTypeOK
  <2> QED
    BY <2>1, <2>2, <2>3, <2>4
<1> HIDE DEF Rest
<1> QED
  BY <1>1, <1>2, <1>3, <1>4, <1>5, <1>6 DEF Application, Insert, Update, Delete, Touch, MoveKey

-----------------------------------------------------------------------------
(* The runner, its progress row and the journal.                           *)

LEMMA RunnerControl ==
  ASSUME BackfillTypeOK, Running, Recorded, RunnerStep \/ Crash
  PROVE  Running' /\ Recorded'
<1> USE DEF Running, Recorded, Goto, bounds, rows, SetBased
<1>1. ASSUME NEW b \in Checksums, Begin(b)
      PROVE  Running' /\ Recorded'
  BY <1>1 DEF BackfillTypeOK, Begin, Resume, BodyAgrees, StepSpec
<1>0. ~progress.exists => ~progress.complete /\ journal.kind = "none" /\ ~guard
  <2>1. ~NoProgress.complete /\ NoProgress.guard = "none"
    BY DEF NoProgress
  <2> QED
    BY <2>1
<1>2. CASE Initialize
  <2>1. /\ progress'.exists /\ progress'.body = body /\ ~progress'.complete
        /\ progress'.captured /\ pc' \in {"finish", "walk"}
        /\ progress'.guard = IF spec.guarded THEN "installed" ELSE "none"
    BY <1>2 DEF Initialize, Capture, NoProgress
  <2> QED
    BY <1>0, <1>2, <2>1 DEF Initialize
<1>3. CASE InitializeObligation
  <2>1. /\ progress'.exists /\ progress'.body = body /\ ~progress'.complete
        /\ ~progress'.captured
        /\ progress'.guard = IF spec.guarded THEN "planned" ELSE "none"
    BY <1>3 DEF InitializeObligation, NoProgress
  <2> QED
    BY <1>0, <1>3, <2>1 DEF InitializeObligation
<1>4. CASE CreateGuard
  BY <1>4 DEF BackfillTypeOK, CreateGuard
<1>5. CASE RecordGuard
  BY <1>5 DEF BackfillTypeOK, RecordGuard
<1>6. CASE InitializeCohort
  BY <1>6 DEF BackfillTypeOK, InitializeCohort, Capture
<1>7. CASE RunBatch
  BY <1>7 DEF BackfillTypeOK, RunBatch, Write
<1>8. CASE SelectWindow
  BY <1>8 DEF SelectWindow
<1>9. CASE UpdateWindow
  BY <1>9 DEF BackfillTypeOK, UpdateWindow, Write
<1>10. CASE BatchFails
  BY <1>10 DEF BatchFails
<1>11. CASE FinishBackfill
  BY <1>11 DEF BackfillTypeOK, FinishBackfill, Journaled, GuardStates
<1>12. CASE MarkDurableComplete
  BY <1>12 DEF BackfillTypeOK, MarkDurableComplete, GuardStates
<1>13. CASE DropGuard
  BY <1>13 DEF DropGuard
<1>14. CASE RecordCleaned
  BY <1>14 DEF BackfillTypeOK, RecordCleaned
<1>15. CASE AppendCompletedJournal
  BY <1>15 DEF BackfillTypeOK, AppendCompletedJournal, Journaled, GuardStates
<1>16. CASE Crash
  BY <1>16 DEF Crash
<1> QED
  BY <1>1, <1>2, <1>3, <1>4, <1>5, <1>6, <1>7, <1>8, <1>9, <1>10, <1>11, <1>12, <1>13,
     <1>14, <1>15, <1>16 DEF RunnerStep

\* Neither a rollback nor the application touches the progress row or the trigger.
LEMMA OutsideControl ==
  ASSUME BackfillTypeOK, Running, Recorded, RollBack \/ Application
  PROVE  Running' /\ Recorded'
<1>1. CASE RollBack
  BY <1>1 DEF BackfillTypeOK, RollBack, Running, Recorded, SetBased
<1>2. CASE Application
  <2>1. AppWrites
    BY <1>2 DEF Application, Insert, Update, Delete, Touch, MoveKey
  <2> QED
    BY <2>1 DEF AppWrites, Running, Recorded, SetBased
<1> QED
  BY <1>1, <1>2

\* The trigger is there while a cohort is being walked, and a walk has its progress row.
LEMMA Guarded ==
  ASSUME Control
  PROVE  GuardHeld /\ (progress.captured => progress.exists)
<1>1. progress.captured => progress.exists
  <2>1. ~NoProgress.captured
    BY DEF NoProgress
  <2> QED
    BY <2>1 DEF Control, Recorded
<1>2. progress.guard \in GuardStates
  BY DEF Control, BackfillTypeOK
<1> QED
  BY <1>1, <1>2 DEF Control, Recorded, GuardHeld, GuardStates

-----------------------------------------------------------------------------
(* The walk.                                                               *)

\* Before the cohort is captured no row has been transformed.
LEMMA Untouched ==
  ASSUME BackfillTypeOK, Recorded, Walked, ~progress.captured
  PROVE  \A k \in Keys : ran[k] = <<>>
<1>1. ~progress.complete /\ progress.last = 0
  BY DEF Recorded, Walked
<1>2. \A k \in Keys : ~(k <= 0)
  BY KeysAssumption
<1> QED
  BY <1>1, <1>2 DEF Walked

\* A step of the runner that writes no row, moves no cursor and enters no statement.
LEMMA WalkedFrame ==
  ASSUME Walked, UNCHANGED <<spec, rows, rollbacks>>,
         progress'.captured = progress.captured, progress'.complete = progress.complete,
         progress'.last = progress.last, progress'.end = progress.end,
         progress'.body = progress.body \/ \A k \in Keys : ran[k] = <<>>,
         pc' # "update",
         pc' = "finish" /\ ~progress.complete => cohort = {}
  PROVE  Walked'
<1>1. Candidates' = Candidates
  BY DEF Candidates, Present, Meets, rows
<1> QED
  BY <1>1 DEF Walked, rows

\* A walk with nothing before its end cursor has an empty cohort.
LEMMA NothingToWalk ==
  ASSUME BackfillTypeOK, Walked, progress.captured, ~progress.complete, progress.end = 0
  PROVE  cohort = {}
<1>1. \A k \in Candidates : k \in Nat \ {0} /\ k <= 0
  BY KeysAssumption DEF Candidates, Present
<1>2. Candidates = {}
  BY <1>1
<1> QED
  BY <1>2 DEF Walked

LEMMA CaptureWalked ==
  ASSUME BackfillTypeOK, Recorded, Walked, ~progress.captured,
         NEW p, Capture(p), p.last = 0, ~p.complete,
         UNCHANGED <<spec, table, ran>>,
         progress' = [p EXCEPT !.captured = TRUE, !.end = EndCursor],
         progress'.captured, progress'.last = 0, progress'.end = EndCursor, ~progress'.complete
  PROVE  Walked'
<1> DEFINE S == {k \in Present : Meets(table[k])}
<1>1. S \subseteq Keys /\ cohort' = S /\ EndCursor = Highest(S)
  BY DEF Present, Capture, EndCursor
<1>2. \A k \in S : 0 < k /\ k <= EndCursor
  BY <1>1, HighestIs, KeysAssumption
<1>3. Candidates' = S
  BY <1>1, <1>2 DEF Candidates, Present, Meets
<1>4. EndCursor = 0 => S = {}
  BY <1>1, HighestIs, KeysAssumption
<1>5. \A k \in Keys : ran'[k] = <<>>
  BY Untouched
<1>6. pc' = IF EndCursor = 0 THEN "finish" ELSE "walk"
  BY DEF Capture, Goto
<1> HIDE DEF S
<1> QED
  BY <1>1, <1>3, <1>4, <1>5, <1>6 DEF Walked

\* The window of a walk is ahead of its cursor.
LEMMA WindowAhead ==
  ASSUME BackfillTypeOK, Walked, progress.captured, ~progress.complete
  PROVE  Ahead(Window) /\ Window \subseteq Present
<1>1. cohort \subseteq Candidates
  BY DEF Walked
<1>2. \A k \in Candidates : progress.last < k /\ k \in Present
  BY DEF Candidates
<1> QED
  BY <1>1, <1>2, WindowIs DEF Ahead

LEMMA WriteWalked ==
  ASSUME BackfillTypeOK, Walked, progress.captured, ~progress.complete,
         progress.body = body, NEW selected, selected \subseteq Present, Ahead(selected),
         Write(selected)
  PROVE  Walked'
<1>0. selected \subseteq Keys /\ Keys \subseteq Nat
  BY KeysAssumption DEF Present
<1>1. progress.last \in Nat /\ Highest(selected) \in Nat
  <2>1. progress.last \in Keys \cup {0}
    BY DEF BackfillTypeOK
  <2>2. Highest(selected) \in Keys \cup {0}
    BY <1>0, HighestIs
  <2>3. \A k \in Keys \cup {0} : k \in Nat
    BY <1>0
  <2> QED
    BY <2>1, <2>2, <2>3
<1>2. /\ progress'.captured /\ ~progress'.complete /\ progress'.body = body
      /\ progress'.end = progress.end
      /\ progress'.last = IF selected = {} THEN progress.last ELSE Highest(selected)
  BY DEF Write, BackfillTypeOK
<1>3. /\ progress'.last \in Nat
      /\ progress.last <= progress'.last
      /\ \A k \in selected : k <= progress'.last
      /\ \A k \in cohort \ selected : progress'.last < k
  <2>1. CASE selected = {}
    <3>1. \A k \in cohort : progress.last < k
      BY DEF Walked, Candidates
    <3> QED
      BY <1>0, <1>1, <1>2, <2>1, <3>1
  <2>2. CASE selected # {}
    <3>1. Highest(selected) \in selected /\ \A k \in selected : k <= Highest(selected)
      BY <1>0, <2>2, HighestIs
    <3>2. progress.last < Highest(selected)
      BY <3>1 DEF Ahead
    <3> QED
      BY <1>0, <1>1, <1>2, <2>2, <3>1, <3>2 DEF Ahead
  <2> QED
    BY <2>1, <2>2
<1>4. \A k \in Keys : ran'[k] = IF k \in selected THEN <<body>> ELSE ran[k]
  <2>1. \A k \in selected : ran[k] = <<>>
    <3>1. \A k \in selected : progress.last < k
      BY DEF Ahead
    <3>2. \A k \in Keys : ran[k] # <<>> => k <= progress.last
      BY DEF Walked
    <3> QED
      BY <1>0, <1>1, <3>1, <3>2
  <2>2. Append(<<>>, body) = <<body>>
    OBVIOUS
  <2> QED
    BY <2>1, <2>2 DEF Write
<1>5. (cohort \ selected) \subseteq Candidates'
  <2>1. ASSUME NEW k \in cohort \ selected
        PROVE  k \in Candidates'
    <3>1. k \in Present /\ Meets(table[k]) /\ k <= progress.end
      BY DEF Walked, Candidates
    <3>2. k \in Keys /\ table'[k] = table[k] /\ spec' = spec
      BY <3>1 DEF Write, Present
    <3> QED
      BY <1>2, <1>3, <3>1, <3>2 DEF Candidates, Present, Meets
  <2> QED
    BY <2>1
<1>6. pc' = "finish" => cohort' = {}
  BY DEF Write, Goto, Ahead
<1>7. cohort' = cohort \ selected /\ pc' \in {"finish", "walk"}
  BY DEF Write, Goto
<1>8. \A k \in Keys : ran'[k] # <<>> => k <= progress'.last
  <2>1. ASSUME NEW k \in Keys, ran'[k] # <<>>
        PROVE  k <= progress'.last
    <3>1. CASE k \in selected
      BY <1>3, <3>1
    <3>2. CASE k \notin selected
      <4>1. k <= progress.last
        BY <1>4, <2>1, <3>2 DEF Walked
      <4> QED
        BY <1>0, <1>1, <1>3, <4>1
    <3> QED
      BY <3>1, <3>2
  <2> QED
    BY <2>1
<1> QED
  BY <1>2, <1>4, <1>5, <1>6, <1>7, <1>8 DEF Walked

LEMMA RunnerWalked ==
  ASSUME Control, Walked, RunnerStep \/ Crash
  PROVE  Walked'
<1> USE DEF Control, Goto, bounds
<1>1. ASSUME NEW b \in Checksums, Begin(b)
      PROVE  Walked'
  <2>1. pc' # "update" /\ UNCHANGED <<spec, rows, progress, rollbacks>>
    BY <1>1 DEF Begin, Resume, BackfillTypeOK
  <2>2. ASSUME pc' = "finish", ~progress.complete
        PROVE  cohort = {}
    <3>1. progress.captured /\ progress.end = 0
      BY <1>1, <2>2 DEF Begin, Resume, BackfillTypeOK
    <3> QED
      BY <2>2, <3>1, NothingToWalk
  <2> QED
    BY <2>1, <2>2, WalkedFrame
<1>2. CASE Initialize
  <2>1. progress = NoProgress
    BY <1>2 DEF Initialize, Running, Recorded
  <2>2. ~progress.captured
    BY <2>1 DEF NoProgress
  <2> DEFINE p == [NoProgress EXCEPT !.exists = TRUE, !.body = body,
                                     !.guard = IF spec.guarded THEN "installed" ELSE "none"]
  <2>3. Capture(p) /\ UNCHANGED <<spec, table, ran>>
    BY <1>2 DEF Initialize
  <2>4. progress' = [p EXCEPT !.captured = TRUE, !.end = EndCursor]
    BY <2>3 DEF Capture
  <2>5. /\ p.last = 0 /\ ~p.complete
        /\ progress'.captured /\ progress'.last = 0 /\ progress'.end = EndCursor
        /\ ~progress'.complete
    BY <2>4 DEF NoProgress
  <2> HIDE DEF p
  <2> QED
    BY <2>2, <2>3, <2>4, <2>5, CaptureWalked
<1>3. CASE InitializeObligation
  <2>1. progress = NoProgress
    BY <1>3 DEF InitializeObligation, Running, Recorded
  <2>2. \A k \in Keys : ran[k] = <<>>
    BY <2>1, Untouched DEF NoProgress
  <2>3. /\ progress'.captured = progress.captured /\ progress'.complete = progress.complete
        /\ progress'.last = progress.last /\ progress'.end = progress.end
    BY <1>3, <2>1 DEF InitializeObligation, NoProgress
  <2> QED
    BY <1>3, <2>2, <2>3, WalkedFrame DEF InitializeObligation
<1>4. CASE CreateGuard
  BY <1>4, WalkedFrame DEF CreateGuard
<1>5. CASE RecordGuard
  BY <1>5, WalkedFrame DEF RecordGuard, BackfillTypeOK
<1>6. CASE InitializeCohort
  <2>1. ~progress.captured /\ ~progress.complete /\ progress.last = 0
    BY <1>6 DEF InitializeCohort, Running, Recorded, Walked
  <2> QED
    BY <1>6, <2>1, CaptureWalked DEF InitializeCohort, Capture, BackfillTypeOK
<1>7. CASE RunBatch
  BY <1>7, WindowAhead, WriteWalked DEF RunBatch, Running
<1>8. CASE SelectWindow
  <2>1. Ahead(Window)
    BY <1>8, WindowAhead DEF SelectWindow, Running
  <2>2. Ahead(window)' /\ Candidates' = Candidates
    BY <1>8, <2>1 DEF SelectWindow, Ahead, Candidates, Present, Meets, rows
  <2> QED
    BY <1>8, <2>2 DEF SelectWindow, Walked, rows
<1>9. CASE UpdateWindow
  BY <1>9, WriteWalked DEF UpdateWindow, Running, Walked
<1>10. CASE BatchFails
  BY <1>10, WalkedFrame DEF BatchFails
<1>11. CASE FinishBackfill \/ MarkDurableComplete
  <2>1. /\ progress'.captured = progress.captured /\ progress'.complete
        /\ progress'.last = progress.last /\ progress'.body = progress.body
        /\ pc' \notin {"update", "finish"} /\ pc = "finish"
        /\ UNCHANGED <<spec, rows, rollbacks>>
    BY <1>11 DEF FinishBackfill, MarkDurableComplete, BackfillTypeOK
  <2>2. progress.captured
    BY <2>1 DEF Running
  <2> QED
    BY <2>1, <2>2 DEF Walked, rows
<1>13. CASE DropGuard
  BY <1>13, WalkedFrame DEF DropGuard
<1>14. CASE RecordCleaned
  BY <1>14, WalkedFrame DEF RecordCleaned, BackfillTypeOK
<1>15. CASE AppendCompletedJournal
  BY <1>15, WalkedFrame DEF AppendCompletedJournal
<1>16. CASE Crash
  BY <1>16, WalkedFrame DEF Crash
<1> QED
  BY <1>1, <1>2, <1>3, <1>4, <1>5, <1>6, <1>7, <1>8, <1>9, <1>10, <1>11, <1>13,
     <1>14, <1>15, <1>16 DEF RunnerStep

\* A statement of the application that keeps keys in their place.
LEMMA StatementWalked ==
  ASSUME Walked, AppWrites, cohort' \subseteq cohort,
         \A k \in Keys : ran'[k] \in {ran[k], <<>>},
         \A k \in cohort' : k \in Candidates => k \in Candidates'
  PROVE  Walked'
<1>1. pc = "update" => Ahead(window)'
  BY DEF Walked, Ahead, AppWrites
<1> QED
  BY <1>1 DEF Walked, AppWrites

\* The guard, or the promise it stands for, keeps keys in their place during a walk.
LEMMA MoveKeyWalked ==
  ASSUME Control, Walked, NEW k \in Keys, NEW to \in Keys, MoveKey(k, to)
  PROVE  Walked'
<1> USE DEF Control
<1>1. ~progress.captured \/ progress.complete
  <2>1. spec.guarded \/ ~progress.exists
    BY DEF MoveKey
  <2> QED
    BY <2>1, Guarded DEF MoveKey, GuardHeld
<1>2. \A j \in Keys : ran'[j] \in {ran[i] : i \in Keys} \cup {<<>>}
  BY DEF MoveKey, BackfillTypeOK
<1>3. UNCHANGED <<progress, pc, rollbacks>>
  BY DEF MoveKey, AppWrites
<1>4. cohort = {} => cohort' = {}
  BY DEF MoveKey
<1>5. pc # "update" /\ (progress.captured => progress.complete)
  BY <1>1 DEF Running
<1>6. CASE ~progress.captured
  <2>1. \A j \in Keys : ran'[j] = <<>>
    BY <1>2, <1>6, Untouched
  <2> QED
    BY <1>3, <1>4, <1>5, <1>6, <2>1 DEF Walked
<1>7. CASE progress.captured
  BY <1>2, <1>3, <1>4, <1>5, <1>7 DEF Walked
<1> QED
  BY <1>6, <1>7

LEMMA OutsideWalked ==
  ASSUME Control, Walked, RollBack \/ Application
  PROVE  Walked'
<1> USE DEF Control
<1>1. CASE RollBack
  <2>1. /\ progress.complete /\ progress.captured /\ UNCHANGED <<progress, pc>>
        /\ pc = "idle"
    BY <1>1 DEF RollBack, Recorded
  <2>2. rollbacks' # 0
    <3>1. rollbacks \in 0..MaxRollbacks
      BY DEF BackfillTypeOK
    <3> QED
      BY <1>1, <3>1, BoundsAssumption DEF RollBack
  <2>3. \A k \in Keys : ran'[k] = <<>>
    BY <1>1 DEF RollBack
  <2> QED
    BY <2>1, <2>2, <2>3 DEF Walked
<1>2. ASSUME NEW k \in Keys, NEW new \in Row, Insert(k, new)
      PROVE  Walked'
  <2>1. \A j \in Present : j # k /\ table'[j] = table[j] /\ j \in Keys
    BY <1>2 DEF Insert, Present, BackfillTypeOK
  <2>2. \A j \in Candidates : j \in Candidates'
    BY <1>2, <2>1 DEF Insert, AppWrites, Candidates, Present, Meets
  <2>3. \A j \in Keys : ran'[j] \in {ran[j], <<>>}
    BY <1>2 DEF Insert, BackfillTypeOK
  <2> QED
    BY <1>2, <2>2, <2>3, StatementWalked DEF Insert
<1>3. ASSUME NEW k \in Keys, NEW new \in Row, Update(k, new)
      PROVE  Walked'
  <2>1. /\ table' \in [Keys -> Row \cup {NoRow}] /\ table'[k] \in Row
        /\ \A j \in Keys \ {k} : table'[j] = table[j]
    BY <1>3, RowType, PresentRow DEF Update, BackfillTypeOK
  <2>2. k \in Present' /\ spec' = spec /\ progress' = progress
    BY <1>3, <2>1, RowsAssumption DEF Present, Row, Cells, Update, AppWrites
  <2>3. cohort' \subseteq cohort /\ (spec.filtered /\ table'[k].to # table[k].to => k \notin cohort')
    BY <1>3 DEF Update
  <2>4. ASSUME NEW j \in cohort', j \in Candidates
        PROVE  j \in Candidates'
    <3>1. CASE j = k
      BY <2>2, <2>3, <2>4, <3>1 DEF Candidates, Meets
    <3>2. CASE j # k
      BY <2>1, <2>2, <2>4, <3>2 DEF Candidates, Meets, Present
    <3> QED
      BY <3>1, <3>2
  <2> QED
    BY <1>3, <2>3, <2>4, StatementWalked DEF Update
<1>4. ASSUME NEW k \in Keys, Delete(k)
      PROVE  Walked'
  <2>1. \A j \in Keys \ {k} : table'[j] = table[j]
    BY <1>4 DEF Delete, BackfillTypeOK
  <2>2. \A j \in cohort' : j \in Candidates => j \in Candidates'
    BY <1>4, <2>1 DEF Delete, AppWrites, Candidates, Present, Meets
  <2>3. \A j \in Keys : ran'[j] \in {ran[j], <<>>}
    BY <1>4 DEF Delete, BackfillTypeOK
  <2> QED
    BY <1>4, <2>2, <2>3, StatementWalked DEF Delete
<1>5. ASSUME NEW k \in Keys, Touch(k)
      PROVE  Walked'
  <2>1. /\ table'[k] \in Row /\ table'[k].to = table[k].to
        /\ \A j \in Keys \ {k} : table'[j] = table[j]
    <3>1. Stored(table[k], table[k]) \in Row /\ Stored(table[k], table[k]).to = table[k].to
      BY <1>5, RowType, PresentRow DEF Touch, Stored, Mirror, Row
    <3> QED
      BY <1>5, <3>1 DEF Touch, BackfillTypeOK
  <2>2. table'[k] # NoRow
    BY <2>1, RowsAssumption DEF Row, Cells
  <2>3. \A j \in Candidates : j \in Candidates'
    BY <1>5, <2>1, <2>2 DEF Touch, AppWrites, Candidates, Present, Meets
  <2> QED
    BY <1>5, <2>3, StatementWalked DEF Touch
<1>6. ASSUME NEW k \in Keys, NEW to \in Keys, MoveKey(k, to)
      PROVE  Walked'
  BY <1>6, MoveKeyWalked
<1>7. CASE Application
  BY <1>2, <1>3, <1>4, <1>5, <1>6, <1>7 DEF Application
<1> QED
  BY <1>1, <1>7

-----------------------------------------------------------------------------
(* The two columns of a rename, and what the application wrote.            *)

\* The dual-write trigger leaves the two columns of a row equal.
LEMMA StoredEqual ==
  ASSUME spec.rename, NEW old \in Row, NEW new \in Row
  PROVE  /\ Stored(old, new).from = Stored(old, new).to
         /\ StoredNew(new).from = StoredNew(new).to
         /\ new.to # old.to => Stored(old, new).to = new.to
         /\ new.to = old.to /\ new.from # old.from => Stored(old, new).to = new.from
         /\ new.to = old.to /\ new.from = old.from => Stored(old, new).to = new.to
         /\ Stored(old, Copied(old)).to = old.from
  BY DEF Stored, StoredNew, Mirror, MirrorNew, Copied, Row

Paired == Twins /\ WritesSurvive

\* The steps WritesSurvive speaks of.
Watched == spec.filtered /\ (spec.rename \/ spec.perRow \/ spec.backend # "postgres")

\* A step that writes no row and reads no end cursor.
LEMMA PairedFrame ==
  ASSUME Paired, UNCHANGED <<spec, rows, rollbacks>>, progress'.captured = progress.captured
  PROVE  Paired'
  BY DEF Paired, Twins, WritesSurvive, Holds, Present, rows

LEMMA CapturePaired ==
  ASSUME Paired, NEW p, Capture(p), UNCHANGED <<spec, table, said, touched, rollbacks>>
  PROVE  Paired'
<1>1. \A k \in Present : table[k].to = Null => k \in cohort'
  BY DEF Capture, Meets
<1>2. Twins'
  BY <1>1 DEF Paired, Twins, Present
<1>3. WritesSurvive'
  BY DEF Paired, WritesSurvive, Holds, Present
<1> QED
  BY <1>2, <1>3 DEF Paired

LEMMA WritePaired ==
  ASSUME BackfillTypeOK, Paired, NEW selected, selected \subseteq Present,
         ~spec.rename /\ ~SetBased => selected \subseteq Candidates,
         Write(selected)
  PROVE  Paired'
<1>1. /\ \A k \in selected : k \in Present /\ table'[k] = Stored(table[k], Copied(table[k]))
      /\ \A k \in Present' \ selected : k \in Present /\ table'[k] = table[k]
      /\ cohort' = cohort \ selected /\ progress'.captured = progress.captured
      /\ UNCHANGED <<spec, said, touched, rollbacks>>
  BY DEF Write, Present, bounds, BackfillTypeOK
<1>2. ASSUME NEW k \in selected, spec.rename
      PROVE  table'[k].from = table'[k].to /\ table'[k].to = table[k].from
  <2>1. table[k] \in Row /\ Copied(table[k]) \in Row
    BY <1>1, PresentRow, RowType
  <2> QED
    BY <1>1, <1>2, <2>1, StoredEqual
<1>3. Twins'
  BY <1>1, <1>2 DEF Paired, Twins
<1>4. ASSUME NEW k \in selected, k \notin touched, Watched
      PROVE  Holds(k)'
  <2>1. Holds(k) /\ table[k] \in Row
    BY <1>1, <1>4, PresentRow DEF Paired, WritesSurvive, Watched
  <2>2. CASE spec.rename
    <3>1. table'[k].to = table[k].from /\ table'[k].from = table[k].from
      BY <1>2, <2>2
    <3>2. table[k].from = table[k].to \/ table[k].to = Null
      BY <1>1, <2>2 DEF Paired, Twins
    <3> QED
      BY <1>1, <2>1, <2>2, <3>1, <3>2 DEF Holds
  <2>3. CASE ~spec.rename
    <3>1. table[k].to = Null
      BY <1>4, <2>3 DEF SetBased, Candidates, Meets, Watched
    <3>2. said[k] = Null
      BY <2>1, <2>3, <3>1 DEF Holds
    <3> QED
      BY <1>1, <3>2 DEF Holds
  <2> QED
    BY <2>2, <2>3
<1>5. WritesSurvive'
  BY <1>1, <1>4 DEF Paired, WritesSurvive, Holds, Watched
<1> QED
  BY <1>3, <1>5 DEF Paired

LEMMA RunnerPaired ==
  ASSUME Control, Walked, Paired, RunnerStep \/ Crash
  PROVE  Paired'
<1> USE DEF Control, bounds
<1>1. ASSUME NEW b \in Checksums, Begin(b)
      PROVE  Paired'
  BY <1>1, PairedFrame DEF Begin
<1>2. CASE Initialize
  BY <1>2, CapturePaired DEF Initialize
<1>3. CASE InitializeObligation
  <2>1. progress = NoProgress
    BY <1>3 DEF InitializeObligation, Running, Recorded
  <2>2. progress'.captured = progress.captured
    BY <1>3, <2>1 DEF InitializeObligation, NoProgress
  <2> QED
    BY <1>3, <2>2, PairedFrame DEF InitializeObligation
<1>4. CASE CreateGuard
  BY <1>4, PairedFrame DEF CreateGuard
<1>5. CASE RecordGuard
  BY <1>5, PairedFrame DEF RecordGuard, BackfillTypeOK
<1>6. CASE InitializeCohort
  BY <1>6, CapturePaired DEF InitializeCohort
<1>7. CASE RunBatch
  BY <1>7, WindowIs, WindowAhead, WritePaired DEF RunBatch, Running
<1>8. CASE SelectWindow
  BY <1>8, PairedFrame DEF SelectWindow
<1>9. CASE UpdateWindow
  BY <1>9, WritePaired DEF UpdateWindow, Running
<1>10. CASE BatchFails
  BY <1>10, PairedFrame DEF BatchFails
<1>11. CASE FinishBackfill
  BY <1>11, PairedFrame DEF FinishBackfill, BackfillTypeOK
<1>12. CASE MarkDurableComplete
  BY <1>12, PairedFrame DEF MarkDurableComplete, BackfillTypeOK
<1>13. CASE DropGuard
  BY <1>13, PairedFrame DEF DropGuard
<1>14. CASE RecordCleaned
  BY <1>14, PairedFrame DEF RecordCleaned, BackfillTypeOK
<1>15. CASE AppendCompletedJournal
  BY <1>15, PairedFrame DEF AppendCompletedJournal
<1>16. CASE Crash
  BY <1>16, PairedFrame DEF Crash
<1> QED
  BY <1>1, <1>2, <1>3, <1>4, <1>5, <1>6, <1>7, <1>8, <1>9, <1>10, <1>11, <1>12, <1>13,
     <1>14, <1>15, <1>16 DEF RunnerStep

\* A statement of the application on one row.
LEMMA RowPaired ==
  ASSUME Paired, AppWrites, NEW k \in Keys,
         \A j \in Keys \ {k} : /\ table'[j] = table[j] /\ said'[j] = said[j]
                               /\ j \in cohort => j \in cohort'
                               /\ j \in touched => j \in touched',
         k \in Present' /\ spec.rename => table'[k].from = table'[k].to,
         k \in Present' \ touched' /\ Watched => Holds(k)'
  PROVE  Paired'
<1>1. \A j \in Present' : j # k => j \in Present /\ j \in Keys \ {k}
  BY DEF Present
<1>2. Twins'
  BY <1>1 DEF Paired, Twins, AppWrites
<1>3. WritesSurvive'
  BY <1>1 DEF Paired, WritesSurvive, Holds, AppWrites, Watched
<1> QED
  BY <1>2, <1>3 DEF Paired

LEMMA OutsidePaired ==
  ASSUME Control, Walked, Paired, RollBack \/ Application
  PROVE  Paired'
<1> USE DEF Control
<1>1. CASE RollBack
  BY <1>1 DEF RollBack, Paired, Twins, WritesSurvive, Holds, Present
<1>2. ASSUME NEW k \in Keys, NEW new \in Row, Insert(k, new)
      PROVE  Paired'
  <2>1. /\ table'[k] = StoredNew(new)
        /\ said'[k] = IF spec.rename THEN StoredNew(new).to ELSE new.to
        /\ \A j \in Keys \ {k} : table'[j] = table[j] /\ said'[j] = said[j]
    BY <1>2 DEF Insert, BackfillTypeOK
  <2>2. spec.rename => table'[k].from = table'[k].to
    BY <2>1, StoredEqual
  <2>3. Holds(k)'
    BY <1>2, <2>1 DEF Holds, Insert, AppWrites, StoredNew
  <2> QED
    BY <1>2, <2>1, <2>2, <2>3, RowPaired DEF Insert
<1>3. ASSUME NEW k \in Keys, NEW new \in Row, Update(k, new)
      PROVE  Paired'
  <2>1. /\ table[k] \in Row /\ k \in Present
        /\ table'[k] = Stored(table[k], new)
        /\ new.to # table[k].to => said'[k] = new.to
        /\ new.to = table[k].to /\ spec.rename => said'[k] = new.from
        /\ new.to = table[k].to /\ ~spec.rename => said' = said
        /\ \A j \in Keys \ {k} : table'[j] = table[j] /\ said'[j] = said[j]
    BY <1>3, PresentRow DEF Update, BackfillTypeOK
  <2>2. CASE spec.rename
    <3>1. table'[k].from = table'[k].to
      BY <2>1, <2>2, StoredEqual
    <3>2. new.to = table[k].to => new.from # table[k].from
      BY <1>3, <2>1 DEF Update, Row
    <3>3. table'[k].to = said'[k]
      BY <2>1, <2>2, <3>2, StoredEqual
    <3>4. Holds(k)'
      BY <3>3 DEF Holds
    <3> QED
      BY <1>3, <2>1, <3>1, <3>4, RowPaired DEF Update
  <2>3. CASE ~spec.rename
    <3>1. table'[k] = new
      BY <2>1, <2>3 DEF Stored
    <3>2. ASSUME k \notin touched', Watched
          PROVE  Holds(k)'
      <4>1. Holds(k)
        BY <1>3, <2>1, <3>2 DEF Paired, WritesSurvive, Watched, Update
      <4> QED
        BY <2>1, <2>3, <3>1, <4>1 DEF Holds
    <3> QED
      BY <1>3, <2>1, <2>3, <3>2, RowPaired DEF Update, AppWrites
  <2> QED
    BY <2>2, <2>3
<1>4. ASSUME NEW k \in Keys, Delete(k)
      PROVE  Paired'
  <2>1. /\ k \notin Present'
        /\ \A j \in Keys \ {k} : table'[j] = table[j] /\ said'[j] = said[j]
    BY <1>4 DEF Delete, Present, BackfillTypeOK
  <2> QED
    BY <1>4, <2>1, RowPaired DEF Delete
<1>5. ASSUME NEW k \in Keys, Touch(k)
      PROVE  Paired'
  <2>1. /\ table[k] \in Row /\ table'[k] = Stored(table[k], table[k])
        /\ \A j \in Keys \ {k} : table'[j] = table[j] /\ said'[j] = said[j]
    BY <1>5, PresentRow DEF Touch, BackfillTypeOK
  <2>2. spec.rename => table'[k].from = table'[k].to
    BY <2>1, StoredEqual
  <2> QED
    BY <1>5, <2>1, <2>2, RowPaired DEF Touch
<1>6. ASSUME NEW k \in Keys, NEW to \in Keys, MoveKey(k, to)
      PROVE  Paired'
  <2>1. /\ to # k /\ k \in Present
        /\ table'[to] = table[k] /\ table'[k] = NoRow
        /\ said'[to] = said[k] /\ said'[k] = Null
        /\ \A j \in Keys \ {k, to} : table'[j] = table[j] /\ said'[j] = said[j]
    BY <1>6 DEF MoveKey, BackfillTypeOK
  <2>2. /\ k \in cohort => to \in cohort'
        /\ k \in touched => to \in touched'
        /\ \A j \in Keys \ {k, to} : /\ j \in cohort => j \in cohort'
                                     /\ j \in touched => j \in touched'
    BY <1>6 DEF MoveKey
  <2>3. \A j \in Present' : j = to \/ (j \in Present /\ j \in Keys \ {k, to})
    BY <2>1 DEF Present
  <2>4. UNCHANGED <<spec, progress, rollbacks>>
    BY <1>6 DEF MoveKey, AppWrites
  <2>5. Twins'
    BY <2>1, <2>2, <2>3, <2>4 DEF Paired, Twins
  <2>6. WritesSurvive'
    BY <2>1, <2>2, <2>3, <2>4 DEF Paired, WritesSurvive, Holds
  <2> QED
    BY <2>5, <2>6 DEF Paired
<1>7. CASE Application
  BY <1>2, <1>3, <1>4, <1>5, <1>6, <1>7 DEF Application
<1> QED
  BY <1>1, <1>7

-----------------------------------------------------------------------------
(* Every behaviour.                                                        *)

LEMMA Initially ==
  ASSUME Init
  PROVE  IInv
<1>1. PICK there \in SUBSET Keys, filled \in SUBSET Keys, v \in Values :
        /\ filled \subseteq there
        /\ spec.rename => filled = {}
        /\ table = [k \in Keys |-> IF k \notin there THEN NoRow
                                   ELSE [from |-> v, to |-> IF k \in filled THEN v ELSE Null]]
        /\ said = [k \in Keys |-> IF k \in filled \/ (spec.rename /\ k \in there)
                                  THEN v ELSE Null]
  BY DEF Init
<1>2. \A k \in Present : /\ k \in Keys /\ k \in there
                         /\ table[k] = [from |-> v, to |-> IF k \in filled THEN v ELSE Null]
  BY <1>1 DEF Present
<1>3. BackfillTypeOK
  <2>1. table \in [Keys -> Row \cup {NoRow}]
    <3>1. \A k \in Keys : [from |-> v, to |-> IF k \in filled THEN v ELSE Null] \in Row
      BY DEF Row, Cells
    <3> QED
      BY <1>1, <3>1
  <2>2. said \in [Keys -> Cells]
    BY <1>1 DEF Cells
  <2>3. ran \in [Keys -> Seq(Checksums)]
    <3>1. <<>> \in Seq(Checksums)
      OBVIOUS
    <3> QED
      BY <3>1 DEF Init
  <2>4. crashes \in 0..MaxCrashes /\ writes \in 0..MaxWrites /\ rollbacks \in 0..MaxRollbacks
    <3>1. 0 \in 0..MaxCrashes /\ 0 \in 0..MaxWrites /\ 0 \in 0..MaxRollbacks
      BY BoundsAssumption
    <3> QED
      BY <3>1 DEF Init
  <2>5. spec \in StepSpec /\ progress = NoProgress
    BY SpecsAssumption DEF Init
  <2>6. progress \in [exists : BOOLEAN, body : Checksums \cup {""}, guard : GuardStates,
                      captured : BOOLEAN, last : Keys \cup {0}, end : Keys \cup {0},
                      complete : BOOLEAN]
    BY <2>5 DEF NoProgress, GuardStates
  <2>7. journal \in [kind : {"none", "applied", "rolled_back"}, body : Checksums \cup {""}]
    BY DEF Init
  <2> QED
    BY <2>1, <2>2, <2>3, <2>4, <2>5, <2>6, <2>7 DEF Init, BackfillTypeOK
<1>4. Running /\ Recorded
  <2>1. ~NoProgress.complete /\ ~NoProgress.exists /\ NoProgress.guard = "none"
    BY DEF NoProgress
  <2> QED
    BY <2>1 DEF Init, Running, Recorded
<1>5. Walked
  BY DEF Init, Walked, NoProgress
<1>6. Twins
  BY <1>1, <1>2 DEF Init, Twins, NoProgress
<1>7. WritesSurvive
  BY <1>1, <1>2 DEF WritesSurvive, Holds
<1> QED
  BY <1>3, <1>4, <1>5, <1>6, <1>7 DEF IInv, Control

LEMMA Inductive ==
  ASSUME IInv, [Next]_vars
  PROVE  IInv'
<1>1. CASE RunnerStep \/ Crash
  BY <1>1, RunnerType, RunnerControl, RunnerWalked, RunnerPaired DEF IInv, Control, Paired
<1>2. CASE RollBack
  BY <1>2, RollBackType, OutsideControl, OutsideWalked, OutsidePaired DEF IInv, Control, Paired
<1>3. CASE Application
  BY <1>3, ApplicationType, OutsideControl, OutsideWalked, OutsidePaired
     DEF IInv, Control, Paired
<1>4. CASE UNCHANGED vars
  <2>1. Control'
    <3>1. BackfillTypeOK'
      <4>1. UNCHANGED <<spec, table, guard, progress, journal, pc, body, window, crashes,
                        writes, rollbacks, ran, cohort, said, touched>>
        BY <1>4 DEF vars, rows, bounds
      <4>2. BackfillTypeOK
        BY DEF IInv, Control
      <4>3. spec' \in StepSpec /\ table' \in [Keys -> (Row \cup {NoRow})']
        BY <4>1, <4>2 DEF BackfillTypeOK, Row, Cells
      <4>4. guard' \in BOOLEAN /\ pc' = pc /\ progress' = progress /\ journal' = journal
        BY <4>1, <4>2 DEF BackfillTypeOK
      <4>5. ran' \in [Keys -> Seq(Checksums)] /\ said' \in [Keys -> Cells']
        BY <4>1, <4>2 DEF BackfillTypeOK, Cells
      <4> QED
        BY <4>1, <4>2, <4>3, <4>4, <4>5 DEF BackfillTypeOK
    <3> QED
      BY <1>4, <3>1 DEF IInv, Control, Running, Recorded, SetBased, vars
  <2>2. Walked'
    BY <1>4 DEF IInv, Walked, Ahead, Candidates, Present, Meets, vars, rows, bounds
  <2>3. Paired'
    BY <1>4, PairedFrame DEF IInv, Paired, vars, bounds
  <2> QED
    BY <2>1, <2>2, <2>3 DEF IInv, Paired
<1> QED
  BY <1>1, <1>2, <1>3, <1>4 DEF Next

\* The inductive invariant of the walk, from which every theorem below follows.
THEOREM BackfillInvariant == Spec => []IInv
BY Initially, Inductive, PTL DEF Spec

\* Every variable keeps its type, and a walk its bounds, whatever the bounds and the batch.
THEOREM BackfillTypeCorrect == Spec => []BackfillTypeOK
<1>1. IInv => BackfillTypeOK
  BY DEF IInv, Control
<1> QED
  BY <1>1, BackfillInvariant, PTL

\* run_batch: the transform is committed to a row at most once, over every death and
\* whatever the application writes, for tables and batches of any size.
THEOREM WalksOnce == Spec => []TransformedOnce
<1>1. IInv => TransformedOnce
  <2>1. Len(<<>>) <= 1 /\ \A b : Len(<<b>>) <= 1
    OBVIOUS
  <2> QED
    BY <2>1 DEF IInv, Walked, TransformedOnce
<1> QED
  BY <1>1, BackfillInvariant, PTL

\* finish_backfill: a version is not journaled over a row of its cohort that still waits.
THEOREM WalksAll == Spec => []CohortCovered
<1>1. IInv => CohortCovered
  BY DEF IInv, Control, Recorded, Walked, CohortCovered, Replayed
<1> QED
  BY <1>1, BackfillInvariant, PTL

\* decode_progress: one body does the whole walk, and is the one the journal names.
THEOREM WalksOneBody == Spec => []OneBody
<1>1. IInv => OneBody
  <2>1. ASSUME Walked, NEW k \in Keys, NEW i \in 1..2, i <= Len(ran[k])
        PROVE  ran[k][i] = progress.body
    <3>1. ran[k] = <<>> \/ ran[k] = <<progress.body>>
      BY <2>1 DEF Walked
    <3> QED
      BY <2>1, <3>1
  <2> QED
    BY <2>1 DEF IInv, Control, Recorded, OneBody
<1> QED
  BY <1>1, BackfillInvariant, PTL

\* install_guard: the trigger is there for as long as a cohort is being walked.
THEOREM TriggerHeld == Spec => []GuardHeld
<1>1. IInv => GuardHeld
  BY Guarded DEF IInv
<1> QED
  BY <1>1, BackfillInvariant, PTL

\* finalize_backfill: a version that will be skipped has left no trigger behind.
THEOREM TriggerGone == Spec => []NoneStranded
<1>1. IInv => NoneStranded
  BY DEF IInv, Control, Recorded, BackfillTypeOK, GuardStates, NoneStranded
<1> QED
  BY <1>1, BackfillInvariant, PTL

\* dual_write_function_body: when an online rename's walk is complete its columns agree.
THEOREM RenameAligned == Spec => []Aligned
<1>1. IInv => Aligned
  BY DEF IInv, Control, Recorded, Walked, Twins, Aligned
<1> QED
  BY <1>1, BackfillInvariant, PTL

\* run_batch and Mirror: neither the walk nor the dual-write trigger loses what the
\* application wrote, but for the two cases WritesSurvive names.
THEOREM WritesKept == Spec => []WritesSurvive
<1>1. IInv => WritesSurvive
  BY DEF IInv
<1> QED
  BY <1>1, BackfillInvariant, PTL
=============================================================================
