# A verification project for zero-migrate

zero-migrate applies, rolls back, squashes and recovers database migrations on
PostgreSQL, MySQL 8 and SQLite. Its promise is about a database that several
processes change over years, while sessions die, files are edited and people
intervene by hand. This project models that promise in TLA+, checks it with TLC on
small databases and proves much of it with TLAPS for databases of any size.

Paths below are relative to `src/crates/zero-migrate/src/` unless they start with
`src/`.

## The system

| Component | State it keeps | Operations | Hard behaviour | What makes it correct |
|---|---|---|---|---|
| executor, deploy (`apply/executor.rs`) | nothing durable; per deploy: the plan, a snapshot of the markers, the versions skipped | `apply_with_lock_backend`, `apply_locked`, `execute_pending`, `apply_repeatables` | several deploys at once, a deploy that dies, a retry after an edit | each migration runs once, in dependency order, under the lock; no refusal keeps the lock |
| executor, rollback (same file) | nothing durable; the plan | `plan_rollback_with_inverse_plans`, `rollback_locked` | what was applied later, forced skips, edited files | unwinds exactly what ran, leaves nothing dangling |
| journal (`apply/journal.rs`, `backend/*/journal_sql.rs`) | event stream, inflight markers, rollback markers, supersession edges, pending contracts | `applied`, `record_*`, `superseded_versions`, `latest_completed_checksums` | every query is over the *last* event of a version | what it says is applied is there |
| PostgreSQL leaf (`apply/backend/postgres/session.rs`) | session, advisory lock | `apply_transactional`, `apply_non_transactional`, `recover_non_transactional`, `finalize_non_txn`, `rollback_one_transactional` | `CREATE INDEX CONCURRENTLY` dies and leaves an INVALID index; a lock is granted to a statement that fails | one commit, or a marker that outlives the crash |
| MySQL leaf (`apply/backend/mysql/session.rs`) | session, named lock | `apply_two_phase`, `finalize_two_phase`, `rollback_one` | every DDL statement commits by itself, up and down | never replay over what may have landed |
| SQLite leaf (`apply/backend/sqlite/`) | one connection behind an actor | transactional apply and rollback | table rebuilds | all or nothing |
| MySQL recovery (`apply/backend/mysql/mod.rs`) | markers | `recover_inflight_ddl` | a person says what happened | it journals only the body the marker names |
| squash (`ops/squash.rs`) | edges | `squash` | history that ran, did not run, or ran in part | a covered version never runs again, and runs again if uncovered |
| baseline (`apply/baseline.rs`) | a `baseline` event | `baseline` | a database that already has objects | first entry only; rollback and drift treat it as applied |
| checksum drift (`apply/drift.rs`), existence probe (`render/existence_probe.rs`), preconditions, approval | none | one decision each | decided on a reading that may be old | an edited body is refused |
| engine (`engine.rs`, `plan/pending.rs`, `render/expand_contract.rs`) | step plans, pending contracts | apply, resolve | an online rename stays half done across deploys, and a person settles it | no plan runs over a table whose rename is unresolved; a column is dropped only when the other holds its values |
| backfill (`apply/backend/*/backfill_sql.rs`) | cursor, progress row, guard trigger | run, resume, finish | rows inserted, moved and written while it walks | no row skipped, none touched twice, no application write lost |
| policy (`src/crates/zero-migrate-policy`, `model/table_shape.rs`) | the composed layers | admit a layer, check the whole | regions that overlap, that mask each other, that no scope can express | composition only narrows; a mandatory inject can not be escaped |
| status (`ops/status.rs`) | none | reconcile | read without the lock | – |
| manifest, guard, IR, render, schema reading, Node bindings, TypeScript packages | none | hashing, classification, parsing, lowering, marshalling | – | – |

They meet in the database. A deploy, a rollback, a squash, a baseline and a recovery
each take the project lock, read the journal, decide, and change the journal and the
schema together where the backend lets them; where it does not (MySQL DDL, and
`transaction: false` on PostgreSQL) a marker is committed first and deleted with the
journal row. An online rename and a backfill are many such commits by design: what they
owe is kept in `schema_pending_contracts` and `schema_backfills`, and the application
goes on writing to the table meanwhile. A person who settles a half-reverted version by
hand follows the documentation and takes no lock. The policy is composed before any of
this and touches no database.

`PROJECT.json` lists the components with their status, and the hazards of this code
at the line where each bites.

## Modules

| Module | Models |
|---|---|
| `Journal` | the journal as a value, and the queries over it |
| `Deploy` | deploys by several processes: executor, journal writes, the leaf operations of three backends, deaths |
| `Rollback` | rollback by operators beside the deploys (EXTENDS `Deploy`) |
| `Operations` | `squash()`, `baseline()`, MySQL recovery, the settling of markers (EXTENDS `Rollback`) |
| `Ledger` | the abstract promise of the four: migrations applied, adopted, inherited and unwound in single steps (EXTENDS `Journal`; `Deploy`, `Rollback` and `Operations` implement it) |
| `Contracts` | online renames across deploys: the expand steps, the obligation, the interlocks of other plans, the contract's deploy or its resolution |
| `Backfill` | one backfill step on three backends, authored or of a rename, with its guard trigger, the dual-write trigger and a writing application |
| `Scope`, `Policy` | the lattice of rule scopes; admission of layers and the checks of the whole |
| `MCDeploy`, `MCOperations`, `MCContracts`, `MCBackfill`, `MCPolicy` | instances for TLC |
| `Deploy_proofs` | theorems about deploys alone, and the lemmas on the journal |
| `Operations_proofs`, `Objects_proofs`, `Ledger_proofs`, `Rollback_proofs` | theorems about all operations: their control and history, the objects they leave, the refinement of `Ledger`, what rollbacks leave; each EXTENDS the one before |
| `Contracts_proofs`, `Backfill_proofs`, `Policy_proofs` | theorems about those modules |

`Contracts` takes a backfill as one step and an ordinary plan as one step: `Backfill`
and `Deploy` open those. `Backfill` takes the project lock for given: `Deploy` and
`Contracts` show what it gives. No module describes one thing a second time.

### Deploy, Rollback, Operations

| Variable | In the code |
|---|---|
| `events` | `schema_migrations`; the position is `event_seq` |
| `inflight` | `schema_migrations_inflight`: per version the checksum of the marker |
| `rbInflight` | `schema_migrations_rollback_inflight` (MySQL) |
| `edges` | `schema_migrations_supersedes` |
| `schema` | per version, what exists of the objects its `up` builds: `Absent`, the checksum of the body that built them, `Torn` (a statement list that stopped halfway, an INVALID index) or `Doubled` (an `up` that is not replay-safe ran over its own objects) |
| `lock` | the advisory lock, the named lock, SQLite's exclusive connection |
| `pc`, `supplied`, `phase`, `todo`, `started`, `skipped`, `outcome` | the locals of one `apply_with_lock_backend` call; `todo` is the plan, `started` the snapshot of visible markers taken per phase, `skipped` is `skipped_this_run`, `outcome` is `ApplyOutcome.skipped` |
| `opc`, `request`, `steps` | the locals of one rollback |
| `crashes` | a bound, not state of the program |

Deploy: `Submit` (the approval gate, before the lock), `AcquireLock`, or `LoseGrant`
(PostgreSQL grants the lock and fails the statement: the session holds it until
`drop_grant_from_failed_acquire` gives it back), `Refuse` and `Plan` (everything
`apply_locked` checks, in one step since it only reads, under the lock), then per
migration `RefuseTampered`, `Skip`, `SkipRepeatable`, `Halt`, `RefuseLeaf`,
`LandSatisfied` (the existence guard finds the object), `Begin` and `CommitUp` (one
transaction), or `Arm`, `RunUp` and `Finalize` (three commits), `PlanRepeatables` and
`RefuseRepeatables`, `Finish`, `Release`. `FailUp`, `FailStatement`, `GiveUp` and `Crash`
may strike at each of these. An `up` that commits statement by statement and stops leaves
each of its objects untouched, half done or done; a transaction leaves nothing.

Rollback: `AskRollback`, `LockRollback`, `PlanRollback` or `RefuseRollback`, then
`RollbackOne` (one transaction) or, on MySQL, `MarkDown`, `RunDown` and
`FinalizeDown`; `RefuseHalfReverted`, `FinishRollback`, `StopRollback`.

Operations: `RecordSquash`, `Baseline`, `MarkApplied`, `ClearForRetry`,
`SettleHalfReverted`. All but the statements typed by hand hold the project lock around
one journal transaction, so each is a step that finds the lock free. The statements typed
by hand find it free because the documentation has the operator stop everything else
first; what the operator does to the schema is part of the step, as is the making of the
schema that a baseline describes.

SQL is not modelled. A migration is a record: version (natural numbers, whose order is
UUIDv7 order), checksum (the whole artifact folds into it, so two artifacts with the
same version and checksum are one), dependencies, the versions it supersedes, and
the flags the executor reads. What the guard and the scans say of its SQL is
`clean`; what a precondition can say is the set `verdicts`, from which each
evaluation picks, because the live database answers and may answer differently
next time. `Catalog` holds every artifact anybody supplies, `Manifests` the sets a
deploy may be handed: two artifacts of one version in different sets is an edited
file. The SQL of a squash builds the objects of what it supersedes. `Repairs` is what an
operator does about a half-reverted version, to undo it or to finish it; the runs undo
(see the last section of Findings for the other).

### Ledger

The abstract specification has a journal and the bodies that are built, and four steps:
`Apply`, `Adopt` (a squash over applied history), `Inherit` (a baseline) and `Unwind`.
There is no lock, no marker, no plan and no process. `AllAtOnce` at the end of `Deploy` says
that the detailed modules implement it. The journal maps to itself; the objects map to
`Believed`: as they are, except that those a marker of either kind covers are as they
were before the change the marker is about. So an `up` or `down` of several commits
happens at the commit that deletes its marker, a death in between is a stutter, and
recovery may do whatever it likes that brings either the old or the new shape about.

### Contracts

| Variable | In the code |
|---|---|
| `expanded` | which of E1 (the column), E2 (the trigger), E3 (the backfill) are journaled |
| `done` | which contract steps are: `apply` and `abort`, the atomic cleanups, `C1` and `C2`, the steps of a late contract plan |
| `cols`, `values`, `mirror` | the two columns, whether their values agree, the dual-write trigger |
| `contract` | the row of `schema_pending_contracts` |
| `landed`, `handed` | ordinary plans that ran; contract steps that a host was given |
| `lock`, `pc`, `plan`, `seen` | one `apply_plan` or `resolve_pending_contract`; `seen` is the read-back of obligations at its start |

`Begin`, `Admit` or `Refuse` (the interlocks of `apply_plan_locked` over the read-back),
then by the kind of plan `RunDdl`, `Expand`/`ExpandFails`/`Expanded`/`Record`,
`CleanUp`/`CleanUpFails`/`Settle`, or, for a contract plan whose obligation is not
outstanding, `RunC1`/`RunC2`/`LateContractEnds`; `Finish`; `Crash` anywhere. Outside the
program, `SwitchMirror`, `AppWrites` and `Repair`: somebody disables the trigger, the
application writes past it, somebody makes the values agree again.

### Backfill

| Variable | In the code |
|---|---|
| `table`, `guard` | the rows, each the pair of columns the step copies between, by cursor key; the guard trigger |
| `progress` | the step's row of `schema_backfills` |
| `journal` | the last event of its version |
| `pc`, `body`, `window` | one `run_backfill` |
| `ran`, `cohort`, `said`, `touched` | history, for the properties only: which bodies have transformed a row, who owes a transform, what the application last wrote, which rows it updated otherwise |

`Begin`, `Initialize`, the guard's obligation (`InitializeObligation`, `CreateGuard`,
`RecordGuard`, `InitializeCohort`; on MySQL these are separate commits), `RunBatch`, or
`SelectWindow` and `UpdateWindow` for PostgreSQL's set-based statement, which selects
before it locks; `FinishBackfill`, or on MySQL `MarkDurableComplete`, `DropGuard`,
`RecordCleaned`; `AppendCompletedJournal`; `Crash`, `BatchFails`, `RollBack`. The
application inserts, updates, deletes, touches and re-keys rows between any two of them.
The transform is taken not to be idempotent: `ran` counts it.

### Scope and Policy

A pattern is the set of objects its glob matches; scopes are unions of patterns less
unions of patterns, with the code's `Meet`, `Join`, `Difference` and `Subset`, which are
exact, over-approximating, partial and sufficient, as there. A knob's value is the set of
powers it allows, so that the flags, bounds, ranks and string sets of `value_order.rs` are
all inclusion. `LoadRoot` and `LoadLayer` propose a document, with one claim per rule and
layer that has to be proved of it; `Examine` and `Subtract` prove a claim by emptying its
region scope by scope; `Admit` pins what the draft is silent about and appends it,
`RefuseDraft` ends. `Gather`, `Widen`, then `Compose` or `RefuseWhole` check the stack.

### Mutants

Definitions whose comment starts with "Mutant:" are not part of any behaviour. Each
is a plausible bug in a definition near it (a dropped guard, a swapped order, a missing
write); putting it in place breaks the property that `PROJECT.json` names beside it,
which shows that the property watches that code.

## Runs

| Run | Instance | Asks |
|---|---|---|
| `deploy_live` | PostgreSQL, two sets that may be replayed and each need the other, two deployers, 2 mishaps; 1,362 states | does rerunning them in any order bring both home, and does the lock always come back, a grant that got lost included? |
| `rollback_pg` | PostgreSQL, 5 versions, two deployers, one operator, 1 mishap; 153,924 states | deploys of edited sets beside rollbacks of every kind: is what is journaled there, what is there journaled, once each and in order? |
| `operations_mysql` | MySQL, 4 versions, one deployer, one operator, 2 mishaps; 237,227 states | ups and downs that stop halfway, recovery from both, an existence guard, an approval, a routine: does the journal stay true? |
| `operations_squash` | PostgreSQL, 5 versions, two deployers, one operator, 1 mishap; 176,148 states | two overlapping squashes, recorded or deployed in any mixture with their history, a baseline, rollbacks over all of it: do the edges stand over something, does a covered version stay covered? |
| `contracts` | two renames of one table, one authored directly and one lowered from IR, three ordinary plans, two runners; 286,912 states | do the interlocks hold over deaths, late contracts and hand-made resolutions? |
| `backfill` | three keys 9, 10, 11, two values, batches of 2, seven kinds of step, 1 death, 2 application statements, 1 rollback; 1,352,489 states | does every row get the transform once, and does the application's write survive? |
| `policy` | three tables of two schemas, 5 globs, two knobs, 50 roots, 14 drafts, up to four composed documents; 109,872 states | does composition only narrow? |

The other five runs end in a counterexample; see Findings.

**Properties of the executor.** `Accounted`: whatever is in the schema is journaled or
marked. `JournalIsTrue`: whatever is journaled is in the schema, in the journaled body, or
marked. `OnceOnly`: one `applied` event between two rollbacks. `NoDoubleApply`: no unsafe
replay. `MarkerNamesBody`: no body runs under another's marker. `NoSkipWhileArmed` and
`SkippedIsBuilt`: a deploy that ends well has hidden nothing. `PlanStaysFresh`: no plan is
overtaken. `DependenciesBuilt`: an `up` starts only over what it needs. `UndoesWhatRan`: a
`rolled_back` event answers the `applied` event before it, with its checksum.
`NothingDangles`: at every step of an unwind, everything applied has what it depends on.
`AllAtOnce`: the refinement of `Ledger`. `LockComesBack`, `Converges`: liveness.

**Of contracts.** `Interlock` and `DependentsWait`: no plan runs over a table whose rename
is unresolved, or before what it depends on is settled. `OneOutstanding`: no table has two
outstanding renames, which would block each other for ever. `NothingLost`: a column goes
only while the other has its values. `OneOutcome`: no rename is cleaned up both ways, and
what a direct rename was settled as, it stays. `Recordable`: a cleanup that committed
before a death can still be recorded.

**Of backfills.** `TransformedOnce`, `CohortCovered`, `OneBody`: the walk is complete and
runs each row once, in one body. `GuardHeld`, `NoneStranded`: the trigger is there as long
as it must be and never longer. `Aligned`, `WritesSurvive`: a rename's columns end equal,
and nothing the application wrote is lost.

**Of policies.** `NeverLooser`: no admitted layer raises any knob at any object.
`AskedFor`: a power that must be asked for was asked for by every layer. `InjectsCover`:
where tables can be created, mandatory columns are injected. `OneShape`: no column is
injected into one table in two shapes.

**Bounds.** `MaxEvents` is 4: no deploy starts once the journal is that long, though one
under way finishes and rollbacks append, so histories run to about eight events, enough for
apply, roll back, apply again, and for a deploy over each prefix of another. Two mishaps
(`MaxCrashes`) are a failure and a failure of the recovery from it; the runs with two
deployers and an operator have one. Two deployers are enough because all the work is under
one lock: a third would wait like the second. Versions go to 4 or 5 and checksums are two,
a file and its edit. In `contracts`, deaths and writes are unbounded: its state is finite.
In `backfill`, keys 9, 10 and 11 are the ones whose order as numbers and as text differ, three
rows and batches of two give a full window, a short one and an empty one, and the two
application statements are a row that moves and one that is written. In `policy`, three
objects of two schemas are the least with overlapping, nested and disjoint globs and a
region that no scope stands for. Processes and values are symmetric except in the run with
liveness. Deadlock is checked in `contracts` only: elsewhere the model stops at a bound,
where the program would be idle, and a composed or refused policy is the end.

**Fairness** (`FairSpec`). A process that holds the lock keeps going: its code has no
wait inside the lock that another deploy could hold up. A lock that is free and asked
for is taken by someone (not by everyone who asks). Each set is handed in again and again,
by somebody: that is what the documentation tells the user to do after an interruption or
a missing dependency, and since nobody need ever be idle for long it is strong fairness.
The catalog of that run holds only migrations that may be replayed, because the code
refuses the others until a person decides. Mishaps are finite, and no fairness is asked of them. No liveness is
stated of contracts: an outstanding rename waits for a person, and two renames of one
table can block each other's E3 (`ExpandFails`), which nothing in the code resolves.

## Findings

Five runs show the code doing other than its comments or its documents say.

- `squash_order` (`DependenciesBuilt`). On a fresh database a migration that depends
  on a superseded version counts that dependency as met from the start, and, when its
  version is lower than the squash's, runs before the squash that builds what it needs.
- `routine_skip` (`NoSkipWhileArmed`). `applied()` hides a marker while its version is
  net-applied, and a repeatable that has landed once always is. Deploy a MySQL routine
  as "a"; deploy "b" and die halfway; deploy "a": its last journaled checksum is "a",
  so it is skipped and the deploy ends well over a routine that is half "b". Had "b"
  been retried, the marker's duplicate key would have stopped it.
- `rename_keeps` (`ValuesKept`). The dual-write trigger's last arm takes every UPDATE that
  changes neither column: before the copy has reached a row, touching another column of
  it writes NULL over the value that is being renamed. `WritesSurvive` is the property
  without such rows, and holds.
- `backfill_replay` (`Replayed`). A backfill that was rolled back keeps its complete
  progress row, so applying it again journals the version and transforms nothing.
- `aborted_contract` (`Terminal`). The gate that keeps a contract from running after its
  rename was aborted compares names, and a rename lowered from IR has a plan version that
  none of its steps depends on: its contract steps, deployed late, drop the column that
  the abort kept. `OneOutcome` is the property for renames authored directly, and holds.

Met while modelling, and not given a run of their own:

- Rolling back a squash that `squash()` recorded runs its `down`, but the versions it
  superseded keep their own `applied` rows, are not pending again as `apply/journal.rs`
  1967 says, and nothing rebuilds them.
- Deploy accepts a superseded version as a met dependency; rollback's sort
  (`apply/executor.rs` 2928) does not, and refuses the plan for a missing dependency.
- The gate that keeps a rollback from tearing down what a kept migration needs
  (`apply/executor.rs` 2864) compares names, and a squash has another name than the versions it
  stands for.
- `src/docs/operations.md` 816 lets an operator *finish* an interrupted MySQL `down`,
  delete its marker and apply again; nothing then writes the `rolled_back` event, so apply
  takes the version for applied. `Repairs = {"undo", "finish"}` in `OperationsMysql.cfg`
  shows it against `JournalIsTrue`.
- `baseline()` looks for completed rows and not for markers (`apply/baseline.rs` 190): it
  adopts a schema in which an `up` has stopped halfway.
- `apply/executor.rs` 1961 says that no orchestrator of rollback ships and that none of the
  gates is run; `rollback` at line 2985 of the same file is one, and runs them. The model
  follows the code.
- `model/table_shape.rs` 838 says a later layer can narrow the creatable scope back inside
  an inject; `creatable_escape_scope` joins the scopes that every layer grants, so it can
  not. `src/crates/zero-migrate-policy/src/boundary.rs` 202 calls the two readings of the
  lattice identical; of two rules that grant {a} and {b}, a draft that asks for {a, b} is
  refused. Both err on the safe side.

## Proofs

All theorems are about every value of the constants, under the named assumptions on them.
Those of `Deploy_proofs` are about `Spec`, deploys alone. Those of `Operations_proofs`,
`Objects_proofs`, `Ledger_proofs` and `Rollback_proofs` are about `OperationsSpec`, the
whole; `RollbacksAreOperations` carries them over to `RollbackSpec`. Each inductive
invariant was checked by TLC on the three instances of `MCOperations` before it was proved.

**Deploys alone.** `Deploy_proofs` begins with what appending an event does to `Latest`,
`NetApplied` and `Completed`, and proves of `Deploy`, for every catalog, set of manifests,
number of deployers, backend and bound (versions are naturals; a version and a checksum
name one artifact; a manifest names a version once; the no-row and no-owner values are none
of the others):

- `TypeCorrect`: `TypeOK`. The lemmas on `Land`, `AfterUp`, `Recovered` and
  `Interrupted` say each kind of write is well typed.
- `LockExcludes`: `MutualExclusion`, inductive with `TypeOK`. Every other proof rests
  on it: an action of a deployer at work can not disturb what another remembers,
  since there is no other at work.
- `AppliedOnce` and `PlanFresh`: `OnceOnly` and `PlanStaysFresh`. Neither is inductive:
  that the next `applied` event is the first depends on the plan, and the plan on the
  journal. `HistoryInv` joins three parts: `PlanInv` (`PlanOf` for every deployer:
  what it has still to visit is part of what it was handed, of the kind of its phase,
  and in the versioned phase neither journaled nor covered by a squash, recorded or
  supplied), `JournalInv` (deploys alone never take a version back, and every edge is
  that of a journaled squash) and `OnceOnly`.
- `AlwaysAccounted`: `Accounted`, on all three backends, of any catalog. `MarkerInv` adds
  `ArmedUp` (a deployer between arming and finalising is at the first migration of its
  plan, and that one's marker is there), which is what survives a death.

**All operations: control and history.** `Operations_proofs` assumes nothing of the catalog,
but for the last theorem.

- `RollbackTypeCorrect` and `LockExcludesAll`: one process, deploy or rollback, past the
  lock. From it the frame lemmas: who else is at work is nobody, so a step changes what
  another process has read in no way that matters.
- `AppliedOnceBetweenRollbacks` and `UndoesOnlyWhatRan`, together, from `History`: an
  `applied` row can follow a `rolled_back` one now, so the proof needs that an applied row
  stands or is undone later (`RowsEnd`), that on MySQL a once-only version that is armed is
  not applied (`MarkersPend`), and what the processes carry (`PlansKept`: the plan of a
  deploy is part of what it was handed, of the kind of its phase, and in the versioned
  phase not journaled; `UnwindsKept`: the steps of a rollback are of different versions and
  each is still applied in the body it found).
- `PlanFreshBesideRollbacks`, if an edited squash keeps its scope (`ScopesKept`). The edges
  of a squash are never deleted, so those of one that was rolled back, edited and applied
  again would cover a version that its new body does not.

**All operations: the objects.** `Objects_proofs`, `Ledger_proofs` and the first part of
`Rollback_proofs` ask for a tidy catalog (`TidyCatalog`, at the end of `Operations`):
`ScopesKept`; a squash supersedes no squash (`SquashesFlat`); what runs in two phases shares
its objects with no squash (`TwoPhaseAlone`); a baseline is not described by a squash
(`BaselinesPlain`). Nothing in the code enforces these; the first is a promise of whoever
edits files, and the third leaves squashes to transactional history, so that there are none
on MySQL, where every migration runs in two phases. Without it a squash is applied over what
an interrupted `up` of a version that it covers has left, with only that version's marker to
say so. `MCOperations` assumes them too, so TLC checks that
the catalogs of the runs are tidy.

- `ObjectsAccounted`, `NeverDoubled`, `MarkersNameBodies`: `Sound` says who vouches for every
  object. Beside `Accounted` and `NoDoubleApply` it has: rows and markers are of catalogued
  migrations (`RowsKnown`, `MarkersKnown`), what a deploy has yet to build shares no object
  with what is applied, and while an `up` runs nothing was in its way (`UpsKept`), a rollback
  between its two commits has removed the objects (`DownDone`), and what is marked and not
  applied is absent, torn, or of the marker's body (`HalfBuilt`).
- `ImplementsLedger`: `AllAtOnce`. `LedgerSound` adds, for MySQL, `RowsTrue`: what is
  journaled is there in its body, behind the markers. With it each commit that journals a
  row is one ledger step, and every other step is a stutter of `Believed`. An interrupted
  `down` must be undone and not finished by hand (`HalfDownsUndone`): finishing it leaves
  the journal saying applied, as Findings says.
- `JournalNeverLies`: `JournalIsTrue`, from `RowsTrue` on MySQL and from `BodiesTrue`
  elsewhere. It asks that squashes have no reverse (`SquashesStay`): the `down` of a
  recorded squash removes what the rows of its versions speak of. `SquashLast` (a squash comes
  after what it covers in the journal, so that a target selects it first) and `StepsApart`
  (what a rollback has still to unwind shares no object with anything else that is applied)
  carry it.
- `SkipsAreBuilt`: `SkippedIsBuilt`. `SuppliesTrue` says what a deploy has found as it
  planned, under the lock, and that it is still so at the end: no interrupted `down`, and no
  edited body, of what it was handed. `SettledUnmarked`: on MySQL a journaled once-only
  version has no marker.
- `NoSkipOverMarker`: `NoSkipWhileArmed`. `Cleared` says that a journaled version has
  no marker, `AllReported` that nothing a deploy has reported as skipped has one. Its
  hypotheses `RoutinesUnmarked` and `BaselinesUnmarked` exclude the two ways in which a
  marker can be hidden by a row of its version: the finding `routine_skip`, and a baseline
  that adopts the remains of an `up`.

**All operations: the dependencies.** The last part of `Rollback_proofs`, off MySQL and for a
plain catalog (`PlainCatalog`: no squashes, nothing depends on what a precondition may
skip, what is adopted depends on nothing).

- `NothingIsLeftDangling` and `DependenciesComeFirst`: `NothingDangles` and `DependenciesBuilt`,
  from `Supported`: every applied row stands on applied rows (`BuiltOnApplied`), what a
  deploy has yet to visit depends on nothing else than that and what is applied
  (`AllReady`), what is applied was applied after what it needs (`DepsBefore`), and what
  needs a step of a rollback is unwound before it (`StepsUnneeded`).
- The hypotheses are where the properties end, not where the proof does. With squashes
  the finding `squash_order` violates the second. On MySQL `MarkApplied` journals an armed
  version whose dependency has been rolled back since, and a half-reverted dependency that
  is not supplied is taken for applied. Where a dependency may be skipped, a dependent that
  is armed already is carried on without it, and so is a repeatable on a skipped repeatable.
  In `rollback_pg` a dependency is never skipped; `MCOperations` assumes the hypotheses of
  that instance.

**Contracts.** `Contracts_proofs` proves all the properties of `contracts`, for any renames,
tables, plans and runners. `IInv` has four parts: `Control` (types, mutual exclusion, what a
runner at `record` or `settle` has behind it), `Current` (what a runner read as its plan began
is still so), `Life` (how far a rename has come, by its contract: unrecorded, awaiting with at
most one cleanup done, or terminated) and `OneOutstanding`. The three action properties
follow from `IInv` at the step that lands a plan or drops a column: `Landing` says that
only `RunDdl` lands one, under a read-back that `Current` keeps true.

**Backfill.** `Backfill_proofs` proves all the properties of `backfill`, for any finite set of
natural keys, any batch size and any number of deaths, writes and rollbacks. `Walked` is the
heart: the cursor has passed every row that was transformed and none of the cohort that still
waits, and a selected window is `Ahead`: past the cursor, before every other waiting row,
and all of them if it is short. `Twins` says where a rename's columns may differ, and
`Recorded` ties the progress row, the trigger and the journal together.

**Policy.** `Policy_proofs` proves all the properties of `policy`, over any objects, globs (of
which it assumes that intersections are exact), knobs, values and documents. The lemmas on
`Scope` are semantic: `MeetExact`, `JoinCovers`, `DifferenceCovers`, `SubsetSound`. `RuleWithin`
is the soundness of admission: if every claim of a rule has been emptied, the composed value
at every object of its scope is at least the rule's. `AppendDecides` says what a new layer
does to the value at an object. `PolicyInv` carries what has been proved so far through the
loop over claims and scopes (`Proving`).

**Only model-checked**: liveness (`LockComesBack`, `Converges`), which the prover does not
reach. Every other property of a passing run is stated by a theorem; where it has hypotheses
on the catalog, the instances of all the runs that check it meet them, but for
`NothingDangles` and `DependenciesBuilt` outside plain catalogs, of which nothing is claimed.

## Not modelled

- Inside the modelled components: saving and restoring session settings; the
  `AlreadyHeld` mode, in which the caller has the lock already; structured inverses and the
  typed plan path of rollback; LOCK TABLES around MySQL key changes; the SQLite
  actor thread, its authorizer and its table rebuilds (a migration there is one
  transaction, as the model has it); approval scopes and deploy recovery markers of the
  engine, whose reader is a control plane outside this repository; requirements, validations
  and the parsing of policy documents; the charter algebra that nothing shipped calls
  (`overlay`, `restrict`, `finalize_charter`) and the seal. Settling a marker by hand
  while a deploy runs is outside what the documentation allows, and not modelled.
- Status reads the journal without the lock and decides nothing. The manifest is a hash
  folded over an order.
- SQL translation (`render/lower.rs`, `render/fold.rs`, `render/declarative.rs`,
  `render/dml.rs`), validation of documents (`model/validate.rs`, the IR crate), the SQL
  guard, catalog reading and schema diff, bindings and the TypeScript packages: by far the
  most of the repository's lines. They are functions from documents to text or to a verdict
  and keep no state between calls; their cases are those of SQL dialects, and a model
  would repeat them one by one. Where a verdict of theirs decides something, it is an input
  of the models (`clean`, `verdicts`, `replayable`, `guarded`, `Touches`).

## Plan

1. Proofs: `NothingDangles` and `DependenciesBuilt` with squashes that nothing outside them
   depends on, and on MySQL without recoveries; `JournalIsTrue` with squashes that have a
   reverse and have run themselves; the objects with squashes over two-phase history of which
   nothing is armed.
2. `SqliteConn`: the actor's connection (transaction open, foreign keys off during a rebuild,
   auto-rollback, poisoning) as an implementation of the transaction that `CommitUp` and
   `RollbackOne` are on SQLite.
3. Approval scopes and the DML plan steps of the engine, beside `Contracts`.
