------------------------------- MODULE Deploy -------------------------------
(***************************************************************************)
(* Deploys of a migration set: the executor (apply_with_lock_backend and   *)
(* what it calls), the journal it writes and the leaf operations of the    *)
(* three backends, for several deployers that share one database.          *)
(*                                                                         *)
(* What is kept: the project lock, every refusal and its place, the order  *)
(* of execution, the two apply strategies (one transaction, or a marker,   *)
(* an auto-committed `up` and a finalising transaction), the existence     *)
(* guard, preconditions, squashes, repeatables, and a crash or a failing   *)
(* statement anywhere.                                                     *)
(*                                                                         *)
(* What is abstracted: the SQL.  A migration is named by its version, its  *)
(* content by its checksum, and what its `up` builds by the versions of    *)
(* the once-only migrations whose objects those are (a squash builds the   *)
(* objects of the versions it supersedes).  The SQL guard and the          *)
(* idempotency scan are the flag `clean`; a precondition is the set of     *)
(* verdicts the live database can give it.                                 *)
(***************************************************************************)
EXTENDS Journal, FiniteSets

CONSTANTS
  Deployers,    \* processes that run deploys against the one database
  Catalog,      \* every migration artifact anyone supplies
  Manifests,    \* the sets of artifacts a deploy may be handed
  Grants,       \* the sets of versions an operator may have approved
  Backend,      \* "postgres", "mysql" or "sqlite"
  NoOwner,      \* the project lock is free
  MaxEvents,    \* bound: a deploy starts only while the journal is shorter
  MaxCrashes    \* bound: process deaths and failed statements in a behaviour

Migration ==
  [version : Versions, checksum : Checksums,
   deps : SUBSET Versions,          \* depends_on
   supersedes : SUBSET Versions,    \* non-empty for a squash
   phase : {"none", "expand", "contract"},
   repeatable : BOOLEAN,
   txn : BOOLEAN,                   \* flags.transactional
   gated : BOOLEAN,                 \* flags.destructive or requires_approval
   clean : BOOLEAN,                 \* passes the static scans of its `up`
   replayable : BOOLEAN,            \* check_non_txn_up_replayable admits it
   guarded : BOOLEAN,               \* carries an existence guard
   verdicts : SUBSET {"met", "skip", "halt"},
   down : {"none", "txn", "denied"}]  \* no reverse, one, or one rollback will not run

\* The checksum folds the whole artifact, and a manifest names a version once.
ASSUME CatalogAssumption ==
  /\ Catalog \subseteq Migration /\ IsFiniteSet(Catalog)
  /\ \A m, n \in Catalog : m.version = n.version /\ m.checksum = n.checksum => m = n
ASSUME ManifestsAssumption ==
  \A ms \in Manifests :
    /\ ms \subseteq Catalog
    /\ \A m, n \in ms : m.version = n.version => m = n
ASSUME BackendAssumption == Backend \in {"postgres", "mysql", "sqlite"}
ASSUME BoundsAssumption == MaxEvents \in Nat /\ MaxCrashes \in Nat
ASSUME NoOwnerAssumption == NoOwner \notin Deployers

VARIABLES
  events,       \* schema_migrations, in event_seq order
  inflight,     \* schema_migrations_inflight: checksum of the marker, per version
  rbInflight,   \* schema_migrations_rollback_inflight (MySQL)
  edges,        \* schema_migrations_supersedes: <<squash, superseded>>
  schema,       \* the live objects of each version
  lock,         \* holder of the project lock
  crashes,      \* deaths and failed statements so far
  pc,           \* where each deployer is
  supplied,     \* the set handed to its deploy
  phase,        \* "versioned" or "repeatable"
  todo,         \* pending migrations not yet visited in this phase
  started,      \* the phase's snapshot of visible markers: <<version, checksum>>
  skipped,      \* skipped_this_run
  outcome       \* ApplyOutcome.skipped

journal == <<events, inflight, rbInflight, edges>>
local == <<supplied, phase, todo, started, skipped, outcome>>
vars == <<journal, schema, lock, crashes, pc, local>>

Absent == "absent"      \* no object
Torn == "torn"          \* some statements of an `up` or a `down` landed
Doubled == "doubled"    \* an `up` that is not replay-safe ran over its own objects
Live == {Absent, Torn, Doubled} \cup Checksums

\* No state of an object but a finished one is a body.
ASSUME ShapesAssumption == {Absent, Torn, Doubled} \cap Checksums = {}

Holding == {"planning", "stepping", "up", "finalize", "ok", "failed"}

-----------------------------------------------------------------------------
(* The static reading of a set of migrations.                              *)

Ids(ms) == {m.version : m \in ms}
Versioned(ms) == {m \in ms : ~m.repeatable}
Repeatables(ms) == {m \in ms : m.repeatable}

\* uses_two_phase_path, and MySQL's apply_one, which takes it for every migration.
TwoPhase(m) == Backend = "mysql" \/ (~m.repeatable /\ ~m.txn)

\* The objects `up` builds.
Objects(m) == IF m.supersedes = {} THEN {m.version} ELSE m.supersedes

\* Mutant: a row stamped with the migration's phase.
KindIsPhase(m) == m.phase

\* The journal kind the executor asks for.
KindOf(m) ==
  IF m.repeatable THEN "repeatable" ELSE IF m.supersedes = {} THEN "apply" ELSE "squash"

Malformed(ms) ==
  \/ \E m \in Repeatables(ms) : m.supersedes # {} \/ m.down # "none"
  \/ \E m \in Versioned(ms) : m.deps \cap Ids(Repeatables(ms)) # {}

\* compare_applied_to_set: a settled once-only version must be supplied
\* unchanged, and repeatability must agree with the journaled kind.
Drifted(ms) ==
  \E e \in NetApplied(events), m \in ms :
    /\ e.version = m.version
    /\ ~(e.kind = "repeatable" /\ m.repeatable)
    /\ (e.kind = "repeatable") # m.repeatable \/ e.checksum # m.checksum

\* check_expand_contract_gate.
ExpandNotApplied(ms) ==
  \E m \in ms :
    /\ m.phase = "contract" /\ m.version \notin Completed(events)
    /\ \/ m.deps = {}
       \/ \E v \in m.deps \ Completed(events) :
            \A n \in ms : n.version = v => n.phase = "expand"

\* The squashes of the set that have yet to be journaled.
OpenSquashes(ms) == {m \in ms : m.supersedes # {} /\ m.version \notin Completed(events)}

OverlappingSquashes(ms) ==
  \E m, n \in OpenSquashes(ms) : m # n /\ m.supersedes \cap n.supersedes # {}

\* Mutant: a partly applied prefix is let through.
SquashOfWholePrefix(ms) ==
  \E m \in OpenSquashes(ms) : m.supersedes \subseteq Completed(events)

\* check_squash_all_or_none: a squash runs its `up` only on a fresh database.
SquashNotFresh(ms) ==
  \E m \in OpenSquashes(ms) :
    m.supersedes \cap (Completed(events) \cup Superseded(events, edges)) # {}

\* compute_superseded.
Covered(ms) == Superseded(events, edges) \cup UNION {m.supersedes : m \in ms}

Pending(ms) == {m \in ms : m.version \notin Completed(events) \cup Covered(ms)}

\* The migrations of a set none of whose dependencies is in the set.
Ready(ms) == {m \in ms : m.deps \cap Ids(ms) = {}}

\* Mutant: version order alone.
LowestVersion(m, ms) == m \in ms /\ \A n \in ms : m.version <= n.version

\* Kahn's order, one step at a time: the lowest version that is ready.
First(m, ms) == m \in Ready(ms) /\ \A n \in Ready(ms) : m.version <= n.version

Unorderable(ms, satisfied) ==
  \/ \E m \in ms : ~(m.deps \subseteq Ids(ms) \cup satisfied)
  \/ \E cycle \in SUBSET ms : cycle # {} /\ Ready(cycle) = {}

StaticallyRefused(m) == ~m.clean \/ (Backend = "sqlite" /\ TwoPhase(m))

\* Mutant: the rollback markers are not read.
NoneHalfReverted(ms) == FALSE

\* unresolved_rollback_markers: a supplied version is half-reverted.
HalfReverted(ms) == Ids(ms) \cap rbInflight # {}

\* Everything apply_locked checks before it runs anything.
Refused(all) ==
  LET ms == Versioned(all) IN
  \/ HalfReverted(all)
  \/ Malformed(all)
  \/ Drifted(all)
  \/ ExpandNotApplied(ms)
  \/ OverlappingSquashes(ms)
  \/ SquashNotFresh(ms)
  \/ Unorderable(Pending(ms), Completed(events) \cup Covered(ms))
  \/ \E m \in Pending(ms) : StaticallyRefused(m)

-----------------------------------------------------------------------------
Init ==
  /\ events = <<>>
  /\ inflight = [v \in Versions |-> NoMarker]
  /\ rbInflight = {}
  /\ edges = {}
  /\ schema = [v \in Versions |-> Absent]
  /\ lock = NoOwner
  /\ crashes = 0
  /\ pc = [d \in Deployers |-> "idle"]
  /\ supplied = [d \in Deployers |-> {}]
  /\ phase = [d \in Deployers |-> "versioned"]
  /\ todo = [d \in Deployers |-> {}]
  /\ started = [d \in Deployers |-> {}]
  /\ skipped = [d \in Deployers |-> {}]
  /\ outcome = [d \in Deployers |-> {}]

Goto(d, from, to) ==
  /\ pc[d] = from
  /\ pc' = [pc EXCEPT ![d] = to]

\* The state a deployer returns to: nothing of a deploy survives it.
Forget(d) ==
  /\ supplied' = [supplied EXCEPT ![d] = {}]
  /\ phase' = [phase EXCEPT ![d] = "versioned"]
  /\ todo' = [todo EXCEPT ![d] = {}]
  /\ started' = [started EXCEPT ![d] = {}]
  /\ skipped' = [skipped EXCEPT ![d] = {}]
  /\ outcome' = [outcome EXCEPT ![d] = {}]

\* One process death or failed statement, out of a bounded number.
Mishap == crashes < MaxCrashes /\ crashes' = crashes + 1

\* The visible markers, as the executor snapshots them for a phase.
Markers == {<<v, inflight[v]>> : v \in Started(events, inflight)}

HadInflight(d, m) == \E p \in started[d] : p[1] = m.version

-----------------------------------------------------------------------------
(* The lock and the plan.                                                  *)

\* The approval gate runs before the lock, over the whole set.
Submit(d, ms, grant) ==
  /\ Len(events) < MaxEvents
  /\ \A m \in ms : m.gated => m.version \in grant
  /\ Goto(d, "idle", "waiting")
  /\ supplied' = [supplied EXCEPT ![d] = ms]
  /\ UNCHANGED <<journal, schema, lock, crashes, phase, todo, started, skipped, outcome>>

\* Mutant: the lock is taken whoever holds it.
TakeLock(d) ==
  /\ lock' = d
  /\ Goto(d, "waiting", "planning")
  /\ UNCHANGED <<journal, schema, crashes, local>>

AcquireLock(d) ==
  /\ lock = NoOwner
  /\ lock' = d
  /\ Goto(d, "waiting", "planning")
  /\ UNCHANGED <<journal, schema, crashes, local>>

\* PostgreSQL grants the lock and still fails the statement that waited for it, or loses its
\* reply: the session holds what the deploy was never given. Its Release is the unlock that
\* makes up for it (drop_grant_from_failed_acquire).
LoseGrant(d) ==
  /\ Backend = "postgres" /\ Mishap
  /\ lock = NoOwner
  /\ lock' = d
  /\ Goto(d, "waiting", "failed")
  /\ UNCHANGED <<journal, schema, local>>

Refuse(d) ==
  /\ Goto(d, "planning", "failed")
  /\ Refused(supplied[d])
  /\ UNCHANGED <<journal, schema, lock, crashes, local>>

Plan(d) ==
  /\ Goto(d, "planning", "stepping")
  /\ ~Refused(supplied[d])
  /\ LET ms == Versioned(supplied[d]) IN
       /\ todo' = [todo EXCEPT ![d] = Pending(ms)]
       /\ outcome' = [outcome EXCEPT ![d] = Ids(ms \ Pending(ms))]
  /\ started' = [started EXCEPT ![d] = Markers]
  /\ UNCHANGED <<journal, schema, lock, crashes, supplied, phase, skipped>>

-----------------------------------------------------------------------------
(* One migration of either phase: the executor's decision.                 *)

\* The marker's checksum is compared before its migration is run again
\* (execute_pending only).
RefuseTampered(d, m) ==
  /\ Goto(d, "stepping", "failed")
  /\ phase[d] = "versioned" /\ First(m, todo[d])
  /\ \E p \in started[d] : p[1] = m.version /\ p[2] # m.checksum
  /\ UNCHANGED <<journal, schema, lock, crashes, local>>

\* Mutant: the marker's checksum is not compared.
AnyMarker(d, m) == TRUE

MarkerAgrees(d, m) == \A p \in started[d] : p[1] = m.version => p[2] = m.checksum

\* A repeatable whose last journaled checksum is the supplied one.
Unchanged(m) ==
  \E e \in LatestRepeatable(events) : e.version = m.version /\ e.checksum = m.checksum

\* A dependent of a migration skipped this run is skipped without evaluation;
\* an armed marker outranks both routes to a skip.
DependencySkipped(d, m) == m.deps \cap skipped[d] # {} /\ ~HadInflight(d, m)

\* Mutant: a skip does not ask for the marker.
SkippableWhileArmed(d, m) == m.deps \cap skipped[d] # {} \/ "skip" \in m.verdicts

Skippable(d, m) == DependencySkipped(d, m) \/ ("skip" \in m.verdicts /\ ~HadInflight(d, m))

Evaluated(d, m) ==
  /\ First(m, todo[d])
  /\ IF phase[d] = "versioned"
       THEN MarkerAgrees(d, m) /\ ~DependencySkipped(d, m)
       ELSE ~Unchanged(m)

Skip(d, m) ==
  /\ pc[d] = "stepping" /\ phase[d] = "versioned" /\ First(m, todo[d])
  /\ MarkerAgrees(d, m) /\ Skippable(d, m)
  /\ todo' = [todo EXCEPT ![d] = @ \ {m}]
  /\ skipped' = [skipped EXCEPT ![d] = @ \cup {m.version}]
  /\ outcome' = [outcome EXCEPT ![d] = @ \cup {m.version}]
  /\ UNCHANGED <<journal, schema, lock, crashes, pc, supplied, phase, started>>

SkipRepeatable(d, m) ==
  /\ pc[d] = "stepping" /\ phase[d] = "repeatable" /\ First(m, todo[d])
  /\ Unchanged(m) \/ "skip" \in m.verdicts
  /\ todo' = [todo EXCEPT ![d] = @ \ {m}]
  /\ outcome' = [outcome EXCEPT ![d] = @ \cup {m.version}]
  /\ UNCHANGED <<journal, schema, lock, crashes, pc, supplied, phase, started, skipped>>

Halt(d, m) ==
  /\ Goto(d, "stepping", "failed")
  /\ Evaluated(d, m) /\ "halt" \in m.verdicts
  /\ UNCHANGED <<journal, schema, lock, crashes, local>>

\* The verdict lets the migration through to the backend's apply_one.
Admitted(d, m) ==
  /\ pc[d] = "stepping" /\ Evaluated(d, m)
  /\ \/ "met" \in m.verdicts
     \/ phase[d] = "versioned" /\ "skip" \in m.verdicts /\ HadInflight(d, m)

-----------------------------------------------------------------------------
(* apply_one.                                                              *)

\* What the existence guard can decide on the live catalog.  A present table or
\* column is refused on MySQL, whose type equality is not implemented; an INVALID
\* index is invisible to the snapshot, other half-built objects are divergences.
Probe(m) ==
  LET live == {schema[o] : o \in Objects(m)} IN
  CASE ~m.guarded \/ live = {Absent} -> {"run"}
    [] m.guarded /\ live = {m.checksum} ->
         IF Backend = "mysql" THEN {"noop", "drift"} ELSE {"noop"}
    [] OTHER -> {"run", "drift"}

\* The refusals that come before the probe, and those that come after it.
LeafRefuses(d, m) ==
  \/ Backend = "mysql" /\ (m.version \in rbInflight \/ HadInflight(d, m))
  \/ Backend = "sqlite" /\ (TwoPhase(m) \/ KindOf(m) # "apply")

\* Mutant: every armed version is refused.
NeverRecovers(d, m) == Backend = "postgres" /\ TwoPhase(m) /\ HadInflight(d, m)

RecoveryUnsafe(d, m) ==
  Backend = "postgres" /\ TwoPhase(m) /\ HadInflight(d, m) /\ ~m.replayable

\* MySQL's record_started is a plain INSERT: a marker applied() hid is a duplicate key.
MarkerCollides(m) == Backend = "mysql" /\ inflight[m.version] # NoMarker

RefuseLeaf(d, m) ==
  /\ Admitted(d, m)
  /\ \/ LeafRefuses(d, m)
     \/ "drift" \in Probe(m)
     \/ "run" \in Probe(m) /\ (RecoveryUnsafe(d, m) \/ MarkerCollides(m))
  /\ Goto(d, "stepping", "failed")
  /\ UNCHANGED <<journal, schema, lock, crashes, local>>

\* The journal transaction that lands a migration: the completed row, the edges
\* of a squash and, on the two-phase path, the marker's deletion.
Land(d, m) ==
  /\ events' = Append(events, AppliedEvent(m, KindOf(m)))
  /\ edges' = edges \cup {<<m.version, v>> : v \in m.supersedes}
  /\ inflight' = IF TwoPhase(m) THEN [inflight EXCEPT ![m.version] = NoMarker] ELSE inflight
  /\ todo' = [todo EXCEPT ![d] = @ \ {m}]
  /\ UNCHANGED <<rbInflight, lock, crashes, supplied, phase, started, skipped, outcome>>

LandSatisfied(d, m) ==
  /\ Admitted(d, m) /\ ~LeafRefuses(d, m) /\ "noop" \in Probe(m)
  /\ Land(d, m)
  /\ UNCHANGED <<schema, pc>>

Runs(d, m) ==
  /\ Admitted(d, m) /\ ~LeafRefuses(d, m) /\ "run" \in Probe(m)
  /\ ~RecoveryUnsafe(d, m) /\ ~MarkerCollides(m)

\* Mutant: the residue stays.
ResidueStays(m) == schema

\* Recovery drops the INVALID residue of the migration's own index.
Recovered(m) ==
  [o \in Versions |-> IF o \in Objects(m) /\ schema[o] = Torn THEN Absent ELSE schema[o]]

\* Mutant: no marker before the `up`.
NeverArmed(m) == inflight

\* record_started: ON CONFLICT DO NOTHING keeps a marker that is already there.
Armed(m) == [inflight EXCEPT ![m.version] = IF @ = NoMarker THEN m.checksum ELSE @]

\* Two-phase: recover if a marker is armed, then arm it (a no-op if it already is).
Arm(d, m) ==
  /\ TwoPhase(m) /\ Runs(d, m)
  /\ schema' = IF HadInflight(d, m) THEN Recovered(m) ELSE schema
  /\ inflight' = Armed(m)
  /\ Goto(d, "stepping", "up")
  /\ UNCHANGED <<events, rbInflight, edges, lock, crashes, local>>

Begin(d, m) ==
  /\ ~TwoPhase(m) /\ Runs(d, m)
  /\ Goto(d, "stepping", "up")
  /\ UNCHANGED <<journal, schema, lock, crashes, local>>

\* An object after `up` has run: CREATE OR REPLACE replaces it, an IF NOT EXISTS
\* form leaves what is there, anything else repeats itself over it.
Built(o, m) ==
  CASE schema[o] = Absent \/ m.repeatable -> m.checksum
    [] ~m.repeatable /\ m.replayable /\ schema[o] # Absent -> schema[o]
    [] OTHER -> Doubled

AfterUp(m) == [o \in Versions |-> IF o \in Objects(m) THEN Built(o, m) ELSE schema[o]]

\* An auto-committed `up` that stopped somewhere: each object untouched, half
\* done or done.
Halfway(o, m) ==
  {schema[o], Built(o, m)} \cup (IF m.replayable /\ schema[o] # Absent THEN {} ELSE {Torn})

Interrupted(m) ==
  {[o \in Versions |-> IF o \in Objects(m) THEN part[o] ELSE schema[o]] :
     part \in {f \in [Objects(m) -> Live] : \A o \in Objects(m) : f[o] \in Halfway(o, m)}}

CommitUp(d, m) ==
  /\ Goto(d, "up", "stepping")
  /\ ~TwoPhase(m) /\ First(m, todo[d])
  /\ schema' = AfterUp(m)
  /\ Land(d, m)

RunUp(d, m) ==
  /\ Goto(d, "up", "finalize")
  /\ TwoPhase(m) /\ First(m, todo[d])
  /\ schema' = AfterUp(m)
  /\ UNCHANGED <<journal, lock, crashes, local>>

Finalize(d, m) ==
  /\ Goto(d, "finalize", "stepping")
  /\ First(m, todo[d])
  /\ Land(d, m)
  /\ UNCHANGED schema

\* `up` fails or its session dies: a transaction leaves nothing.
StopsMidUp(d) ==
  \E m \in todo[d] :
    /\ First(m, todo[d])
    /\ IF TwoPhase(m) THEN schema' \in Interrupted(m) ELSE UNCHANGED schema

FailUp(d) ==
  /\ Mishap
  /\ Goto(d, "up", "failed")
  /\ StopsMidUp(d)
  /\ UNCHANGED <<journal, lock, local>>

\* Any other statement of a locked deploy fails; nothing it wrote stays.
FailStatement(d) ==
  /\ Mishap
  /\ pc[d] \in {"planning", "stepping", "finalize"}
  /\ pc' = [pc EXCEPT ![d] = "failed"]
  /\ UNCHANGED <<journal, schema, lock, local>>

-----------------------------------------------------------------------------
(* The repeatable phase, the end of a deploy and its death.                *)

\* apply_repeatables plans over a fresh reading of the journal.
RepeatablesRefused(reps) ==
  \/ Unorderable(reps, Completed(events) \cup Superseded(events, edges))
  \/ \E m \in reps : ~m.clean

PlanRepeatables(d) ==
  LET reps == Repeatables(supplied[d]) IN
  /\ pc[d] = "stepping"
  /\ phase[d] = "versioned" /\ todo[d] = {}
  /\ ~RepeatablesRefused(reps)
  /\ phase' = [phase EXCEPT ![d] = "repeatable"]
  /\ todo' = [todo EXCEPT ![d] = reps]
  /\ started' = [started EXCEPT ![d] = Markers]
  /\ UNCHANGED <<journal, schema, lock, crashes, pc, supplied, skipped, outcome>>

RefuseRepeatables(d) ==
  /\ Goto(d, "stepping", "failed")
  /\ phase[d] = "versioned" /\ todo[d] = {}
  /\ RepeatablesRefused(Repeatables(supplied[d]))
  /\ UNCHANGED <<journal, schema, lock, crashes, local>>

Finish(d) ==
  /\ phase[d] = "repeatable" /\ todo[d] = {}
  /\ Goto(d, "stepping", "ok")
  /\ UNCHANGED <<journal, schema, lock, crashes, local>>

\* Mutant: a refusal returns without releasing.
ReleaseOnSuccess(d) ==
  /\ pc[d] \in {"ok", "failed"}
  /\ lock' = IF pc[d] = "ok" THEN NoOwner ELSE lock
  /\ pc' = [pc EXCEPT ![d] = "idle"]
  /\ Forget(d)
  /\ UNCHANGED <<journal, schema, crashes>>

Release(d) ==
  /\ pc[d] \in {"ok", "failed"}
  /\ lock' = NoOwner
  /\ pc' = [pc EXCEPT ![d] = "idle"]
  /\ Forget(d)
  /\ UNCHANGED <<journal, schema, crashes>>

\* The wait for the lock runs out.
GiveUp(d) ==
  /\ Mishap
  /\ Goto(d, "waiting", "idle")
  /\ Forget(d)
  /\ UNCHANGED <<journal, schema, lock>>

\* The process or its session dies: the database drops the session's lock and
\* any open transaction.
Crash(d) ==
  /\ Mishap
  /\ pc[d] \in Holding
  /\ IF pc[d] = "up" THEN StopsMidUp(d) ELSE UNCHANGED schema
  /\ lock' = NoOwner
  /\ pc' = [pc EXCEPT ![d] = "idle"]
  /\ Forget(d)
  /\ UNCHANGED journal

\* What a deployer does with the migration it is at.
Visit(d, m) ==
  \/ RefuseTampered(d, m)
  \/ Skip(d, m)
  \/ SkipRepeatable(d, m)
  \/ Halt(d, m)
  \/ RefuseLeaf(d, m)
  \/ LandSatisfied(d, m)
  \/ Arm(d, m)
  \/ Begin(d, m)
  \/ CommitUp(d, m)
  \/ RunUp(d, m)
  \/ Finalize(d, m)

\* What a deployer that holds the lock does unless it fails.
Advance(d) ==
  \/ Refuse(d)
  \/ Plan(d)
  \/ \E m \in todo[d] : Visit(d, m)
  \/ PlanRepeatables(d)
  \/ RefuseRepeatables(d)
  \/ Finish(d)
  \/ Release(d)

DeployNext ==
  \E d \in Deployers :
    \/ \E ms \in Manifests, grant \in Grants : Submit(d, ms, grant)
    \/ AcquireLock(d)
    \/ LoseGrant(d)
    \/ Advance(d)
    \/ FailUp(d)
    \/ FailStatement(d)
    \/ GiveUp(d)
    \/ Crash(d)

Spec == Init /\ [][DeployNext]_vars

\* A deployer that holds the lock keeps going, a lock that is free and asked for is
\* taken by someone, and every set is handed in again and again.
FairSpec ==
  /\ Spec
  /\ WF_vars(\E d \in Deployers : AcquireLock(d))
  /\ \A d \in Deployers : WF_vars(Advance(d))
  /\ \A ms \in Manifests : SF_vars(\E d \in Deployers, grant \in Grants : Submit(d, ms, grant))

-----------------------------------------------------------------------------
(* Properties.                                                             *)

\* Every variable but the lock, which others than deployers may hold.
Typed ==
  /\ events \in Seq(Event)
  /\ inflight \in [Versions -> Checksums \cup {NoMarker}]
  /\ rbInflight \subseteq Versions
  /\ edges \subseteq Versions \X Versions
  /\ schema \in [Versions -> Live]
  /\ crashes \in 0..MaxCrashes
  /\ pc \in [Deployers -> {"idle", "waiting"} \cup Holding]
  /\ supplied \in [Deployers -> SUBSET Catalog]
  /\ phase \in [Deployers -> {"versioned", "repeatable"}]
  /\ todo \in [Deployers -> SUBSET Catalog]
  /\ started \in [Deployers -> SUBSET (Versions \X Checksums)]
  /\ skipped \in [Deployers -> SUBSET Versions]
  /\ outcome \in [Deployers -> SUBSET Versions]

TypeOK == Typed /\ lock \in Deployers \cup {NoOwner}

\* The project lock serialises deploys: whoever is past the lock holds it, from the
\* first journal read to the release.
MutualExclusion == \A d \in Deployers : pc[d] \in Holding => lock = d

\* Nothing an `up` left behind is unknown to the journal: an object that is there,
\* whole or torn, belongs to a migration that is net-applied or whose marker is
\* armed, whatever was interrupted (the two-phase protocol of apply_two_phase and
\* apply_non_transactional, the single transaction of apply_transactional).
Accounted ==
  \A o \in Versions : schema[o] # Absent =>
    \E m \in Catalog :
      /\ o \in Objects(m)
      /\ m.version \in Completed(events) \/ inflight[m.version] # NoMarker

\* A once-only migration is journaled as applied once between two rollbacks, however
\* many deployers, crashes and retries (the plan is computed under the lock).
OnceOnly ==
  \A i, j \in DOMAIN events :
    /\ i < j /\ events[i].version = events[j].version
    /\ events[i].event = "applied" /\ events[j].event = "applied"
    /\ events[j].kind # "repeatable"
    => \E k \in i..j : events[k].version = events[i].version /\ events[k].event = "rolled_back"

\* No `up` that is not replay-safe ever runs over the objects it builds: neither a
\* retry of a half-run one nor a squash over the versions it supersedes.
NoDoubleApply == \A o \in Versions : schema[o] # Doubled

\* A marker names the body that half-ran: an edited artifact is never run under the
\* marker of another (the marker's checksum is compared before a re-run, and
\* record_started never overwrites it).
MarkerNamesBody ==
  \A v \in Versions :
    inflight[v] # NoMarker /\ v \notin Completed(events) =>
      schema[v] \in {Absent, Torn, inflight[v]}

\* A plan does not go stale while it is executed: nothing still to be visited in the
\* versioned phase has been applied or superseded meanwhile.
PlanStaysFresh ==
  \A d \in Deployers : pc[d] \in Holding /\ phase[d] = "versioned" =>
    \A m \in todo[d] : m.version \notin Completed(events) \cup Superseded(events, edges)

\* A deploy that ends well reports no version as skipped while its marker is armed
\* (executor.rs: "An armed inflight marker outranks every route to a skip").
NoSkipWhileArmed ==
  \A d \in Deployers : pc[d] = "ok" =>
    \A v \in outcome[d] : inflight[v] = NoMarker

\* An `up` runs only when everything it depends on has been built.
UpStep(d, m) == pc[d] = "up" /\ pc'[d] \in {"stepping", "finalize"} /\ First(m, todo[d])

DependenciesBuilt ==
  [][\A d \in Deployers : \A m \in todo[d] : UpStep(d, m) =>
       \A n \in Catalog : n.version \in m.deps =>
         \A o \in Objects(n) : schema[o] \in Checksums]_vars

\* The lock is always given back: no refusal, failure or death of a deploy keeps it.
LockComesBack == \A d \in Deployers : lock = d ~> lock = NoOwner

\* Rerunning unchanged sets after finitely many deaths, failures and refusals brings them
\* home where every `up` may be replayed: each migration is journaled, its objects are
\* whole and no marker is left (recover_non_transactional, the rerun of a deploy).
Settled(m) ==
  /\ m.version \in Completed(events) /\ inflight[m.version] = NoMarker
  /\ \A o \in Objects(m) : schema[o] = m.checksum

Converges == \A ms \in Manifests : <>[](\A m \in ms : Settled(m))

-----------------------------------------------------------------------------
(* The ledger that a deploy implements.                                    *)

\* The body that a version's objects had before the change a marker is about.
ShapeBefore(v) ==
  IF \E e \in NetApplied(events) : e.version = v
    THEN (CHOOSE e \in NetApplied(events) : e.version = v).checksum
    ELSE Absent

InDoubt(m) == inflight[m.version] # NoMarker \/ m.version \in rbInflight

\* The objects as the journal and its markers account for them: those a marker covers are
\* as they were before it.
Believed ==
  [v \in Versions |->
     IF \E m \in Catalog : v \in Objects(m) /\ InDoubt(m)
       THEN ShapeBefore((CHOOSE m \in Catalog : v \in Objects(m) /\ InDoubt(m)).version)
       ELSE schema[v]]

L == INSTANCE Ledger WITH record <- events, built <- Believed

\* Behind its markers a migration takes effect all at once, in the body that is journaled,
\* and once: the `up`s and `down`s that are several commits, the recoveries from them, the
\* skips and the refusals implement Ledger.
AllAtOnce == L!Spec
=============================================================================
