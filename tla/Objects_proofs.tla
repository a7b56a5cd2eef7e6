---------------------------- MODULE Objects_proofs ----------------------------
(***************************************************************************)
(* The objects in the database, through deploys, rollbacks, squashes,      *)
(* baselines, recoveries and whatever stops them in the middle, for every  *)
(* tidy catalog, set of processes, backend and bound.                      *)
(***************************************************************************)
EXTENDS Operations_proofs

USE VersionsAssumption, NoMarkerAssumption, CatalogAssumption, ManifestsAssumption,
    BackendAssumption, BoundsAssumption, NoOwnerAssumption, OperatorsAssumption,
    RequestsAssumption, RepairsAssumption, AdoptableAssumption, ShapesAssumption

-----------------------------------------------------------------------------
(* Rows and markers are of catalogued migrations.                          *)

\* What the executor runs: a repeatable is no squash and has no reverse.
WellFormed(m) == m.repeatable => m.supersedes = {} /\ m.down = "none"

\* A net-applied row is of an artifact of its kind; a squash's has all its edges.
KnownRow(e) ==
  \E m \in Catalog :
    /\ m.version = e.version /\ m.checksum = e.checksum
    /\ e.kind = "apply" => ~m.repeatable
    /\ e.kind = "repeatable" => m.repeatable /\ m.down = "none"
    /\ e.kind = "baseline" => Backend # "mysql"
    /\ e.kind = "squash" => m.supersedes # {} /\ \A v \in m.supersedes : <<m.version, v>> \in edges
    /\ e.kind # "squash" => m.supersedes = {}

RowsKnown == \A e \in NetApplied(events) : KnownRow(e)

\* A marker is of an artifact that runs in two phases.
MarkersKnown ==
  \A v \in Versions : inflight[v] # NoMarker =>
    \E a \in Catalog : a.version = v /\ Recorded(a) /\ TwoPhase(a) /\ WellFormed(a)

\* The marker of a recorded artifact is that artifact's.
LEMMA RecordedKnown ==
  ASSUME Typed, MarkersKnown, NEW a \in Catalog, Recorded(a)
  PROVE  TwoPhase(a) /\ WellFormed(a)
<1>1. a.version \in Versions /\ inflight[a.version] # NoMarker
  BY CatalogType DEF Recorded
<1>2. PICK b \in Catalog : b.version = a.version /\ Recorded(b) /\ TwoPhase(b) /\ WellFormed(b)
  BY <1>1 DEF MarkersKnown
<1>3. a = b
  BY <1>2 DEF Recorded
<1> QED
  BY <1>2, <1>3

\* What a deployer lands is well formed.
LEMMA LandedWell ==
  ASSUME NEW d \in Deployers, PlanKept(d), NEW m \in todo[d], pc[d] \in {"stepping", "up", "finalize"}
  PROVE  WellFormed(m)
  BY DEF PlanKept, Malformed, Repeatables, WellFormed

\* The rows a step adds, with their edges.
Lands(m) ==
  /\ WellFormed(m)
  /\ events' = Append(events, AppliedEvent(m, KindOf(m)))
  /\ edges' = edges \cup {<<m.version, v>> : v \in m.supersedes}

LEMMA RowsMove ==
  ASSUME OpsTyped, PlansKept, UnwindsKept, MarkersKnown, [OperationsNext]_allVars
  PROVE  \/ UNCHANGED <<events, edges>>
         \/ \E m \in Catalog : Lands(m) \/ RecordSquash(m) \/ Baseline(m)
         \/ \E e \in Event : e.event = "rolled_back" /\ events' = Append(events, e) /\ UNCHANGED edges
<1>1. Typed
  BY DEF OpsTyped, RollbackTypeOK
<1>2. ASSUME NEW d \in Deployers, NEW m \in todo[d], Writes(d, m)
      PROVE  UNCHANGED <<events, edges>> \/ (m \in Catalog /\ Lands(m))
  <2>1. UNCHANGED <<events, edges>> \/ Land(d, m)
    BY <1>2 DEF Writes, LandSatisfied, Arm, CommitUp, RunUp, Finalize, journal
  <2>2. m \in Catalog /\ WellFormed(m)
    BY <1>1, <1>2, DeployerHolds, LandedWell DEF Typed, PlansKept
  <2> QED
    BY <2>1, <2>2 DEF Land, Lands
<1>3. ASSUME NEW o \in Operators, Unwinds(o) \/ HalfUnwinds(o)
      PROVE  \/ UNCHANGED <<events, edges>>
             \/ \E e \in Event : e.event = "rolled_back" /\ events' = Append(events, e) /\ UNCHANGED edges
  <2>1. UNCHANGED <<events, edges>> \/ (RecordRolledBack(o) /\ steps[o] # <<>>)
    BY <1>3 DEF Unwinds, HalfUnwinds, RollbackOne, MarkDown, RunDown, FinalizeDown, Move, journal,
                UnwindsKept, UnwindKept
  <2>2. ASSUME RecordRolledBack(o), steps[o] # <<>>
        PROVE  \E e \in Event : e.event = "rolled_back" /\ events' = Append(events, e) /\ UNCHANGED edges
    BY <2>2, NextStepType DEF RecordRolledBack, RolledBackEvent, OpsTyped
  <2> QED
    BY <2>1, <2>2
<1>4. ASSUME NEW m \in Catalog, OperatorStep(m)
      PROVE  UNCHANGED <<events, edges>> \/ Lands(m) \/ RecordSquash(m) \/ Baseline(m)
  <2>1. CASE MarkApplied(m)
    <3>1. WellFormed(m)
      BY <1>1, <2>1, RecordedKnown DEF MarkApplied
    <3> QED
      BY <2>1, <3>1 DEF MarkApplied, Lands
  <2>2. CASE ClearForRetry(m) \/ SettleHalfReverted(m)
    BY <2>2 DEF ClearForRetry, SettleHalfReverted
  <2> QED
    BY <1>4, <2>1, <2>2 DEF OperatorStep
<1>5. UNCHANGED database => UNCHANGED <<events, edges>>
  BY DEF database, journal
<1> QED
  BY <1>2, <1>3, <1>4, <1>5, Changes DEF Stops, journal

\* A row of m joins those of other versions.
LEMMA RowsLand ==
  ASSUME Typed, RowsKnown, NEW m \in Catalog, NEW k \in Kinds,
         events' = Append(events, AppliedEvent(m, k)), edges \subseteq edges',
         k = "apply" => ~m.repeatable,
         k = "repeatable" => m.repeatable /\ m.down = "none",
         k = "baseline" => Backend # "mysql",
         k = "squash" => m.supersedes # {} /\ \A v \in m.supersedes : <<m.version, v>> \in edges',
         k # "squash" => m.supersedes = {}
  PROVE  RowsKnown'
<1> DEFINE row == AppliedEvent(m, k)
<1>1. row \in Event /\ row.event = "applied" /\ row.version = m.version /\ row.checksum = m.checksum
      /\ row.kind = k
  BY CatalogType DEF AppliedEvent, Event
<1>2. NetApplied(events') = {x \in NetApplied(events) : x.version # m.version} \cup {row}
  BY <1>1, NetAppliedAppend DEF Typed
<1>3. \A e \in NetApplied(events) : KnownRow(e)'
  BY DEF RowsKnown, KnownRow
<1>4. KnownRow(row)'
  BY <1>1 DEF KnownRow
<1> HIDE DEF row
<1> QED
  BY <1>2, <1>3, <1>4 DEF RowsKnown

LEMMA RowsStep ==
  /\ BaselinesPlain /\ OpsTyped /\ PlansKept /\ UnwindsKept /\ MarkersKnown /\ RowsKnown
  /\ [OperationsNext]_allVars
  => RowsKnown'
<1> SUFFICES ASSUME BaselinesPlain, OpsTyped, PlansKept, UnwindsKept, MarkersKnown, RowsKnown,
                    [OperationsNext]_allVars
             PROVE  RowsKnown'
  OBVIOUS
<1>0. Typed /\ events \in Seq(Event)
  BY DEF OpsTyped, RollbackTypeOK, Typed
<1>1. CASE UNCHANGED <<events, edges>>
  BY <1>1 DEF RowsKnown, KnownRow
<1>2. ASSUME NEW m \in Catalog, Lands(m) PROVE RowsKnown'
  BY <1>0, <1>2, RowsLand DEF Lands, KindOf, WellFormed, Kinds
<1>3. ASSUME NEW m \in Catalog, RecordSquash(m) PROVE RowsKnown'
  BY <1>0, <1>3, RowsLand DEF RecordSquash, Kinds
<1>4. ASSUME NEW m \in Catalog, Baseline(m) PROVE RowsKnown'
  BY <1>0, <1>4, RowsLand DEF Baseline, Kinds, BaselinesPlain
<1>5. ASSUME NEW e \in Event, e.event = "rolled_back", events' = Append(events, e), UNCHANGED edges
      PROVE  RowsKnown'
  <2>1. NetApplied(events') \subseteq NetApplied(events)
    BY <1>0, <1>5, NetAppliedUnwind
  <2> QED
    BY <1>5, <2>1 DEF RowsKnown, KnownRow
<1> QED
  BY <1>1, <1>2, <1>3, <1>4, <1>5, RowsMove

\* The markers a step arms or takes away.
LEMMA MarkersMove ==
  ASSUME OpsTyped, PlansKept, [OperationsNext]_allVars
  PROVE  \/ UNCHANGED inflight
         \/ \E m \in Catalog : inflight' = [inflight EXCEPT ![m.version] = NoMarker]
         \/ \E m \in Catalog : TwoPhase(m) /\ WellFormed(m) /\ inflight' = Armed(m)
<1>1. Typed
  BY DEF OpsTyped, RollbackTypeOK
<1>2. ASSUME NEW d \in Deployers, NEW m \in todo[d], Writes(d, m)
      PROVE  \/ UNCHANGED inflight
             \/ m \in Catalog /\ inflight' = [inflight EXCEPT ![m.version] = NoMarker]
             \/ m \in Catalog /\ TwoPhase(m) /\ WellFormed(m) /\ inflight' = Armed(m)
  <2>1. m \in Catalog /\ WellFormed(m)
    BY <1>1, <1>2, DeployerHolds, LandedWell DEF Typed, PlansKept
  <2> QED
    BY <1>2, <2>1 DEF Writes, LandSatisfied, Arm, CommitUp, RunUp, Finalize, Land, journal
<1>3. ASSUME NEW o \in Operators, Unwinds(o) \/ HalfUnwinds(o) PROVE UNCHANGED inflight
  BY <1>3 DEF Unwinds, HalfUnwinds, RollbackOne, MarkDown, RunDown, FinalizeDown, RecordRolledBack,
              journal
<1>4. ASSUME NEW m \in Catalog, OperatorStep(m)
      PROVE  UNCHANGED inflight \/ inflight' = [inflight EXCEPT ![m.version] = NoMarker]
  BY <1>4 DEF OperatorStep, RecordSquash, Baseline, MarkApplied, ClearForRetry, SettleHalfReverted
<1>5. UNCHANGED database => UNCHANGED inflight
  BY DEF database, journal
<1> QED
  BY <1>2, <1>3, <1>4, <1>5, Changes DEF Stops, journal

LEMMA MarkersKnownStep ==
  OpsTyped /\ PlansKept /\ MarkersKnown /\ [OperationsNext]_allVars => MarkersKnown'
<1> SUFFICES ASSUME OpsTyped, PlansKept, MarkersKnown, [OperationsNext]_allVars,
                    NEW v \in Versions, inflight'[v] # NoMarker
             PROVE  \E a \in Catalog : /\ a.version = v /\ inflight'[a.version] = a.checksum
                                       /\ TwoPhase(a) /\ WellFormed(a)
  BY DEF MarkersKnown, Recorded, TwoPhase
<1>0. inflight \in [Versions -> Checksums \cup {NoMarker}]
  BY DEF OpsTyped, RollbackTypeOK, Typed
<1>1. CASE inflight'[v] = inflight[v]
  BY <1>1 DEF MarkersKnown, Recorded
<1>2. ASSUME NEW m \in Catalog, inflight' = [inflight EXCEPT ![m.version] = NoMarker]
      PROVE  inflight'[v] = inflight[v]
  BY <1>0, <1>2
<1>3. ASSUME NEW m \in Catalog, TwoPhase(m), WellFormed(m), inflight' = Armed(m),
             inflight'[v] # inflight[v]
      PROVE  m.version = v /\ inflight'[m.version] = m.checksum
  BY <1>0, <1>3 DEF Armed
<1> QED
  BY <1>1, <1>2, <1>3, MarkersMove

-----------------------------------------------------------------------------
(* What a deploy relies on from its plan to its last row.                  *)

\* A set has one artifact of a version, so a deployer is at one migration.
LEMMA OneOfVersion ==
  ASSUME NEW d \in Deployers, PlanKept(d), NEW m \in todo[d], NEW n \in todo[d],
         m.version = n.version
  PROVE  m = n
  BY DEF PlanKept

LEMMA OneAtWork ==
  ASSUME Typed, NEW d \in Deployers, PlanKept(d), NEW m \in todo[d], NEW n \in todo[d],
         First(m, todo[d]), First(n, todo[d])
  PROVE  m = n
<1>1. m \in Catalog /\ n \in Catalog
  BY DEF Typed
<1>2. m.version \in Nat /\ n.version \in Nat
  BY <1>1, CatalogType
<1>3. m.version <= n.version /\ n.version <= m.version
  BY DEF First
<1> QED
  BY <1>2, <1>3, OneOfVersion

\* What is planned shares no object with what is applied, nor among itself.
Apart(d) ==
  phase[d] = "versioned" => \A m \in todo[d] :
    /\ \A n \in Catalog : n.version \in Completed(events) => Objects(m) \cap Objects(n) = {}
    /\ \A n \in todo[d] : n # m => Objects(m) \cap Objects(n) = {}

\* An applied squash covers what it supersedes.
LEMMA SquashCovers ==
  ASSUME ScopesKept, RowsKnown, NEW n \in Catalog, n.version \in Completed(events)
  PROVE  n.supersedes \subseteq Superseded(events, edges)
<1> SUFFICES ASSUME NEW v \in n.supersedes PROVE v \in Superseded(events, edges)
  OBVIOUS
<1>1. PICK e \in NetApplied(events) : e.version = n.version
  BY DEF Completed
<1>2. PICK a \in Catalog :
        /\ a.version = e.version
        /\ e.kind = "squash" => \A w \in a.supersedes : <<a.version, w>> \in edges
        /\ e.kind # "squash" => a.supersedes = {}
  BY DEF RowsKnown, KnownRow
<1>3. a.supersedes = n.supersedes
  BY <1>1, <1>2 DEF ScopesKept
<1>4. e.kind = "squash" /\ <<n.version, v>> \in edges
  BY <1>1, <1>2, <1>3
<1> DEFINE p == <<n.version, v>>
<1>5. p \in edges /\ p[1] = e.version /\ p[2] = v
  BY <1>1, <1>4
<1> QED
  BY <1>4, <1>5 DEF Superseded

\* Migrations of one version have the same objects.
LEMMA SameObjects ==
  ASSUME ScopesKept, NEW m \in Catalog, NEW n \in Catalog, m.version = n.version
  PROVE  Objects(m) = Objects(n)
<1>1. m.supersedes = n.supersedes
  BY DEF ScopesKept
<1> QED
  BY <1>1 DEF Objects

\* The plan's refusals keep what will run apart from what has run.
LEMMA ApartPlan ==
  ASSUME ScopesKept, Typed, RowsKnown, NEW d \in Deployers, PlanKept(d), Plan(d)
  PROVE  Apart(d)'
<1> DEFINE ms == Versioned(supplied[d])
<1>1. todo'[d] = Pending(ms) /\ UNCHANGED events /\ ~Refused(supplied[d])
  BY DEF Plan, Typed, journal
<1>2. ~SquashNotFresh(ms) /\ ~OverlappingSquashes(ms)
  BY <1>1 DEF Refused
<1>3. \A m \in Pending(ms) :
        /\ m \in ms /\ m \in supplied[d] /\ m \in Catalog /\ m.version \notin Completed(events)
        /\ m.version \notin Superseded(events, edges) /\ \A n \in ms : m.version \notin n.supersedes
        /\ m.supersedes # {} => m \in OpenSquashes(ms)
  BY DEF Pending, Covered, Versioned, OpenSquashes, Typed
<1>4. ASSUME NEW m \in Pending(ms), NEW n \in Catalog, n.version \in Completed(events)
      PROVE  Objects(m) \cap Objects(n) = {}
  <2>1. m.supersedes # {} =>
          m.supersedes \cap Completed(events) = {} /\ m.supersedes \cap Superseded(events, edges) = {}
    BY <1>2, <1>3 DEF SquashNotFresh
  <2>2. n.supersedes \subseteq Superseded(events, edges)
    BY <1>4, SquashCovers
  <2> QED
    BY <1>3, <1>4, <2>1, <2>2 DEF Objects
<1>5. ASSUME NEW m \in Pending(ms), NEW n \in Pending(ms), n # m
      PROVE  Objects(m) \cap Objects(n) = {}
  <2>1. m.version # n.version
    BY <1>3, <1>5 DEF PlanKept
  <2>2. m.supersedes # {} /\ n.supersedes # {} => m.supersedes \cap n.supersedes = {}
    BY <1>2, <1>3, <1>5 DEF OverlappingSquashes
  <2> QED
    BY <1>3, <2>1, <2>2 DEF Objects
<1> QED
  BY <1>1, <1>4, <1>5 DEF Apart, Objects

\* What lands was apart from what is left.
LEMMA ApartLand ==
  ASSUME ScopesKept, Typed, NEW d \in Deployers, Apart(d), NEW m \in todo[d], Land(d, m)
  PROVE  Apart(d)'
<1>1. m \in Catalog /\ todo'[d] = todo[d] \ {m} /\ phase'[d] = phase[d]
  BY DEF Land, Typed
<1>2. Completed(events') = Completed(events) \cup {m.version}
  BY LandCompletes
<1>3. ASSUME phase[d] = "versioned", NEW x \in todo[d], x # m, NEW n \in Catalog,
             n.version \in Completed(events')
      PROVE  Objects(x) \cap Objects(n) = {}
  <2>1. CASE n.version \in Completed(events)
    BY <1>3, <2>1 DEF Apart
  <2>2. CASE n.version = m.version
    <3>1. Objects(n) = Objects(m)
      BY <1>1, <2>2, SameObjects
    <3> QED
      BY <1>3, <3>1 DEF Apart
  <2> QED
    BY <1>2, <1>3, <2>1, <2>2
<1> QED
  BY <1>1, <1>3 DEF Apart, Objects

LEMMA ApartMoves ==
  ASSUME ScopesKept, Typed, RowsKnown, NEW d \in Deployers, PlanKept(d), Apart(d), DeployerStep(d)
  PROVE  Apart(d)'
<1>1. UNCHANGED database \/ Stops(d) => UNCHANGED events
  BY DEF database, Stops, journal
<1>2. ASSUME UNCHANGED events, todo'[d] \subseteq todo[d], UNCHANGED phase[d]
      PROVE  Apart(d)'
  BY <1>2 DEF Apart, Objects
<1>3. CASE LocalsKept(d) /\ pc'[d] = "failed" /\ (UNCHANGED database \/ Stops(d))
  BY <1>1, <1>2, <1>3 DEF LocalsKept, LocalsOf
<1>4. CASE LocalsReset(d) /\ pc'[d] = "idle"
  BY <1>4 DEF LocalsReset, Apart
<1>5. CASE AcquireLock(d) \/ Finish(d) \/ \E ms \in Manifests, grant \in Grants : Submit(d, ms, grant)
  BY <1>2, <1>5 DEF AcquireLock, Finish, Submit, local, journal
<1>6. CASE Plan(d)
  BY <1>6, ApartPlan
<1>7. CASE PlanRepeatables(d)
  BY <1>7 DEF PlanRepeatables, Typed, Apart
<1>8. ASSUME NEW m \in todo[d],
             Skip(d, m) \/ SkipRepeatable(d, m) \/ Begin(d, m) \/ Arm(d, m) \/ RunUp(d, m)
      PROVE  Apart(d)'
  <2>1. UNCHANGED <<events, phase>> /\ todo'[d] \subseteq todo[d]
    BY <1>8 DEF Skip, SkipRepeatable, Begin, Arm, RunUp, local, journal, Typed
  <2> QED
    BY <1>2, <2>1
<1>9. ASSUME NEW m \in todo[d], LandSatisfied(d, m) \/ CommitUp(d, m) \/ Finalize(d, m)
      PROVE  Apart(d)'
  BY <1>9, ApartLand DEF LandSatisfied, CommitUp, Finalize
<1> QED
  BY <1>3, <1>4, <1>5, <1>6, <1>7, <1>8, <1>9, DeployerMoves DEF Writes

\* The snapshot of the markers stays true of what is still to be visited.
Snapshot(d) ==
  pc[d] \in {"stepping", "up", "finalize"} /\ phase[d] = "versioned" => \A m \in todo[d] :
    /\ pc[d] = "stepping" \/ ~First(m, todo[d])
    /\ inflight[m.version] # NoMarker
    => <<m.version, inflight[m.version]>> \in started[d]

LEMMA SnapshotMoves ==
  ASSUME Typed, NEW d \in Deployers, PlanKept(d), PlanKept(d)', Snapshot(d), DeployerStep(d)
  PROVE  Snapshot(d)'
<1>0. /\ inflight \in [Versions -> Checksums \cup {NoMarker}] /\ todo[d] \subseteq Catalog
      /\ \A m \in todo[d] : m.version \in Versions
  BY CatalogType DEF Typed
<1>1. CASE LocalsKept(d) /\ pc'[d] = "failed"
  BY <1>1 DEF Snapshot
<1>2. CASE LocalsReset(d) /\ pc'[d] = "idle"
  BY <1>2 DEF Snapshot
<1>3. CASE AcquireLock(d) \/ Finish(d) \/ \E ms \in Manifests, grant \in Grants : Submit(d, ms, grant)
  BY <1>3 DEF AcquireLock, Finish, Submit, Goto, Typed, Snapshot
<1>4. CASE Plan(d)
  <2>1. /\ started'[d] = Markers /\ todo'[d] = Pending(Versioned(supplied[d])) /\ UNCHANGED inflight
        /\ pc'[d] = "stepping"
    BY <1>4 DEF Plan, Goto, Typed, journal
  <2>2. \A m \in todo'[d] : m \in Catalog /\ m.version \notin Completed(events)
    BY <2>1 DEF Pending, Versioned, Typed
  <2>3. \A m \in todo'[d] : inflight[m.version] # NoMarker => m.version \in Started(events, inflight)
    BY <1>0, <2>2, CatalogType DEF Started
  <2> QED
    BY <2>1, <2>3 DEF Snapshot, Markers
<1>5. CASE PlanRepeatables(d)
  BY <1>5 DEF PlanRepeatables, Typed, Snapshot
<1>6. ASSUME NEW m \in todo[d], Skip(d, m) \/ SkipRepeatable(d, m) PROVE Snapshot(d)'
  <2>1. UNCHANGED <<inflight, phase, started, pc>> /\ todo'[d] \subseteq todo[d] /\ pc[d] = "stepping"
    BY <1>6 DEF Skip, SkipRepeatable, journal, Typed
  <2> QED
    BY <2>1 DEF Snapshot
<1>7. ASSUME NEW m \in todo[d], Begin(d, m) \/ RunUp(d, m) PROVE Snapshot(d)'
  <2>1. UNCHANGED <<inflight, phase, started, todo>> /\ pc[d] \in {"stepping", "up"} /\ pc'[d] # "stepping"
    BY <1>7 DEF Begin, RunUp, Goto, Typed, journal, local
  <2> QED
    BY <2>1 DEF Snapshot, First, Ready
<1>8. ASSUME NEW m \in todo[d], Arm(d, m) PROVE Snapshot(d)'
  <2>1. /\ UNCHANGED <<phase, started, todo>> /\ pc[d] = "stepping" /\ pc'[d] = "up"
        /\ inflight' = Armed(m) /\ First(m, todo[d])
    BY <1>8 DEF Arm, Goto, Typed, local, Runs, Admitted, Evaluated
  <2>2. ASSUME NEW n \in todo[d], ~First(n, todo[d]) PROVE inflight'[n.version] = inflight[n.version]
    <3>1. n.version # m.version
      BY <2>1, <2>2, OneOfVersion
    <3> QED
      BY <1>0, <2>1, <3>1 DEF Armed
  <2> QED
    BY <2>1, <2>2 DEF Snapshot, First, Ready
<1>9. ASSUME NEW m \in todo[d], LandSatisfied(d, m) \/ CommitUp(d, m) \/ Finalize(d, m)
      PROVE  Snapshot(d)'
  <2>1. /\ Land(d, m) /\ pc[d] \in {"stepping", "up", "finalize"}
        /\ pc[d] = "stepping" \/ First(m, todo[d])
    BY <1>9 DEF LandSatisfied, CommitUp, Finalize, Goto, Admitted
  <2>2. UNCHANGED <<phase, started>> /\ todo'[d] = todo[d] \ {m}
    BY <2>1 DEF Land, Typed
  <2>3. ASSUME NEW n \in todo[d], n # m
        PROVE  inflight'[n.version] = inflight[n.version] /\ (pc[d] = "stepping" \/ ~First(n, todo[d]))
    <3>1. n.version # m.version
      BY <2>3, OneOfVersion
    <3>2. inflight'[n.version] = inflight[n.version]
      BY <1>0, <2>1, <3>1 DEF Land
    <3> QED
      BY <2>1, <2>3, <3>2, OneAtWork
  <2> QED
    BY <2>1, <2>2, <2>3 DEF Snapshot
<1> QED
  BY <1>1, <1>2, <1>3, <1>4, <1>5, <1>6, <1>7, <1>8, <1>9, DeployerMoves DEF Writes

-----------------------------------------------------------------------------
(* What a deploy finds where it is about to build, and leaves there.       *)

\* The objects of a marked migration that is not journaled are in a state of its own body.
HalfBuilt ==
  \A a \in Catalog : Recorded(a) =>
    \/ a.version \in Completed(events)
    \/ \A o \in Objects(a) : schema[o] \in {Absent, Torn, a.checksum}

\* Objects nothing applied has are there only under the migration's own marker.
LEMMA OwnMarker ==
  ASSUME ScopesKept, TwoPhaseAlone, Typed, Accounted, MarkersKnown, NEW m \in Catalog,
         \A n \in Catalog : n.version \in Completed(events) => Objects(m) \cap Objects(n) = {},
         NEW o \in Objects(m), schema[o] # Absent
  PROVE  inflight[m.version] # NoMarker
<1>1. o \in Versions
  BY CatalogType
<1>2. PICK n \in Catalog : /\ o \in Objects(n)
                           /\ n.version \in Completed(events) \/ inflight[n.version] # NoMarker
  BY <1>1 DEF Accounted
<1>3. inflight[n.version] # NoMarker /\ n.version \in Versions
  BY <1>2, CatalogType
<1>4. PICK a \in Catalog : a.version = n.version /\ TwoPhase(a)
  BY <1>3 DEF MarkersKnown
<1>5. o \in Objects(a)
  BY <1>2, <1>4, SameObjects
<1>6. m.version = a.version
  BY <1>4, <1>5 DEF TwoPhaseAlone
<1> QED
  BY <1>3, <1>4, <1>6

\* The marker of a migration that the executor lets through is its own.
LEMMA MarkerAgreed ==
  ASSUME Typed, NEW d \in Deployers, Snapshot(d), NEW m \in todo[d],
         phase[d] = "versioned", pc[d] = "stepping", MarkerAgrees(d, m),
         inflight[m.version] # NoMarker
  PROVE  Recorded(m) /\ HadInflight(d, m)
<1> DEFINE p == <<m.version, inflight[m.version]>>
<1>1. p \in started[d] /\ p[1] = m.version /\ p[2] = inflight[m.version]
  BY DEF Snapshot
<1> HIDE DEF p
<1> QED
  BY <1>1 DEF MarkerAgrees, Recorded, HadInflight

\* While an `up` runs: an auto-committed one under its own marker; over objects that are
\* absent, or that a replayable one has built before.
Building(d) ==
  pc[d] \in {"up", "finalize"} => \A m \in todo[d] : First(m, todo[d]) =>
    /\ TwoPhase(m) => Recorded(m)
    /\ pc[d] = "up" /\ phase[d] = "versioned" =>
         /\ ~TwoPhase(m) => inflight[m.version] = NoMarker
         /\ \A o \in Objects(m) :
              \/ schema[o] = Absent
              \/ schema[o] = m.checksum /\ TwoPhase(m) /\ m.replayable
    /\ pc[d] = "finalize" => TwoPhase(m) /\ \A o \in Objects(m) : schema[o] = m.checksum

\* An `up` in one transaction starts where nothing is.
LEMMA BeginBuilding ==
  ASSUME ScopesKept, TwoPhaseAlone, Typed, Accounted, MarkersKnown,
         NEW d \in Deployers, PlanKept(d), Apart(d), Snapshot(d), NEW m \in todo[d], Begin(d, m)
  PROVE  Building(d)'
<1>1. /\ UNCHANGED <<events, inflight, schema, phase, todo>> /\ pc[d] = "stepping" /\ pc'[d] = "up"
      /\ ~TwoPhase(m) /\ First(m, todo[d])
      /\ phase[d] = "versioned" => MarkerAgrees(d, m)
  BY DEF Begin, Goto, Typed, journal, local, Runs, Admitted, Evaluated
<1>2. m \in Catalog
  BY DEF Typed
<1>3. phase[d] = "versioned" => inflight[m.version] = NoMarker
  BY <1>1, <1>2, MarkerAgreed, RecordedKnown
<1>4. phase[d] = "versioned" => \A o \in Objects(m) : schema[o] = Absent
  BY <1>2, <1>3, OwnMarker DEF Apart
<1>5. \A n \in todo[d] : First(n, todo[d]) => n = m
  BY <1>1, OneAtWork
<1> QED
  BY <1>1, <1>3, <1>4, <1>5 DEF Building, Objects, TwoPhase, First, Ready

\* An auto-committed one starts where nothing is, or goes on where it stopped.
LEMMA ArmBuilding ==
  ASSUME ScopesKept, TwoPhaseAlone, Typed, Accounted, MarkersKnown, HalfBuilt,
         NEW d \in Deployers, PlanKept(d), Apart(d), Snapshot(d), NEW m \in todo[d], Arm(d, m)
  PROVE  /\ Building(d)'
         /\ TwoPhase(m) /\ Recorded(m)' /\ UNCHANGED events
         /\ inflight[m.version] # NoMarker => Recorded(m)
         /\ phase[d] = "versioned" => \A o \in Objects(m) : schema'[o] \in {Absent, m.checksum}
<1>0. m \in Catalog /\ m.version \in Versions /\ m.checksum \in Checksums /\ Objects(m) \subseteq Versions
  BY CatalogType DEF Typed
<1>1. /\ UNCHANGED <<events, phase, todo>> /\ pc[d] = "stepping" /\ pc'[d] = "up"
      /\ TwoPhase(m) /\ First(m, todo[d]) /\ inflight' = Armed(m)
      /\ schema' = IF HadInflight(d, m) THEN Recovered(m) ELSE schema
      /\ phase[d] = "versioned" => MarkerAgrees(d, m)
      /\ ~LeafRefuses(d, m) /\ ~RecoveryUnsafe(d, m) /\ ~MarkerCollides(m)
  BY DEF Arm, Goto, Typed, local, Runs, Admitted, Evaluated
<1>2. inflight[m.version] # NoMarker => phase[d] = "versioned"
  <2> SUFFICES ASSUME inflight[m.version] # NoMarker, phase[d] # "versioned" PROVE FALSE
    OBVIOUS
  <2>1. m.repeatable
    BY DEF PlanKept, Typed
  <2>2. Backend = "mysql"
    BY <1>1, <2>1 DEF TwoPhase
  <2> QED
    BY <1>1, <2>2 DEF MarkerCollides
<1>3. inflight[m.version] # NoMarker => Recorded(m) /\ HadInflight(d, m)
  BY <1>1, <1>2, MarkerAgreed
<1>4. inflight'[m.version] = m.checksum
  BY <1>0, <1>1, <1>3 DEF Armed, Typed, Recorded
<1>5. ASSUME phase[d] = "versioned", NEW o \in Objects(m)
      PROVE  \/ schema'[o] = Absent
             \/ schema'[o] = m.checksum /\ m.replayable
  <2>1. CASE schema[o] = Absent
    BY <1>0, <1>1, <2>1 DEF Recovered
  <2>2. CASE schema[o] # Absent
    <3>1. inflight[m.version] # NoMarker
      BY <1>0, <1>5, <2>2, OwnMarker DEF Apart
    <3>2. Recorded(m) /\ HadInflight(d, m)
      BY <1>3, <3>1
    <3>3. Backend = "postgres" /\ m.replayable
      BY <1>1, <3>2 DEF LeafRefuses, RecoveryUnsafe
    <3>4. schema[o] \in {Torn, m.checksum}
      BY <1>0, <1>5, <2>2, <3>2 DEF HalfBuilt, PlanKept
    <3> QED
      BY <1>0, <1>1, <3>2, <3>3, <3>4 DEF Recovered
  <2> QED
    BY <2>1, <2>2
<1>6. \A n \in todo[d] : First(n, todo[d]) => n = m
  BY <1>1, OneAtWork
<1>7. Building(d)'
  BY <1>1, <1>4, <1>5, <1>6 DEF Building, Objects, TwoPhase, First, Ready, Recorded
<1> QED
  BY <1>1, <1>3, <1>4, <1>5, <1>7 DEF Recorded

\* It builds its objects, whole.
LEMMA UpBuilding ==
  ASSUME Typed, NEW d \in Deployers, PlanKept(d), Building(d), NEW m \in todo[d], RunUp(d, m)
  PROVE  /\ Building(d)'
         /\ Recorded(m) /\ TwoPhase(m) /\ \A o \in Objects(m) : schema'[o] = m.checksum
<1>0. m \in Catalog /\ Objects(m) \subseteq Versions
  BY CatalogType DEF Typed
<1>1. /\ UNCHANGED <<inflight, phase, todo>> /\ pc[d] = "up" /\ pc'[d] = "finalize"
      /\ TwoPhase(m) /\ First(m, todo[d]) /\ schema' = AfterUp(m)
  BY DEF RunUp, Goto, Typed, local, journal
<1>2. Recorded(m)
  BY <1>1 DEF Building
<1>3. ASSUME NEW o \in Objects(m) PROVE schema'[o] = m.checksum
  <2>1. schema'[o] = Built(o, m)
    BY <1>0, <1>1 DEF AfterUp
  <2>2. CASE m.repeatable
    BY <2>1, <2>2 DEF Built
  <2>3. CASE ~m.repeatable
    <3>1. phase[d] = "versioned"
      BY <2>3 DEF PlanKept, Typed
    <3>2. schema[o] = Absent \/ (schema[o] = m.checksum /\ m.replayable)
      BY <1>1, <3>1 DEF Building
    <3> QED
      BY <2>1, <2>3, <3>2 DEF Built
  <2> QED
    BY <2>2, <2>3
<1>4. \A n \in todo[d] : First(n, todo[d]) => n = m
  BY <1>1, OneAtWork
<1>5. Building(d)'
  BY <1>1, <1>2, <1>3, <1>4 DEF Building, Objects, TwoPhase, First, Ready, Recorded
<1> QED
  BY <1>1, <1>2, <1>3, <1>5

LEMMA BuildingMoves ==
  ASSUME ScopesKept, TwoPhaseAlone, Typed, Accounted, MarkersKnown, HalfBuilt,
         NEW d \in Deployers, PlanKept(d), Apart(d), Snapshot(d), Building(d), DeployerStep(d)
  PROVE  Building(d)'
<1>1. CASE pc'[d] \notin {"up", "finalize"}
  BY <1>1 DEF Building
<1>2. AcquireLock(d) \/ Plan(d) \/ PlanRepeatables(d) \/ Finish(d) => pc'[d] \notin {"up", "finalize"}
  BY DEF AcquireLock, Plan, PlanRepeatables, Finish, Goto, Typed
<1>3. (\E ms \in Manifests, grant \in Grants : Submit(d, ms, grant)) => pc'[d] \notin {"up", "finalize"}
  BY DEF Submit, Goto, Typed
<1>4. ASSUME NEW m \in todo[d],
             \/ Skip(d, m) \/ SkipRepeatable(d, m)
             \/ LandSatisfied(d, m) \/ CommitUp(d, m) \/ Finalize(d, m)
      PROVE  pc'[d] \notin {"up", "finalize"}
  BY <1>4 DEF Skip, SkipRepeatable, LandSatisfied, CommitUp, Finalize, Admitted, Goto, Typed
<1>5. ASSUME NEW m \in todo[d], Begin(d, m) \/ Arm(d, m) \/ RunUp(d, m) PROVE Building(d)'
  BY <1>5, BeginBuilding, ArmBuilding, UpBuilding
<1> QED
  BY <1>1, <1>2, <1>3, <1>4, <1>5, DeployerMoves DEF Writes

\* All of it, through any step.
UpKept(d) == Apart(d) /\ Snapshot(d) /\ Building(d)

UpsKept == \A d \in Deployers : UpKept(d)

LEMMA UpsStep ==
  /\ ScopesKept /\ TwoPhaseAlone /\ OpsTyped /\ Locked /\ PlansKept /\ PlansKept'
  /\ RowsKnown /\ MarkersKnown /\ Accounted /\ HalfBuilt /\ UpsKept /\ [OperationsNext]_allVars
  => UpsKept'
<1> SUFFICES ASSUME ScopesKept, TwoPhaseAlone, OpsTyped, Locked, PlansKept, PlansKept',
                    RowsKnown, MarkersKnown, Accounted, HalfBuilt, UpsKept, [OperationsNext]_allVars,
                    NEW d \in Deployers
             PROVE  UpKept(d)'
  BY DEF UpsKept
<1>1. Typed /\ PlanKept(d) /\ PlanKept(d)' /\ Apart(d) /\ Snapshot(d) /\ Building(d)
  BY DEF OpsTyped, RollbackTypeOK, PlansKept, UpsKept, UpKept
<1>2. CASE DeployerStep(d)
  BY <1>1, <1>2, ApartMoves, SnapshotMoves, BuildingMoves DEF UpKept
<1>3. CASE UNCHANGED DeployOf(d) /\ (pc[d] \in Holding => UNCHANGED database)
  <2>1. UNCHANGED <<pc[d], phase[d], todo[d], started[d]>>
    BY <1>3 DEF DeployOf
  <2>2. CASE pc[d] \in Holding
    <3>1. UNCHANGED <<events, inflight, schema>>
      BY <1>3, <2>2 DEF database, journal
    <3>2. Apart(d)'
      BY <1>1, <2>1, <3>1 DEF Apart, Objects
    <3>3. Snapshot(d)'
      BY <1>1, <2>1, <3>1 DEF Snapshot, First, Ready
    <3>4. Building(d)'
      BY <1>1, <2>1, <3>1 DEF Building, First, Ready, Recorded, Objects, TwoPhase
    <3> QED
      BY <3>2, <3>3, <3>4 DEF UpKept
  <2>3. CASE pc[d] \notin Holding
    <3>1. todo[d] = {}
      BY <1>1, <2>3 DEF PlanKept, Typed
    <3> QED
      BY <2>1, <2>3, <3>1 DEF UpKept, Apart, Snapshot, Building, Holding
  <2> QED
    BY <2>2, <2>3
<1> QED
  BY <1>2, <1>3, DeployerFrame

-----------------------------------------------------------------------------
(* Between the two transactions of a `down`.                               *)

\* What is to be journaled as rolled back is gone.
DownDone ==
  \A o \in Operators : opc[o] = "finalize" => \A v \in Objects(NextStep(o)) : schema[v] = Absent

LEMMA DownDoneStep ==
  OpsTyped /\ Locked /\ DownDone /\ [OperationsNext]_allVars => DownDone'
<1> SUFFICES ASSUME OpsTyped, Locked, DownDone, [OperationsNext]_allVars,
                    NEW o \in Operators, opc'[o] = "finalize"
             PROVE  \A v \in Objects(NextStep(o)') : schema'[v] = Absent
  BY DEF DownDone, Objects
<1>1. CASE UNCHANGED RollbackOf(o) /\ (opc[o] \in RollbackHolding => UNCHANGED database)
  BY <1>1 DEF RollbackOf, RollbackHolding, database, DownDone, NextStep, Objects
<1>2. CASE RollbackStep(o)
  <2>1. RunDown(o)
    BY <1>2 DEF RollbackStep, AskRollback, LockRollback, AdvanceRollback, StopRollback, PlanRollback,
                RefuseRollback, RollbackOne, RefuseHalfReverted, MarkDown, RunDown, FinalizeDown,
                FinishRollback, EndRollback, Move, OpsTyped, RollbackTypeOK
  <2>2. NextStep(o) \in Catalog /\ NextStep(o)' = NextStep(o)
    BY <2>1, NextStepType DEF RunDown, Move, OpsTyped, AtStep, NextStep
  <2>3. Objects(NextStep(o)) \subseteq Versions
    BY <2>2, CatalogType
  <2>4. schema' = Gone(NextStep(o))
    BY <2>1 DEF RunDown
  <2> QED
    BY <2>2, <2>3, <2>4 DEF Gone
<1> QED
  BY <1>1, <1>2, RollbackFrame

-----------------------------------------------------------------------------
(* What any step leaves of the objects it touches.                         *)

\* A step is about one artifact: the objects, the marker and the row of the others stay.
About(m) ==
  /\ \A v \in Versions \ Objects(m) : schema'[v] = schema[v]
  /\ \A v \in Versions \ {m.version} :
       inflight'[v] = inflight[v] /\ (v \in Completed(events) => v \in Completed(events'))

\* It leaves that artifact journaled, or half-run under its own marker, or not there.
LeavesSound(m) ==
  /\ \/ m.version \in Completed(events')
     \/ /\ inflight'[m.version] = m.checksum
        /\ \A o \in Objects(m) : schema'[o] \in {Absent, Torn, m.checksum}
     \/ \A o \in Objects(m) : schema'[o] = Absent
  /\ \A o \in Objects(m) : schema'[o] # schema[o] => schema'[o] # Doubled

\* A row of m is added.
LEMMA AboutRow ==
  ASSUME Typed, NEW m \in Catalog, NEW k \in Kinds, events' = Append(events, AppliedEvent(m, k)),
         \/ UNCHANGED inflight
         \/ inflight' = [inflight EXCEPT ![m.version] = NoMarker],
         \A v \in Versions \ Objects(m) : schema'[v] = schema[v]
  PROVE  About(m) /\ m.version \in Completed(events')
<1> DEFINE row == AppliedEvent(m, k)
<1>1. row \in Event /\ row.event = "applied" /\ row.version = m.version
  BY CatalogType DEF AppliedEvent, Event
<1>2. Completed(events') = Completed(events) \cup {m.version}
  BY <1>1, CompletedAppend DEF Typed
<1>3. \A v \in Versions \ {m.version} : inflight'[v] = inflight[v]
  BY DEF Typed
<1> QED
  BY <1>2, <1>3 DEF About

\* A deployer's row.
LEMMA LandSound ==
  ASSUME Typed, NEW d \in Deployers, PlanKept(d), Building(d), NEW m \in todo[d],
         LandSatisfied(d, m) \/ CommitUp(d, m) \/ Finalize(d, m)
  PROVE  About(m) /\ LeavesSound(m)
<1>1. m \in Catalog /\ Land(d, m) /\ KindOf(m) \in Kinds /\ m.checksum # Doubled
  BY CatalogType, Zenon DEF LandSatisfied, CommitUp, Finalize, Typed, Live
<1>2. UNCHANGED schema \/ (CommitUp(d, m) /\ schema' = AfterUp(m))
  BY DEF LandSatisfied, CommitUp, Finalize
<1>3. \A v \in Versions \ Objects(m) : schema'[v] = schema[v]
  BY <1>2 DEF AfterUp
<1>4. About(m) /\ m.version \in Completed(events')
  BY <1>1, <1>3, AboutRow DEF Land
<1>5. ASSUME CommitUp(d, m), NEW o \in Objects(m) PROVE schema'[o] = m.checksum
  <2>1. /\ pc[d] = "up" /\ First(m, todo[d]) /\ ~TwoPhase(m) /\ schema' = AfterUp(m)
        /\ o \in Versions
    BY <1>1, <1>5, CatalogType DEF CommitUp, Goto
  <2>2. schema[o] = Absent \/ m.repeatable
    BY <2>1 DEF Building, PlanKept, Typed
  <2> QED
    BY <2>1, <2>2 DEF AfterUp, Built
<1>6. \A o \in Objects(m) : schema'[o] # schema[o] => schema'[o] # Doubled
  BY <1>1, <1>2, <1>5
<1> QED
  BY <1>4, <1>6 DEF LeavesSound

\* What has no marker and no row is not there.
LEMMA NothingThere ==
  ASSUME ScopesKept, TwoPhaseAlone, Typed, Accounted, MarkersKnown, NEW m \in Catalog, TwoPhase(m),
         m.version \notin Completed(events), inflight[m.version] = NoMarker, NEW o \in Objects(m)
  PROVE  schema[o] = Absent
<1>1. \A n \in Catalog : n.version \in Completed(events) => Objects(m) \cap Objects(n) = {}
  BY DEF TwoPhaseAlone
<1> QED
  BY <1>1, OwnMarker

LEMMA ArmSound ==
  ASSUME ScopesKept, TwoPhaseAlone, Typed, Accounted, MarkersKnown, HalfBuilt,
         NEW d \in Deployers, PlanKept(d), Apart(d), Snapshot(d), NEW m \in todo[d], Arm(d, m)
  PROVE  About(m) /\ LeavesSound(m)
<1>0. /\ m \in Catalog /\ Objects(m) \subseteq Versions /\ m.version \in Versions
      /\ inflight \in [Versions -> Checksums \cup {NoMarker}]
  BY CatalogType DEF Typed
<1>1. /\ TwoPhase(m) /\ inflight'[m.version] = m.checksum /\ UNCHANGED events
      /\ inflight[m.version] # NoMarker => Recorded(m)
      /\ phase[d] = "versioned" => \A o \in Objects(m) : schema'[o] \in {Absent, m.checksum}
  BY ArmBuilding DEF Recorded
<1>2. /\ inflight' = Armed(m) /\ (schema' = schema \/ schema' = Recovered(m)) /\ ~MarkerCollides(m)
  BY DEF Arm, Runs
<1>3. \A v \in Versions \ {m.version} : inflight'[v] = inflight[v]
  BY <1>0, <1>2 DEF Armed
<1>4. \A v \in Versions \ Objects(m) : schema'[v] = schema[v]
  BY <1>2 DEF Recovered
<1>5. \A o \in Objects(m) : schema'[o] # schema[o] => schema'[o] = Absent
  BY <1>0, <1>2 DEF Recovered
<1>6. ASSUME phase[d] # "versioned", m.version \notin Completed(events), NEW o \in Objects(m)
      PROVE  schema'[o] = Absent
  <2>1. m.repeatable
    BY <1>6 DEF PlanKept, Typed
  <2>2. inflight[m.version] = NoMarker
    BY <1>1, <1>2, <2>1 DEF TwoPhase, MarkerCollides
  <2>3. schema[o] = Absent
    BY <1>0, <1>1, <1>6, <2>2, NothingThere
  <2> QED
    BY <1>5, <1>6, <2>3
<1>7. About(m)
  BY <1>1, <1>3, <1>4 DEF About
<1>8. \/ m.version \in Completed(events')
      \/ \A o \in Objects(m) : schema'[o] \in {Absent, Torn, m.checksum}
  BY <1>1, <1>6
<1>9. Absent # Doubled
  BY DEF Absent, Doubled
<1> QED
  BY <1>1, <1>5, <1>7, <1>8, <1>9 DEF LeavesSound

LEMMA UpSound ==
  ASSUME Typed, NEW d \in Deployers, PlanKept(d), Building(d), NEW m \in todo[d], RunUp(d, m)
  PROVE  About(m) /\ LeavesSound(m)
<1>1. m \in Catalog /\ m.checksum # Doubled
  BY CatalogType, Zenon DEF Typed
<1>2. UNCHANGED <<events, inflight>> /\ schema' = AfterUp(m)
  BY DEF RunUp, journal
<1>3. Recorded(m) /\ \A o \in Objects(m) : schema'[o] = m.checksum
  BY UpBuilding
<1>4. About(m)
  BY <1>2 DEF About, AfterUp
<1> QED
  BY <1>1, <1>2, <1>3, <1>4 DEF LeavesSound, Recorded

\* An `up` that stops on its way, and its deployer with it.
LEMMA StopSound ==
  ASSUME Typed, HalfBuilt, NEW d \in Deployers, PlanKept(d), Building(d), Stops(d)
  PROVE  UNCHANGED database \/ \E m \in Catalog : About(m) /\ LeavesSound(m)
<1>1. PICK m \in todo[d] :
        /\ First(m, todo[d])
        /\ IF TwoPhase(m) THEN schema' \in Interrupted(m) ELSE UNCHANGED schema
  BY DEF Stops, StopsMidUp
<1>2. /\ m \in Catalog /\ Objects(m) \subseteq Versions /\ pc[d] = "up" /\ UNCHANGED journal
      /\ Doubled \notin {Absent, Torn, m.checksum}
  <2>1. Doubled \notin {Absent, Torn}
    BY DEF Doubled, Absent, Torn
  <2>2. m \in Catalog /\ m.checksum \in Checksums
    BY CatalogType DEF Typed
  <2>3. Doubled # m.checksum
    BY <2>2, Zenon
  <2> QED
    BY <2>1, <2>2, <2>3, CatalogType DEF Stops
<1>3. CASE ~TwoPhase(m)
  BY <1>1, <1>2, <1>3 DEF database
<1>4. CASE TwoPhase(m)
  <2>1. Recorded(m)
    BY <1>1, <1>2, <1>4 DEF Building
  <2>2. PICK part \in [Objects(m) -> Live] :
          /\ \A o \in Objects(m) : part[o] \in Halfway(o, m)
          /\ schema' = [o \in Versions |-> IF o \in Objects(m) THEN part[o] ELSE schema[o]]
    BY <1>1, <1>4 DEF Interrupted
  <2>3. \A o \in Objects(m) : schema'[o] \in {schema[o], Built(o, m), Torn}
    BY <1>2, <2>2 DEF Halfway
  <2>4. ASSUME NEW o \in Objects(m) PROVE Built(o, m) = m.checksum
    <3>1. CASE m.repeatable
      BY <3>1 DEF Built
    <3>2. CASE ~m.repeatable
      <4>1. phase[d] = "versioned"
        BY <3>2 DEF PlanKept, Typed
      <4>2. schema[o] = Absent \/ (schema[o] = m.checksum /\ m.replayable)
        BY <1>1, <1>2, <4>1 DEF Building
      <4> QED
        BY <3>2, <4>2 DEF Built
    <3> QED
      BY <3>1, <3>2
  <2>5. \/ m.version \in Completed(events)
        \/ \A o \in Objects(m) : schema[o] \in {Absent, Torn, m.checksum}
    BY <1>2, <2>1 DEF HalfBuilt
  <2>6. UNCHANGED <<events, inflight>>
    BY <1>2 DEF journal
  <2>7. About(m)
    BY <2>2, <2>6 DEF About
  <2>8. LeavesSound(m)
    BY <1>2, <2>1, <2>3, <2>4, <2>5, <2>6 DEF LeavesSound, Recorded
  <2> QED
    BY <1>2, <2>7, <2>8
<1> QED
  BY <1>3, <1>4

\* A `down`, or a part of one.
LEMMA UnwindSound ==
  ASSUME OpsTyped, UnwindsKept, DownDone, NEW o \in Operators, Unwinds(o) \/ HalfUnwinds(o)
  PROVE  UNCHANGED <<events, inflight, schema>> \/ \E m \in Catalog : About(m) /\ LeavesSound(m)
<1> DEFINE s == NextStep(o)
<1>1. steps[o] # <<>> /\ (opc[o] \in {"down", "finalize"} => Backend = "mysql")
  BY DEF Unwinds, HalfUnwinds, RollbackOne, MarkDown, RunDown, FinalizeDown, Move,
         UnwindsKept, UnwindKept
<1>2. s \in Catalog /\ Objects(s) \subseteq Versions /\ Absent # Doubled /\ Torn # Doubled
  BY <1>1, NextStepType, CatalogType DEF OpsTyped, Absent, Torn, Doubled
<1>3. s.version \in Completed(events)
  BY <1>1 DEF UnwindsKept, UnwindKept, Journaled, Completed, NextStep, OpsTyped, RollbackTypeOK
<1>4. ASSUME RecordRolledBack(o)
      PROVE  UNCHANGED inflight /\ Completed(events') = Completed(events) \ {s.version}
  <2>1. RolledBackEvent(s) \in Event /\ RolledBackEvent(s).event = "rolled_back"
        /\ RolledBackEvent(s).version = s.version
    BY <1>2, CatalogType DEF RolledBackEvent, Event
  <2> QED
    BY <1>4, <2>1, CompletedUnwind DEF RecordRolledBack, OpsTyped, RollbackTypeOK, Typed
<1> HIDE DEF s
<1>5. ASSUME schema' = Gone(s)
      PROVE  /\ \A v \in Objects(s) : schema'[v] = Absent
             /\ \A v \in Versions \ Objects(s) : schema'[v] = schema[v]
  BY <1>2, <1>5 DEF Gone
<1>6. CASE RollbackOne(o)
  <2>1. RecordRolledBack(o) /\ schema' = Gone(s)
    BY <1>6 DEF RollbackOne, s
  <2> QED
    BY <1>2, <1>4, <1>5, <2>1 DEF About, LeavesSound
<1>7. CASE MarkDown(o)
  BY <1>7 DEF MarkDown
<1>8. CASE RunDown(o)
  <2>1. schema' = Gone(s) /\ UNCHANGED <<events, inflight>>
    BY <1>8 DEF RunDown, journal, s
  <2> QED
    BY <1>2, <1>5, <2>1 DEF About, LeavesSound
<1>9. CASE FinalizeDown(o)
  <2>1. RecordRolledBack(o) /\ UNCHANGED schema /\ \A v \in Objects(s) : schema[v] = Absent
    BY <1>9 DEF FinalizeDown, Move, DownDone, s
  <2> QED
    BY <1>2, <1>4, <2>1 DEF About, LeavesSound
<1>10. CASE HalfUnwinds(o)
  <2>1. UNCHANGED <<events, inflight>> /\ schema' \in HalfDown(s)
    BY <1>10 DEF HalfUnwinds, journal, s
  <2>2. PICK part \in [Objects(s) -> Live] :
          /\ \A v \in Objects(s) : part[v] \in {schema[v], Torn, Absent}
          /\ schema' = [v \in Versions |-> IF v \in Objects(s) THEN part[v] ELSE schema[v]]
    BY <2>1 DEF HalfDown
  <2>3. \A v \in Objects(s) : schema'[v] \in {schema[v], Torn, Absent}
    BY <1>2, <2>2
  <2> QED
    BY <1>2, <1>3, <2>1, <2>2, <2>3 DEF About, LeavesSound
<1> QED
  BY <1>6, <1>7, <1>8, <1>9, <1>10 DEF Unwinds

\* The body that a version had is one of the catalogue's, if it had any.
LEMMA ShapeKnown ==
  ASSUME Typed, NEW v \in Versions
  PROVE  /\ v \in Completed(events) => ShapeBefore(v) \in Checksums
         /\ v \notin Completed(events) => ShapeBefore(v) = Absent
         /\ ShapeBefore(v) # Doubled
<1>1. \A e \in NetApplied(events) : e.checksum \in Checksums
  BY NetAppliedRow DEF Typed, Event
<1>2. v \in Completed(events) => ShapeBefore(v) \in Checksums
  BY <1>1 DEF ShapeBefore, Completed
<1>3. v \notin Completed(events) => ShapeBefore(v) = Absent
  BY DEF ShapeBefore, Completed
<1>4. Absent # Doubled
  BY DEF Absent, Doubled
<1> QED
  BY <1>2, <1>3, <1>4, Zenon

\* What an operator does.
LEMMA OperatorSound ==
  ASSUME Typed, NEW m \in Catalog, OperatorStep(m)
  PROVE  About(m) /\ LeavesSound(m)
<1>1. /\ Objects(m) \subseteq Versions /\ m.version \in Versions /\ KindOf(m) \in Kinds
      /\ "squash" \in Kinds /\ "baseline" \in Kinds /\ m.checksum \in Checksums
  BY CatalogType DEF Kinds
<1>2. ShapeBefore(m.version) # Doubled /\ Absent # Doubled /\ m.checksum # Doubled
  BY <1>1, ShapeKnown, Zenon DEF Absent, Doubled
<1>3. CASE RecordSquash(m) \/ MarkApplied(m)
  <2>1. UNCHANGED schema /\ About(m) /\ m.version \in Completed(events')
    BY <1>1, <1>3, AboutRow DEF RecordSquash, MarkApplied
  <2> QED
    BY <2>1 DEF LeavesSound
<1>4. CASE Baseline(m)
  <2>1. schema' = [v \in Versions |-> IF v \in Objects(m) THEN m.checksum ELSE schema[v]]
    BY <1>4 DEF Baseline
  <2>2. About(m) /\ m.version \in Completed(events')
    BY <1>1, <1>4, <2>1, AboutRow DEF Baseline
  <2> QED
    BY <1>1, <1>2, <2>1, <2>2 DEF LeavesSound
<1>5. ASSUME schema' = Restored(m)
      PROVE  /\ \A v \in Objects(m) : schema'[v] = ShapeBefore(m.version)
             /\ \A v \in Versions \ Objects(m) : schema'[v] = schema[v]
  BY <1>1, <1>5 DEF Restored
<1>6. CASE ClearForRetry(m)
  <2>1. UNCHANGED events /\ schema' = Restored(m) /\ inflight' = [inflight EXCEPT ![m.version] = NoMarker]
    BY <1>6 DEF ClearForRetry
  <2>2. About(m)
    BY <1>5, <2>1 DEF About, Typed
  <2>3. m.version \in Completed(events) \/ ShapeBefore(m.version) = Absent
    BY <1>1, ShapeKnown
  <2> QED
    BY <1>2, <1>5, <2>1, <2>2, <2>3 DEF LeavesSound
<1>7. CASE SettleHalfReverted(m)
  <2>1. UNCHANGED <<events, inflight>> /\ (schema' = Restored(m) \/ schema' = Gone(m))
        /\ m.version \in Completed(events)
    BY <1>7 DEF SettleHalfReverted, Completed
  <2>2. schema' = Gone(m) => /\ \A v \in Objects(m) : schema'[v] = Absent
                             /\ \A v \in Versions \ Objects(m) : schema'[v] = schema[v]
    BY <1>1 DEF Gone
  <2> QED
    BY <1>2, <1>5, <2>1, <2>2 DEF About, LeavesSound
<1> QED
  BY <1>3, <1>4, <1>6, <1>7 DEF OperatorStep

\* Every step.
LEMMA EverySound ==
  ASSUME ScopesKept, TwoPhaseAlone, OpsTyped, PlansKept, UnwindsKept, MarkersKnown, Accounted,
         HalfBuilt, UpsKept, DownDone, [OperationsNext]_allVars
  PROVE  UNCHANGED <<events, inflight, schema>> \/ \E m \in Catalog : About(m) /\ LeavesSound(m)
<1>0. Typed
  BY DEF OpsTyped, RollbackTypeOK
<1>1. UNCHANGED database => UNCHANGED <<events, inflight, schema>>
  BY DEF database, journal
<1>2. ASSUME NEW d \in Deployers
      PROVE  PlanKept(d) /\ Apart(d) /\ Snapshot(d) /\ Building(d)
  BY DEF PlansKept, UpsKept, UpKept
<1>3. ASSUME NEW d \in Deployers, Stops(d)
      PROVE  UNCHANGED database \/ \E m \in Catalog : About(m) /\ LeavesSound(m)
  BY <1>0, <1>2, <1>3, StopSound
<1>4. ASSUME NEW d \in Deployers, NEW m \in todo[d], Writes(d, m)
      PROVE  m \in Catalog /\ About(m) /\ LeavesSound(m)
  BY <1>0, <1>2, <1>4, LandSound, ArmSound, UpSound DEF Writes, Typed
<1>5. ASSUME NEW o \in Operators, Unwinds(o) \/ HalfUnwinds(o)
      PROVE  UNCHANGED <<events, inflight, schema>> \/ \E m \in Catalog : About(m) /\ LeavesSound(m)
  BY <1>5, UnwindSound
<1>6. ASSUME NEW m \in Catalog, OperatorStep(m) PROVE About(m) /\ LeavesSound(m)
  BY <1>0, <1>6, OperatorSound
<1> QED
  BY <1>1, <1>3, <1>4, <1>5, <1>6, Changes

-----------------------------------------------------------------------------
(* The objects are what the journal and the markers say.                   *)

LEMMA AccountedSound ==
  ASSUME ScopesKept, Accounted, NEW m \in Catalog, About(m), LeavesSound(m)
  PROVE  Accounted'
<1> SUFFICES ASSUME NEW o \in Versions, schema'[o] # Absent
             PROVE  \E n \in Catalog :
                      /\ o \in Objects(n)
                      /\ n.version \in Completed(events') \/ inflight'[n.version] # NoMarker
  BY DEF Accounted, Objects
<1>1. CASE o \in Objects(m)
  BY <1>1, CatalogType DEF LeavesSound
<1>2. CASE o \notin Objects(m)
  <2>1. PICK n \in Catalog : /\ o \in Objects(n)
                             /\ n.version \in Completed(events) \/ inflight[n.version] # NoMarker
    BY <1>2 DEF Accounted, About
  <2>2. n.version # m.version
    BY <1>2, <2>1, SameObjects
  <2> QED
    BY <2>1, <2>2, CatalogType DEF About
<1> QED
  BY <1>1, <1>2

LEMMA HalfBuiltSound ==
  ASSUME ScopesKept, TwoPhaseAlone, Typed, MarkersKnown, HalfBuilt,
         NEW m \in Catalog, About(m), LeavesSound(m)
  PROVE  HalfBuilt'
<1> SUFFICES ASSUME NEW a \in Catalog, inflight'[a.version] = a.checksum,
                    a.version \notin Completed(events')
             PROVE  \A o \in Objects(a) : schema'[o] \in {Absent, Torn, a.checksum}
  BY DEF HalfBuilt, Recorded, Objects
<1>1. CASE a.version = m.version
  <2>1. Objects(a) = Objects(m)
    BY <1>1, SameObjects
  <2>2. inflight'[m.version] = m.checksum => a = m
    BY <1>1
  <2> QED
    BY <1>1, <2>1, <2>2 DEF LeavesSound
<1>2. CASE a.version # m.version
  <2>1. Recorded(a) /\ a.version \notin Completed(events)
    BY <1>2, CatalogType DEF About, Recorded
  <2>2. TwoPhase(a)
    BY <2>1, RecordedKnown
  <2>3. Objects(a) \cap Objects(m) = {} /\ Objects(a) \subseteq Versions
    BY <1>2, <2>2, CatalogType DEF TwoPhaseAlone
  <2>4. \A o \in Objects(a) : schema[o] \in {Absent, Torn, a.checksum}
    BY <2>1 DEF HalfBuilt
  <2> QED
    BY <2>3, <2>4 DEF About
<1> QED
  BY <1>1, <1>2

LEMMA NoDoubleSound ==
  ASSUME NoDoubleApply, NEW m \in Catalog, About(m), LeavesSound(m)
  PROVE  NoDoubleApply'
<1> SUFFICES ASSUME NEW o \in Versions PROVE schema'[o] # Doubled
  BY DEF NoDoubleApply, Doubled
<1> QED
  BY DEF NoDoubleApply, About, LeavesSound

\* Together, with what each of them needs.
Sound ==
  /\ RowsKnown
  /\ MarkersKnown
  /\ UpsKept
  /\ DownDone
  /\ Accounted
  /\ HalfBuilt
  /\ NoDoubleApply

LEMMA SoundStep ==
  /\ TidyCatalog /\ OpsTyped /\ Locked /\ PlansKept /\ PlansKept' /\ UnwindsKept
  /\ Sound /\ [OperationsNext]_allVars
  => Sound'
<1> SUFFICES ASSUME TidyCatalog, OpsTyped, Locked, PlansKept, PlansKept', UnwindsKept, Sound,
                    [OperationsNext]_allVars
             PROVE  Sound'
  OBVIOUS
<1>1. /\ ScopesKept /\ TwoPhaseAlone /\ BaselinesPlain /\ RowsKnown /\ MarkersKnown /\ UpsKept
      /\ DownDone /\ Accounted /\ HalfBuilt /\ NoDoubleApply /\ Typed
  BY DEF TidyCatalog, Sound, OpsTyped, RollbackTypeOK
<1>2. RowsKnown' /\ MarkersKnown' /\ UpsKept' /\ DownDone'
  BY <1>1, RowsStep, MarkersKnownStep, UpsStep, DownDoneStep
<1>3. ASSUME UNCHANGED <<events, inflight, schema>>
      PROVE  Accounted' /\ HalfBuilt' /\ NoDoubleApply'
  BY <1>1, <1>3 DEF Accounted, HalfBuilt, NoDoubleApply, Recorded, Objects, Doubled
<1>4. ASSUME NEW m \in Catalog, About(m), LeavesSound(m)
      PROVE  Accounted' /\ HalfBuilt' /\ NoDoubleApply'
  BY <1>1, <1>4, AccountedSound, HalfBuiltSound, NoDoubleSound
<1>5. Accounted' /\ HalfBuilt' /\ NoDoubleApply'
  BY <1>1, <1>3, <1>4, EverySound
<1> QED
  BY <1>2, <1>5 DEF Sound

LEMMA SoundInit == RollbackInit => Sound
<1> SUFFICES ASSUME RollbackInit PROVE Sound
  OBVIOUS
<1>1. /\ events = <<>> /\ inflight = [v \in Versions |-> NoMarker]
      /\ schema = [v \in Versions |-> Absent]
      /\ pc = [d \in Deployers |-> "idle"] /\ todo = [d \in Deployers |-> {}]
      /\ opc = [o \in Operators |-> "idle"]
  BY DEF RollbackInit, Init
<1>2. \A v \in Versions : inflight[v] = NoMarker
  BY <1>1
<1>3. RowsKnown /\ MarkersKnown
  <2>1. NetApplied(events) = {}
    BY <1>1, CompletedEmpty DEF Completed
  <2> QED
    BY <1>2, <2>1 DEF RowsKnown, MarkersKnown
<1>4. UpsKept /\ DownDone
  BY <1>1 DEF UpsKept, UpKept, Apart, Snapshot, Building, DownDone
<1>5. Accounted /\ HalfBuilt /\ NoDoubleApply
  <2>1. \A a \in Catalog : ~Recorded(a)
    BY <1>2, CatalogType DEF Recorded
  <2>2. Absent # Doubled
    BY DEF Absent, Doubled
  <2> QED
    BY <1>1, <2>1, <2>2 DEF Accounted, HalfBuilt, NoDoubleApply
<1> QED
  BY <1>3, <1>4, <1>5 DEF Sound

LEMMA SoundAlways == TidyCatalog /\ OperationsSpec => []Sound
<1>. SUFFICES ASSUME TidyCatalog PROVE OperationsSpec => []Sound
  OBVIOUS
<1>1. OpsTyped /\ Locked /\ PlansKept /\ PlansKept' /\ UnwindsKept /\ Sound /\ [OperationsNext]_allVars
      => Sound'
  BY SoundStep
<1> QED
  BY <1>1, SoundInit, OpsTypeInvariant, LockedInvariant, PlansInvariant, UnwindsInvariant, PTL
     DEF OperationsSpec

\* Accounted holds beside rollbacks, squashes, baselines and recoveries as it does of deploys
\* alone: whatever stops where, an object that is there is a net-applied migration's or a marked
\* one's (the markers of apply_two_phase and rollback_one_mysql, the checks of recover_inflight_ddl).
THEOREM ObjectsAccounted == TidyCatalog /\ OperationsSpec => []Accounted
<1>. SUFFICES ASSUME TidyCatalog PROVE OperationsSpec => []Accounted
  OBVIOUS
<1>1. Sound => Accounted
  BY DEF Sound
<1> QED
  BY <1>1, SoundAlways, PTL

\* No `up` that is not replay-safe runs over its own objects (execute_pending's refusals, the
\* non-transactional recovery, check_squash_all_or_none).
THEOREM NeverDoubled == TidyCatalog /\ OperationsSpec => []NoDoubleApply
<1>. SUFFICES ASSUME TidyCatalog PROVE OperationsSpec => []NoDoubleApply
  OBVIOUS
<1>1. Sound => NoDoubleApply
  BY DEF Sound
<1> QED
  BY <1>1, SoundAlways, PTL

\* A squash's own version is not an object.
LEMMA SquashIsNoObject ==
  ASSUME ScopesKept, SquashesFlat, Accounted, NEW a \in Catalog, a.supersedes # {}
  PROVE  schema[a.version] = Absent
<1> SUFFICES ASSUME schema[a.version] # Absent PROVE FALSE
  OBVIOUS
<1>1. PICK n \in Catalog : a.version \in Objects(n)
  BY CatalogType DEF Accounted
<1>2. CASE n.supersedes = {}
  BY <1>1, <1>2 DEF Objects, ScopesKept
<1>3. CASE n.supersedes # {}
  BY <1>1, <1>3 DEF Objects, SquashesFlat
<1> QED
  BY <1>2, <1>3

\* An armed version that is not journaled is not there, torn, or the marker's own body: no other
\* body is run under the marker, by whoever comes back to it (execute_pending's comparison of the
\* marker's checksum, record_started's ON CONFLICT DO NOTHING, MySQL's refusal to re-arm).
THEOREM MarkersNameBodies == TidyCatalog /\ OperationsSpec => []MarkerNamesBody
<1>. SUFFICES ASSUME TidyCatalog PROVE OperationsSpec => []MarkerNamesBody
  OBVIOUS
<1>1. ASSUME Sound, NEW v \in Versions, inflight[v] # NoMarker, v \notin Completed(events)
      PROVE  schema[v] \in {Absent, Torn, inflight[v]}
  <2>1. PICK a \in Catalog : a.version = v /\ Recorded(a)
    BY <1>1 DEF Sound, MarkersKnown
  <2>2. inflight[v] = a.checksum /\ \A o \in Objects(a) : schema[o] \in {Absent, Torn, a.checksum}
    BY <1>1, <2>1 DEF Sound, HalfBuilt, Recorded
  <2>3. CASE a.supersedes = {}
    BY <2>1, <2>2, <2>3 DEF Objects
  <2>4. CASE a.supersedes # {}
    BY <1>1, <2>1, <2>4, SquashIsNoObject DEF TidyCatalog, Sound
  <2> QED
    BY <2>3, <2>4
<1>2. Sound => MarkerNamesBody
  BY <1>1 DEF MarkerNamesBody
<1> QED
  BY <1>2, SoundAlways, PTL
=============================================================================
