---------------------------- MODULE Ledger_proofs ----------------------------
(***************************************************************************)
(* Deploys, rollbacks, squashes, baselines and recoveries implement        *)
(* Ledger: behind its markers a migration takes effect in one step.        *)
(***************************************************************************)
EXTENDS Objects_proofs

USE VersionsAssumption, NoMarkerAssumption, CatalogAssumption, ManifestsAssumption,
    BackendAssumption, BoundsAssumption, NoOwnerAssumption, OperatorsAssumption,
    RequestsAssumption, RepairsAssumption, AdoptableAssumption, ShapesAssumption

-----------------------------------------------------------------------------
(* What the rows and the markers make of an object.                        *)

\* Only MySQL marks a `down`.
DownsMarked == rbInflight # {} => Backend = "mysql"

LEMMA DownsMarkedStep ==
  DownsMarked /\ [OperationsNext]_allVars => DownsMarked'
<1> SUFFICES ASSUME DownsMarked, [OperationsNext]_allVars, Backend # "mysql"
             PROVE  rbInflight' = {}
  BY DEF DownsMarked
<1>1. rbInflight = {}
  BY DEF DownsMarked
<1>2. UNCHANGED database => UNCHANGED rbInflight
  BY DEF database, journal
<1>3. ASSUME NEW d \in Deployers, NEW m \in todo[d], Writes(d, m) PROVE UNCHANGED rbInflight
  BY <1>3 DEF Writes, LandSatisfied, Arm, CommitUp, RunUp, Finalize, Land, journal
<1>4. ASSUME NEW o \in Operators, Unwinds(o) \/ HalfUnwinds(o) PROVE rbInflight' \subseteq rbInflight
  BY <1>4 DEF Unwinds, HalfUnwinds, RollbackOne, MarkDown, RunDown, FinalizeDown, journal
<1>5. ASSUME NEW m \in Catalog, OperatorStep(m) PROVE rbInflight' \subseteq rbInflight
  BY <1>5 DEF OperatorStep, RecordSquash, Baseline, MarkApplied, ClearForRetry, SettleHalfReverted
<1> QED
  BY <1>1, <1>2, <1>3, <1>4, <1>5, Changes DEF Stops, journal

\* The body of the net-applied row, or nothing.
LEMMA ShapeOfRow ==
  Typed => /\ \A e \in NetApplied(events) : ShapeBefore(e.version) = e.checksum
           /\ \A v \in Versions \ Completed(events) : ShapeBefore(v) = Absent
<1> SUFFICES ASSUME Typed
             PROVE  /\ \A e \in NetApplied(events) : ShapeBefore(e.version) = e.checksum
                    /\ \A v \in Versions \ Completed(events) : ShapeBefore(v) = Absent
  OBVIOUS
<1>1. ASSUME NEW e \in NetApplied(events) PROVE ShapeBefore(e.version) = e.checksum
  <2>1. \A f \in NetApplied(events) : f.version = e.version => f = e
    BY NetAppliedRow DEF Typed
  <2> QED
    BY <2>1 DEF ShapeBefore
<1> QED
  BY <1>1, ShapeKnown

\* Whatever is in doubt runs in two phases, under its version.
LEMMA DoubtIsTwoPhase ==
  ASSUME Typed, MarkersKnown, DownsMarked, NEW m \in Catalog, InDoubt(m)
  PROVE  \E a \in Catalog : a.version = m.version /\ TwoPhase(a)
<1>1. CASE inflight[m.version] # NoMarker
  BY <1>1, CatalogType DEF MarkersKnown
<1>2. CASE m.version \in rbInflight
  BY <1>2 DEF DownsMarked, TwoPhase
<1> QED
  BY <1>1, <1>2 DEF InDoubt

\* Artifacts that share an object with what is in doubt are of its version.
LEMMA DoubtAlone ==
  ASSUME ScopesKept, TwoPhaseAlone, Typed, MarkersKnown, DownsMarked,
         NEW m \in Catalog, InDoubt(m), NEW n \in Catalog, Objects(m) \cap Objects(n) # {}
  PROVE  n.version = m.version
<1>1. PICK a \in Catalog : a.version = m.version /\ TwoPhase(a)
  BY DoubtIsTwoPhase
<1>2. Objects(a) = Objects(m)
  BY <1>1, SameObjects
<1> QED
  BY <1>1, <1>2 DEF TwoPhaseAlone

\* What is believed of an object of m.
LEMMA BelievedObject ==
  ScopesKept /\ TwoPhaseAlone /\ Typed /\ MarkersKnown /\ DownsMarked =>
    \A m \in Catalog : \A o \in Objects(m) :
      Believed[o] = IF InDoubt(m) THEN ShapeBefore(m.version) ELSE schema[o]
<1> SUFFICES ASSUME ScopesKept, TwoPhaseAlone, Typed, MarkersKnown, DownsMarked,
                    NEW m \in Catalog, NEW o \in Objects(m)
             PROVE  Believed[o] = IF InDoubt(m) THEN ShapeBefore(m.version) ELSE schema[o]
  OBVIOUS
<1> DEFINE Doubted(n) == o \in Objects(n) /\ InDoubt(n)
<1>1. o \in Versions
  BY CatalogType
<1>2. Believed[o] = IF \E n \in Catalog : Doubted(n)
                      THEN ShapeBefore((CHOOSE n \in Catalog : Doubted(n)).version)
                      ELSE schema[o]
  BY <1>1 DEF Believed
<1>3. \A n \in Catalog : Doubted(n) => n.version = m.version /\ (InDoubt(n) <=> InDoubt(m))
  BY DoubtAlone DEF InDoubt
<1>4. CASE InDoubt(m)
  <2>1. Doubted(m)
    BY <1>4
  <2>2. PICK n \in Catalog : n = (CHOOSE x \in Catalog : Doubted(x)) /\ Doubted(n)
    BY <2>1
  <2> HIDE DEF Doubted
  <2> QED
    BY <1>2, <1>3, <1>4, <2>1, <2>2
<1>5. CASE ~InDoubt(m)
  <2>1. ~\E n \in Catalog : Doubted(n)
    BY <1>3, <1>5
  <2> HIDE DEF Doubted
  <2> QED
    BY <1>2, <1>5, <2>1
<1> QED
  BY <1>4, <1>5

\* What nothing builds is believed to be what it is.
LEMMA BelievedOther ==
  ASSUME NEW o \in Versions, \A n \in Catalog : o \notin Objects(n)
  PROVE  Believed[o] = schema[o]
  BY DEF Believed

\* The same after a step.
LEMMA ShapeOfRowNext ==
  Typed' => /\ \A e \in NetApplied(events') : ShapeBefore(e.version)' = e.checksum
            /\ \A v \in Versions \ Completed(events') : ShapeBefore(v)' = Absent
<1>1. Typed' => (/\ \A e \in NetApplied(events) : ShapeBefore(e.version) = e.checksum
                 /\ \A v \in Versions \ Completed(events) : ShapeBefore(v) = Absent)'
  BY ShapeOfRow, PTL
<1> QED
  BY <1>1

LEMMA BelievedObjectNext ==
  ScopesKept /\ TwoPhaseAlone => (Typed' /\ MarkersKnown' /\ DownsMarked' =>
    \A m \in Catalog : \A o \in Objects(m) :
      Believed'[o] = IF InDoubt(m)' THEN ShapeBefore(m.version)' ELSE schema'[o])
<1> DEFINE Said == \A n \in Catalog : \A x \in Objects(n) :
                     Believed[x] = IF InDoubt(n) THEN ShapeBefore(n.version) ELSE schema[x]
<1>. SUFFICES ASSUME ScopesKept, TwoPhaseAlone
              PROVE  Typed' /\ MarkersKnown' /\ DownsMarked' =>
                       \A m \in Catalog : \A o \in Objects(m) :
                         Believed'[o] = IF InDoubt(m)' THEN ShapeBefore(m.version)' ELSE schema'[o]
  OBVIOUS
<1>1. Typed /\ MarkersKnown /\ DownsMarked => Said
  BY BelievedObject
<1> HIDE DEF Said
<1>2. Typed' /\ MarkersKnown' /\ DownsMarked' => Said'
  BY <1>1, PTL
<1> QED
  BY <1>2 DEF Said, Objects

LEMMA BelievedOtherNext ==
  ASSUME NEW o \in Versions, \A n \in Catalog : o \notin Objects(n)
  PROVE  Believed'[o] = schema'[o]
<1>1. \A n \in Catalog : o \notin Objects(n)'
  BY DEF Objects
<1> QED
  BY <1>1 DEF Believed

-----------------------------------------------------------------------------
(* A step leaves what it is not about.                                     *)

\* Beyond About: the marker of a `down`, and one row at most, of the artifact's version.
Touches(m) ==
  /\ \A v \in Versions \ Objects(m) : schema'[v] = schema[v]
  /\ \A v \in Versions \ {m.version} :
       inflight'[v] = inflight[v] /\ (v \in rbInflight' <=> v \in rbInflight)
  /\ \/ UNCHANGED events
     \/ \E e \in Event : e.version = m.version /\ events' = Append(events, e)

\* The rows of other versions.
LEMMA TouchesRows ==
  ASSUME Typed, NEW m \in Catalog, Touches(m)
  PROVE  \A e \in Event : e.version # m.version =>
           (e \in NetApplied(events') <=> e \in NetApplied(events))
<1>1. ASSUME NEW f \in Event, f.version = m.version, events' = Append(events, f),
             NEW e \in Event, e.version # m.version
      PROVE  e \in NetApplied(events') <=> e \in NetApplied(events)
  <2>1. f.event \in {"applied", "rolled_back"}
    BY DEF Event
  <2>2. \/ NetApplied(events') = {x \in NetApplied(events) : x.version # f.version} \cup {f}
        \/ NetApplied(events') = {x \in NetApplied(events) : x.version # f.version}
    BY <1>1, <2>1, NetAppliedAppend, NetAppliedUnwind DEF Typed
  <2> QED
    BY <1>1, <2>2
<1> QED
  BY <1>1 DEF Touches

LEMMA TouchesShape ==
  ASSUME Typed, Typed', NEW m \in Catalog, Touches(m), NEW v \in Versions, v # m.version
  PROVE  ShapeBefore(v)' = ShapeBefore(v)
<1>1. NetApplied(events) \subseteq Event /\ NetApplied(events') \subseteq Event
  BY NetAppliedRow DEF Typed
<1>2. CASE v \in Completed(events)
  <2>1. PICK e \in NetApplied(events) : e.version = v
    BY <1>2 DEF Completed
  <2>2. e \in NetApplied(events')
    BY <1>1, <2>1, TouchesRows
  <2> QED
    BY <2>1, <2>2, ShapeOfRow, ShapeOfRowNext
<1>3. CASE v \notin Completed(events)
  <2>1. v \notin Completed(events')
    <3>1. \A e \in NetApplied(events') : e.version # v
      BY <1>1, <1>3, TouchesRows DEF Completed
    <3> QED
      BY <3>1 DEF Completed
  <2> QED
    BY <1>3, <2>1, ShapeOfRow, ShapeOfRowNext
<1> QED
  BY <1>2, <1>3

\* What is believed of the objects it is not about.
LEMMA BelievedElsewhere ==
  ASSUME ScopesKept, TwoPhaseAlone, Typed, Typed', MarkersKnown, MarkersKnown',
         DownsMarked, DownsMarked', NEW m \in Catalog, Touches(m), NEW o \in Versions \ Objects(m)
  PROVE  Believed'[o] = Believed[o]
<1>1. schema'[o] = schema[o]
  BY DEF Touches
<1>2. ASSUME NEW n \in Catalog, o \in Objects(n) PROVE Believed'[o] = Believed[o]
  <2>1. n.version # m.version /\ n.version \in Versions
    BY <1>2, SameObjects, CatalogType
  <2>2. (InDoubt(n)' <=> InDoubt(n)) /\ ShapeBefore(n.version)' = ShapeBefore(n.version)
    <3>1. inflight'[n.version] = inflight[n.version] /\ (n.version \in rbInflight' <=> n.version \in rbInflight)
      BY <2>1 DEF Touches
    <3> QED
      BY <2>1, <3>1, TouchesShape DEF InDoubt
  <2>3. Believed[o] = IF InDoubt(n) THEN ShapeBefore(n.version) ELSE schema[o]
    BY <1>2, BelievedObject
  <2>4. Believed'[o] = IF InDoubt(n)' THEN ShapeBefore(n.version)' ELSE schema'[o]
    BY <1>2, BelievedObjectNext
  <2> QED
    BY <1>1, <2>2, <2>3, <2>4
<1>3. ASSUME \A n \in Catalog : o \notin Objects(n) PROVE Believed'[o] = Believed[o]
  BY <1>1, <1>3, BelievedOther, BelievedOtherNext
<1> QED
  BY <1>2, <1>3

-----------------------------------------------------------------------------
(* What the ledger sees of a step.                                         *)

\* What the reading of the ledger asks of a state.
Readable == Typed /\ MarkersKnown /\ DownsMarked

\* The ledger reads the journal as the executor does.
LEMMA SameReading ==
  /\ L!Completed(events) = Completed(events) /\ L!NetApplied(events) = NetApplied(events)
  /\ \A m \in Catalog : /\ L!RolledBackEvent(m) = RolledBackEvent(m) /\ L!Builds(m) = Objects(m)
                        /\ L!As(m) = KindOf(m) /\ \A k : L!AppliedEvent(m, k) = AppliedEvent(m, k)
<1>1. L!Latest(events) = Latest(events)
  BY DEF L!Latest, Latest
<1>2. L!NetApplied(events) = NetApplied(events)
  BY <1>1 DEF L!NetApplied, NetApplied
<1>3. L!Completed(events) = Completed(events)
  BY <1>2 DEF L!Completed, Completed
<1> QED
  BY <1>2, <1>3 DEF L!RolledBackEvent, RolledBackEvent, L!AppliedEvent, AppliedEvent, L!Builds, Objects,
                    L!As, KindOf

LEMMA Stutters ==
  ASSUME ScopesKept, TwoPhaseAlone, Readable, Readable', NEW m \in Catalog, Touches(m),
         \A o \in Objects(m) : Believed'[o] = Believed[o]
  PROVE  UNCHANGED Believed
<1>1. \A o \in Versions : Believed'[o] = Believed[o]
  BY BelievedElsewhere DEF Readable
<1>2. Believed = [o \in Versions |-> Believed[o]] /\ Believed' = [o \in Versions |-> Believed'[o]]
  BY DEF Believed
<1> QED
  BY <1>1, <1>2

LEMMA Becomes ==
  ASSUME ScopesKept, TwoPhaseAlone, Readable, Readable', NEW m \in Catalog, Touches(m),
         NEW body, \A o \in Objects(m) : Believed'[o] = body
  PROVE  L!Become(m, body)
<1>1. \A o \in Versions : Believed'[o] = IF o \in Objects(m) THEN body ELSE Believed[o]
  BY BelievedElsewhere DEF Readable
<1>2. Believed' = [o \in Versions |-> Believed'[o]]
  BY DEF Believed
<1> QED
  BY <1>1, <1>2, SameReading DEF L!Become

\* The row of a step that takes effect.
LEMMA AppliedRow ==
  ASSUME Typed, Typed', NEW m \in Catalog, NEW k \in Kinds, events' = Append(events, AppliedEvent(m, k))
  PROVE  /\ \E e \in Event : e.version = m.version /\ events' = Append(events, e)
         /\ ShapeBefore(m.version)' = m.checksum
<1> DEFINE row == AppliedEvent(m, k)
<1>1. row \in Event /\ row.event = "applied" /\ row.version = m.version /\ row.checksum = m.checksum
  BY CatalogType DEF AppliedEvent, Event
<1>2. row \in NetApplied(events')
  BY <1>1, NetAppliedAppend DEF Typed
<1> HIDE DEF row
<1>3. ShapeBefore(row.version)' = row.checksum
  BY <1>2, ShapeOfRowNext
<1> QED
  BY <1>1, <1>3 DEF row

\* An `up`, an adoption or a recovery that is journaled: whether a marker is left or not, the
\* objects are believed to be the body's.
LEMMA TakesEffect ==
  ASSUME ScopesKept, TwoPhaseAlone, Readable, Readable', NEW m \in Catalog, NEW k \in Kinds,
         events' = Append(events, AppliedEvent(m, k)), UNCHANGED rbInflight,
         UNCHANGED inflight \/ inflight' = [inflight EXCEPT ![m.version] = NoMarker],
         \A v \in Versions \ Objects(m) : schema'[v] = schema[v],
         \A o \in Objects(m) : schema'[o] = m.checksum
  PROVE  Touches(m) /\ L!Become(m, m.checksum)
<1>0. Typed /\ Typed' /\ MarkersKnown' /\ DownsMarked'
  BY DEF Readable
<1>1. /\ \E e \in Event : e.version = m.version /\ events' = Append(events, e)
      /\ ShapeBefore(m.version)' = m.checksum
  BY <1>0, AppliedRow
<1>2. Touches(m)
  BY <1>0, <1>1 DEF Touches, Typed
<1>3. \A o \in Objects(m) : Believed'[o] = m.checksum
  BY <1>0, <1>1, BelievedObjectNext
<1> QED
  BY <1>2, <1>3, Becomes

\* A deployer's row finds the objects of its body, or makes them.
LEMMA LandShape ==
  ASSUME Typed, NEW d \in Deployers, PlanKept(d), Building(d), NEW m \in todo[d],
         LandSatisfied(d, m) \/ CommitUp(d, m) \/ Finalize(d, m)
  PROVE  /\ m \in Catalog /\ Land(d, m)
         /\ \A v \in Versions \ Objects(m) : schema'[v] = schema[v]
         /\ \A o \in Objects(m) : schema'[o] = m.checksum
<1>1. /\ m \in Catalog /\ Land(d, m) /\ Objects(m) \subseteq Versions
      /\ PlanKept(d)
  BY CatalogType DEF LandSatisfied, CommitUp, Finalize, Typed
<1>2. \A v \in Versions \ Objects(m) : schema'[v] = schema[v]
  BY DEF LandSatisfied, CommitUp, Finalize, AfterUp
<1>3. ASSUME NEW o \in Objects(m) PROVE schema'[o] = m.checksum
  <2>1. CASE LandSatisfied(d, m)
    <3>1. "noop" \in Probe(m) /\ UNCHANGED schema
      BY <2>1 DEF LandSatisfied
    <3>2. {schema[x] : x \in Objects(m)} = {m.checksum}
      BY <3>1 DEF Probe
    <3> QED
      BY <3>1, <3>2
  <2>2. CASE CommitUp(d, m)
    <3>1. /\ pc[d] = "up" /\ First(m, todo[d]) /\ ~TwoPhase(m) /\ schema' = AfterUp(m)
      BY <2>2 DEF CommitUp, Goto
    <3>2. schema[o] = Absent \/ m.repeatable
      BY <3>1 DEF Building, PlanKept, Typed
    <3> QED
      BY <1>1, <3>1, <3>2 DEF AfterUp, Built
  <2>3. CASE Finalize(d, m)
    BY <2>3 DEF Finalize, Goto, Building
  <2> QED
    BY <2>1, <2>2, <2>3
<1> QED
  BY <1>1, <1>2, <1>3

LEMMA LandApply ==
  ASSUME ScopesKept, TwoPhaseAlone, Readable, Readable',
         NEW d \in Deployers, PlanKept(d), Building(d), NEW m \in todo[d],
         LandSatisfied(d, m) \/ CommitUp(d, m) \/ Finalize(d, m)
  PROVE  m \in Catalog /\ Touches(m) /\ L!Apply(m)
<1>1. /\ m \in Catalog /\ Land(d, m) /\ KindOf(m) \in Kinds
      /\ \A v \in Versions \ Objects(m) : schema'[v] = schema[v]
      /\ \A o \in Objects(m) : schema'[o] = m.checksum
  BY LandShape, CatalogType DEF Readable, Typed
<1>2. m.repeatable \/ m.version \notin Completed(events)
  BY <1>1 DEF PlanKept, Readable, Typed
<1>3. Touches(m) /\ L!Become(m, m.checksum)
  BY <1>1, TakesEffect DEF Land
<1> QED
  BY <1>1, <1>2, <1>3, SameReading DEF L!Apply, Land

\* On MySQL what is net-applied is there, in the body that is journaled, behind the markers.
RowsTrue ==
  Backend = "mysql" => \A n \in Catalog : Journaled(n) => \A o \in Objects(n) : Believed[o] = n.checksum

\* Where nothing is in doubt that runs in two phases, the objects are the row's.
LEMMA CertainObject ==
  ASSUME TidyCatalog, Readable, Accounted, RowsKnown, RowsTrue, NEW m \in Catalog, TwoPhase(m), ~InDoubt(m),
         m.version \in Completed(events) => Backend = "mysql", NEW o \in Objects(m)
  PROVE  schema[o] = ShapeBefore(m.version)
<1>0. ScopesKept /\ TwoPhaseAlone /\ Typed /\ MarkersKnown /\ DownsMarked /\ m.version \in Versions
  BY CatalogType DEF TidyCatalog, Readable
<1>1. CASE m.version \notin Completed(events)
  <2>1. schema[o] = Absent
    BY <1>0, <1>1, NothingThere DEF InDoubt
  <2> QED
    BY <1>0, <1>1, <2>1, ShapeOfRow
<1>2. CASE m.version \in Completed(events)
  <2>1. PICK e \in NetApplied(events) : e.version = m.version
    BY <1>2 DEF Completed
  <2>2. PICK n \in Catalog : n.version = e.version /\ n.checksum = e.checksum
    BY DEF RowsKnown, KnownRow
  <2>3. Objects(n) = Objects(m) /\ Journaled(n) /\ ~InDoubt(n)
    BY <1>0, <2>1, <2>2, SameObjects DEF Journaled, InDoubt
  <2>4. Believed[o] = n.checksum /\ Believed[o] = schema[o]
    BY <1>0, <1>2, <2>3, BelievedObject DEF RowsTrue
  <2>5. ShapeBefore(m.version) = n.checksum
    BY <1>0, <2>1, <2>2, ShapeOfRow
  <2> QED
    BY <2>4, <2>5
<1> QED
  BY <1>1, <1>2

\* A step under a marker that changes no row: its objects are believed to be what they were.
LEMMA BehindMarker ==
  ASSUME TidyCatalog, Readable, Readable', Accounted, RowsKnown, RowsTrue,
         NEW m \in Catalog, TwoPhase(m), Touches(m), UNCHANGED events,
         InDoubt(m) \/ (m.version \in Completed(events) => Backend = "mysql"),
         InDoubt(m)' \/ \A o \in Objects(m) : schema'[o] = ShapeBefore(m.version)
  PROVE  UNCHANGED Believed
<1>0. ScopesKept /\ TwoPhaseAlone /\ Typed /\ MarkersKnown /\ DownsMarked
      /\ Typed' /\ MarkersKnown' /\ DownsMarked'
  BY DEF TidyCatalog, Readable
<1>1. ShapeBefore(m.version)' = ShapeBefore(m.version)
  BY DEF ShapeBefore
<1>2. \A o \in Objects(m) : Believed'[o] = ShapeBefore(m.version)
  BY <1>0, <1>1, BelievedObjectNext
<1>3. \A o \in Objects(m) : Believed[o] = ShapeBefore(m.version)
  BY <1>0, BelievedObject, CertainObject
<1> QED
  BY <1>0, <1>2, <1>3, Stutters

\* An `up` on its way.
LEMMA UpStutters ==
  ASSUME TidyCatalog, Readable, Readable', Accounted, RowsKnown, RowsTrue, HalfBuilt,
         NEW d \in Deployers, PlanKept(d), Apart(d), Snapshot(d), Building(d), NEW m \in todo[d],
         Arm(d, m) \/ RunUp(d, m)
  PROVE  UNCHANGED <<events, Believed>>
<1>0. /\ ScopesKept /\ TwoPhaseAlone /\ Typed /\ MarkersKnown /\ m \in Catalog /\ m.checksum # NoMarker
      /\ inflight \in [Versions -> Checksums \cup {NoMarker}] /\ m.version \in Versions
  BY CatalogType DEF TidyCatalog, Readable, Typed
<1>1. CASE Arm(d, m)
  <2>1. /\ inflight' = Armed(m) /\ (schema' = schema \/ schema' = Recovered(m))
        /\ UNCHANGED <<events, rbInflight>> /\ TwoPhase(m)
    BY <1>1 DEF Arm
  <2>2. inflight'[m.version] = m.checksum
    BY <1>0, <1>1, ArmBuilding DEF Recorded
  <2>3. Touches(m)
    BY <1>0, <2>1 DEF Touches, Recovered, Armed
  <2>4. m.version \in Completed(events) => Backend = "mysql"
    <3>1. m.version \in Completed(events) => m.repeatable
      BY <1>0 DEF PlanKept, Typed
    <3> QED
      BY <2>1, <3>1 DEF TwoPhase
  <2> QED
    BY <1>0, <2>1, <2>2, <2>3, <2>4, BehindMarker DEF InDoubt
<1>2. CASE RunUp(d, m)
  <2>1. UNCHANGED journal /\ schema' = AfterUp(m)
    BY <1>2 DEF RunUp
  <2>2. TwoPhase(m) /\ Recorded(m)
    BY <1>0, <1>2, UpBuilding
  <2>3. Touches(m) /\ UNCHANGED <<events, inflight>>
    BY <2>1 DEF Touches, AfterUp, journal
  <2> QED
    BY <1>0, <2>2, <2>3, BehindMarker DEF InDoubt, Recorded
<1> QED
  BY <1>1, <1>2

LEMMA StopStutters ==
  ASSUME TidyCatalog, Readable, Readable', Accounted, RowsKnown, RowsTrue,
         NEW d \in Deployers, Building(d), Stops(d)
  PROVE  UNCHANGED <<events, Believed>>
<1>1. PICK m \in todo[d] :
        /\ First(m, todo[d])
        /\ IF TwoPhase(m) THEN schema' \in Interrupted(m) ELSE UNCHANGED schema
  BY DEF Stops, StopsMidUp
<1>2. /\ m \in Catalog /\ m.checksum # NoMarker /\ pc[d] = "up"
      /\ UNCHANGED <<events, inflight, rbInflight, edges>>
  BY CatalogType DEF Stops, journal, Readable, Typed
<1>3. CASE ~TwoPhase(m)
  BY <1>1, <1>2, <1>3 DEF Believed, InDoubt, ShapeBefore
<1>4. CASE TwoPhase(m)
  <2>1. Recorded(m)
    BY <1>1, <1>2, <1>4 DEF Building
  <2>2. Touches(m)
    BY <1>1, <1>2, <1>4 DEF Touches, Interrupted
  <2> QED
    BY <1>2, <1>4, <2>1, <2>2, BehindMarker DEF InDoubt, Recorded
<1> QED
  BY <1>3, <1>4

\* A `down` takes effect with its row.
LEMMA RecordUnwinds ==
  ASSUME TidyCatalog, Readable, Readable', NEW s \in Catalog, Journaled(s),
         events' = Append(events, RolledBackEvent(s)), UNCHANGED inflight,
         rbInflight' = rbInflight \/ rbInflight' = rbInflight \ {s.version},
         \A v \in Versions \ Objects(s) : schema'[v] = schema[v],
         \A v \in Objects(s) : schema'[v] = Absent
  PROVE  Touches(s) /\ L!Unwind(s)
<1>0. ScopesKept /\ TwoPhaseAlone /\ Typed /\ Typed' /\ MarkersKnown' /\ DownsMarked' /\ s.version \in Versions
  BY CatalogType DEF TidyCatalog, Readable
<1>1. /\ RolledBackEvent(s) \in Event /\ RolledBackEvent(s).event = "rolled_back"
      /\ RolledBackEvent(s).version = s.version
  BY CatalogType DEF RolledBackEvent, Event
<1>2. Completed(events') = Completed(events) \ {s.version}
  BY <1>0, <1>1, CompletedUnwind DEF Typed
<1>3. ShapeBefore(s.version)' = Absent
  BY <1>0, <1>2, ShapeOfRowNext
<1>4. Touches(s)
  BY <1>1 DEF Touches
<1>5. \A v \in Objects(s) : Believed'[v] = Absent
  BY <1>0, <1>3, BelievedObjectNext
<1>6. L!Become(s, Absent)
  BY <1>0, <1>4, <1>5, Becomes
<1>7. L!Nothing = Absent
  BY DEF L!Nothing, Absent
<1> QED
  BY <1>4, <1>6, <1>7, SameReading DEF L!Unwind, Journaled

LEMMA UnwindLedger ==
  ASSUME TidyCatalog, OpsTyped, Readable, Readable', UnwindsKept, DownDone, Accounted, RowsKnown, RowsTrue,
         NEW o \in Operators, Unwinds(o) \/ HalfUnwinds(o)
  PROVE  UNCHANGED <<events, Believed>> \/ \E s \in Catalog : Touches(s) /\ L!Unwind(s)
<1>1. /\ steps[o] # <<>>
      /\ opc[o] \in {"down", "finalize"} => Backend = "mysql" /\ NextStep(o).version \in rbInflight
  BY DEF Unwinds, HalfUnwinds, RollbackOne, MarkDown, RunDown, FinalizeDown, Move,
         UnwindsKept, UnwindKept
<1>2. PICK s \in Catalog : s = NextStep(o) /\ Objects(s) \subseteq Versions
  BY <1>1, NextStepType, CatalogType DEF OpsTyped
<1>3. Journaled(s)
  BY <1>1, <1>2 DEF UnwindsKept, UnwindKept, NextStep, OpsTyped, RollbackTypeOK
<1>4. ASSUME schema' = Gone(s)
      PROVE  /\ \A v \in Objects(s) : schema'[v] = Absent
             /\ \A v \in Versions \ Objects(s) : schema'[v] = schema[v]
  BY <1>2, <1>4 DEF Gone
<1>5. CASE RollbackOne(o)
  <2>1. /\ events' = Append(events, RolledBackEvent(s)) /\ UNCHANGED <<inflight, rbInflight>>
        /\ schema' = Gone(s)
    BY <1>2, <1>5 DEF RollbackOne, RecordRolledBack
  <2> QED
    BY <1>2, <1>3, <1>4, <2>1, RecordUnwinds
<1>6. CASE FinalizeDown(o)
  <2>1. /\ events' = Append(events, RolledBackEvent(s)) /\ UNCHANGED <<inflight, schema>>
        /\ rbInflight' = rbInflight \ {s.version} /\ \A v \in Objects(s) : schema[v] = Absent
    BY <1>2, <1>6 DEF FinalizeDown, RecordRolledBack, Move, DownDone
  <2> QED
    BY <1>2, <1>3, <2>1, RecordUnwinds
<1>7. CASE MarkDown(o)
  <2>1. /\ Backend = "mysql" /\ rbInflight' = rbInflight \cup {s.version}
        /\ UNCHANGED <<events, inflight, schema>>
    BY <1>2, <1>7 DEF MarkDown
  <2>2. TwoPhase(s) /\ Touches(s) /\ InDoubt(s)'
    BY <2>1 DEF TwoPhase, Touches, InDoubt
  <2> QED
    BY <1>2, <2>1, <2>2, BehindMarker
<1>8. CASE RunDown(o) \/ HalfUnwinds(o)
  <2>1. Backend = "mysql" /\ s.version \in rbInflight
    BY <1>1, <1>2, <1>8 DEF RunDown, HalfUnwinds, Move
  <2>2. /\ UNCHANGED <<events, inflight, rbInflight>>
        /\ \A v \in Versions \ Objects(s) : schema'[v] = schema[v]
    BY <1>2, <1>4, <1>8 DEF RunDown, HalfUnwinds, HalfDown, journal
  <2>3. TwoPhase(s) /\ Touches(s) /\ InDoubt(s) /\ InDoubt(s)'
    BY <2>1, <2>2 DEF TwoPhase, Touches, InDoubt
  <2> QED
    BY <1>2, <2>2, <2>3, BehindMarker
<1> QED
  BY <1>5, <1>6, <1>7, <1>8 DEF Unwinds

\* A squash recorded over its history is not in doubt: what is applied is not two-phase's.
LEMMA AdoptedCertain ==
  ASSUME TidyCatalog, Readable, RowsKnown, NEW m \in Catalog, m.supersedes # {},
         m.supersedes \subseteq Completed(events)
  PROVE  ~InDoubt(m)
<1>0. ScopesKept /\ SquashesFlat /\ TwoPhaseAlone /\ Typed /\ MarkersKnown /\ DownsMarked
  BY DEF TidyCatalog, Readable
<1>1. PICK v \in m.supersedes : v \in Completed(events)
  OBVIOUS
<1>2. PICK e \in NetApplied(events) : e.version = v
  BY <1>1 DEF Completed
<1>3. PICK n \in Catalog : n.version = v
  BY <1>2 DEF RowsKnown, KnownRow
<1>4. n.supersedes = {}
  BY <1>0, <1>1, <1>3 DEF SquashesFlat
<1>5. v \in Objects(n) /\ v \in Objects(m) /\ n.version # m.version
  BY <1>0, <1>1, <1>3, <1>4 DEF Objects, ScopesKept
<1> QED
  BY <1>0, <1>5, DoubtAlone

\* What an operator does.
LEMMA OperatorLedger ==
  ASSUME TidyCatalog, HalfDownsUndone, Readable, Readable', Accounted, RowsKnown, RowsTrue,
         MarkersPend, NEW m \in Catalog, OperatorStep(m)
  PROVE  \/ UNCHANGED <<events, Believed>>
         \/ Touches(m) /\ (L!Apply(m) \/ (Backend # "mysql" /\ (L!Adopt(m) \/ L!Inherit(m))))
<1>0. /\ ScopesKept /\ TwoPhaseAlone /\ Typed /\ Typed' /\ MarkersKnown /\ DownsMarked
      /\ MarkersKnown' /\ DownsMarked'
      /\ m.version \in Versions /\ Objects(m) \subseteq Versions /\ KindOf(m) \in Kinds
      /\ "squash" \in Kinds /\ "baseline" \in Kinds /\ m.checksum # NoMarker
  BY CatalogType DEF TidyCatalog, Readable, Kinds
<1>1. CASE RecordSquash(m)
  <2>1. /\ Backend = "postgres" /\ m.supersedes # {} /\ m.version \notin Completed(events)
        /\ m.supersedes \subseteq Completed(events) /\ events' = Append(events, AppliedEvent(m, "squash"))
        /\ UNCHANGED <<inflight, rbInflight, schema>>
    BY <1>1 DEF RecordSquash
  <2>2. Touches(m)
    BY <1>0, <2>1, AppliedRow DEF Touches
  <2>3. ~InDoubt(m) /\ ~InDoubt(m)'
    BY <2>1, AdoptedCertain DEF InDoubt
  <2>4. \A o \in Objects(m) : Believed'[o] = Believed[o]
    BY <1>0, <2>1, <2>3, BelievedObject, BelievedObjectNext
  <2>5. UNCHANGED Believed
    BY <1>0, <2>2, <2>4, Stutters
  <2> QED
    BY <2>1, <2>2, <2>5, SameReading DEF L!Adopt
<1>2. CASE Baseline(m)
  <2>1. /\ Backend # "mysql" /\ Completed(events) = {}
        /\ events' = Append(events, AppliedEvent(m, "baseline")) /\ UNCHANGED <<inflight, rbInflight>>
        /\ schema' = [v \in Versions |-> IF v \in Objects(m) THEN m.checksum ELSE schema[v]]
    BY <1>2 DEF Baseline
  <2>2. Touches(m) /\ L!Become(m, m.checksum)
    BY <1>0, <2>1, TakesEffect
  <2> QED
    BY <2>1, <2>2, SameReading DEF L!Inherit
<1>3. CASE MarkApplied(m)
  <2>1. /\ Backend = "mysql" /\ Recorded(m) /\ \A v \in Objects(m) : schema[v] = inflight[m.version]
        /\ events' = Append(events, AppliedEvent(m, KindOf(m)))
        /\ inflight' = [inflight EXCEPT ![m.version] = NoMarker] /\ UNCHANGED <<rbInflight, schema>>
    BY <1>3 DEF MarkApplied
  <2>2. Touches(m) /\ L!Become(m, m.checksum)
    BY <1>0, <2>1, TakesEffect DEF Recorded
  <2>3. m.repeatable \/ m.version \notin Completed(events)
    BY <2>1 DEF MarkersPend
  <2> QED
    BY <2>1, <2>2, <2>3, SameReading DEF L!Apply
<1>4. ASSUME schema' = Restored(m)
      PROVE  /\ \A v \in Objects(m) : schema'[v] = ShapeBefore(m.version)
             /\ \A v \in Versions \ Objects(m) : schema'[v] = schema[v]
  BY <1>0, <1>4 DEF Restored
<1>5. CASE ClearForRetry(m) \/ SettleHalfReverted(m)
  <2>1. /\ InDoubt(m) /\ schema' = Restored(m) /\ UNCHANGED events
        /\ \A v \in Versions \ {m.version} :
             inflight'[v] = inflight[v] /\ (v \in rbInflight' <=> v \in rbInflight)
    BY <1>0, <1>5 DEF ClearForRetry, SettleHalfReverted, InDoubt, Recorded, HalfDownsUndone, Typed
  <2>2. Touches(m)
    BY <1>4, <2>1 DEF Touches
  <2>3. ShapeBefore(m.version)' = ShapeBefore(m.version)
    BY <2>1 DEF ShapeBefore
  <2>4. \A o \in Objects(m) : Believed'[o] = Believed[o]
    BY <1>0, <1>4, <2>1, <2>3, BelievedObject, BelievedObjectNext
  <2> QED
    BY <1>0, <2>1, <2>2, <2>4, Stutters
<1> QED
  BY <1>1, <1>2, <1>3, <1>5 DEF OperatorStep

\* Every step is a step of the ledger, or none.
LEMMA EveryLedger ==
  ASSUME TidyCatalog, HalfDownsUndone, OpsTyped, PlansKept, UnwindsKept, Sound, MarkersPend, RowsTrue,
         Readable, Readable', [OperationsNext]_allVars
  PROVE  \/ UNCHANGED <<events, Believed>>
         \/ \E m \in Catalog : /\ Touches(m)
                               /\ \/ L!Apply(m)
                                  \/ L!Unwind(m)
                                  \/ Backend # "mysql" /\ (L!Adopt(m) \/ L!Inherit(m))
<1>0. ScopesKept /\ TwoPhaseAlone /\ RowsKnown /\ Accounted /\ HalfBuilt /\ DownDone
  BY DEF TidyCatalog, Sound
<1>1. UNCHANGED database => UNCHANGED <<events, Believed>>
  BY DEF database, journal, Believed, InDoubt, ShapeBefore
<1>2. ASSUME NEW d \in Deployers PROVE PlanKept(d) /\ Apart(d) /\ Snapshot(d) /\ Building(d)
  BY DEF PlansKept, Sound, UpsKept, UpKept
<1>3. ASSUME NEW d \in Deployers, Stops(d) PROVE UNCHANGED <<events, Believed>>
  BY <1>0, <1>2, <1>3, StopStutters
<1>4. ASSUME NEW d \in Deployers, NEW m \in todo[d], Writes(d, m)
      PROVE  UNCHANGED <<events, Believed>> \/ (m \in Catalog /\ Touches(m) /\ L!Apply(m))
  <2>1. CASE Arm(d, m) \/ RunUp(d, m)
    BY <1>0, <1>2, <2>1, UpStutters
  <2>2. CASE LandSatisfied(d, m) \/ CommitUp(d, m) \/ Finalize(d, m)
    BY <1>0, <1>2, <2>2, LandApply
  <2> QED
    BY <1>4, <2>1, <2>2 DEF Writes
<1>5. ASSUME NEW o \in Operators, Unwinds(o) \/ HalfUnwinds(o)
      PROVE  UNCHANGED <<events, Believed>> \/ \E s \in Catalog : Touches(s) /\ L!Unwind(s)
  BY <1>0, <1>5, UnwindLedger
<1>6. ASSUME NEW m \in Catalog, OperatorStep(m)
      PROVE  \/ UNCHANGED <<events, Believed>>
             \/ Touches(m) /\ (L!Apply(m) \/ (Backend # "mysql" /\ (L!Adopt(m) \/ L!Inherit(m))))
  BY <1>0, <1>6, OperatorLedger
<1> QED
  BY <1>1, <1>3, <1>4, <1>5, <1>6, Changes

-----------------------------------------------------------------------------
(* What the ledger says on MySQL.                                          *)

LEMMA RowsTrueStep ==
  ASSUME TidyCatalog, Readable, Readable', RowsTrue, Backend = "mysql",
         NEW m \in Catalog, Touches(m), L!Apply(m) \/ L!Unwind(m),
         NEW n \in Catalog, NEW e \in NetApplied(events'),
         e.version = n.version, e.checksum = n.checksum
  PROVE  \A o \in Objects(n) : Believed'[o] = n.checksum
<1>0. /\ ScopesKept /\ TwoPhaseAlone /\ Typed /\ Typed' /\ MarkersKnown /\ DownsMarked
      /\ MarkersKnown' /\ DownsMarked' /\ Objects(n) \subseteq Versions /\ Objects(m) \subseteq Versions
      /\ KindOf(m) \in Kinds
  BY CatalogType DEF TidyCatalog, Readable
<1>1. e \in Event
  BY <1>0, NetAppliedRow DEF Typed
<1>2. CASE n.version # m.version
  <2>1. Journaled(n)
    BY <1>0, <1>1, <1>2, TouchesRows DEF Journaled
  <2>2. Objects(n) \cap Objects(m) = {}
    BY <1>0, <1>2 DEF TwoPhaseAlone, TwoPhase
  <2>3. \A o \in Objects(n) : Believed'[o] = Believed[o]
    BY <1>0, <2>2, BelievedElsewhere
  <2> QED
    BY <2>1, <2>3 DEF RowsTrue
<1>3. CASE n.version = m.version
  <2>1. CASE L!Apply(m)
    <3>1. events' = Append(events, AppliedEvent(m, KindOf(m))) /\ L!Become(m, m.checksum)
      BY <2>1, SameReading DEF L!Apply
    <3>2. ShapeBefore(m.version)' = m.checksum
      BY <1>0, <3>1, AppliedRow
    <3>3. ShapeBefore(e.version)' = e.checksum
      BY <1>0, ShapeOfRowNext
    <3>4. n = m
      BY <1>3, <3>2, <3>3
    <3> QED
      BY <1>0, <3>1, <3>4, SameReading DEF L!Become
  <2>2. CASE L!Unwind(m)
    <3>1. events' = Append(events, RolledBackEvent(m))
      BY <2>2, SameReading DEF L!Unwind
    <3>2. /\ RolledBackEvent(m) \in Event /\ RolledBackEvent(m).event = "rolled_back"
          /\ RolledBackEvent(m).version = m.version
      BY CatalogType DEF RolledBackEvent, Event
    <3>3. e.version # m.version
      BY <1>0, <3>1, <3>2, NetAppliedUnwind DEF Typed
    <3> QED
      BY <1>3, <3>3
  <2> QED
    BY <2>1, <2>2
<1> QED
  BY <1>2, <1>3

\* The invariant the refinement rests on.
LedgerSound == Sound /\ DownsMarked /\ RowsTrue

LEMMA LedgerSoundStep ==
  /\ TidyCatalog /\ HalfDownsUndone /\ OpsTyped /\ OpsTyped' /\ Locked /\ PlansKept /\ PlansKept'
  /\ UnwindsKept /\ MarkersPend /\ LedgerSound /\ [OperationsNext]_allVars
  => LedgerSound' /\ (UNCHANGED <<events, Believed>> \/ L!Next)
<1> SUFFICES ASSUME TidyCatalog, HalfDownsUndone, OpsTyped, OpsTyped', Locked, PlansKept, PlansKept',
                    UnwindsKept, MarkersPend, LedgerSound, [OperationsNext]_allVars
             PROVE  LedgerSound' /\ (UNCHANGED <<events, Believed>> \/ L!Next)
  OBVIOUS
<1>1. Sound /\ DownsMarked /\ RowsTrue
  BY DEF LedgerSound
<1>2. Sound' /\ DownsMarked'
  BY <1>1, SoundStep, DownsMarkedStep
<1>3. Readable /\ Readable'
  BY <1>1, <1>2 DEF Readable, Sound, OpsTyped, RollbackTypeOK
<1>4. \/ UNCHANGED <<events, Believed>>
      \/ \E m \in Catalog : /\ Touches(m)
                            /\ \/ L!Apply(m)
                               \/ L!Unwind(m)
                               \/ Backend # "mysql" /\ (L!Adopt(m) \/ L!Inherit(m))
  BY <1>1, <1>3, EveryLedger
<1>5. RowsTrue'
  <2> SUFFICES ASSUME Backend = "mysql", NEW n \in Catalog, NEW e \in NetApplied(events'),
                      e.version = n.version, e.checksum = n.checksum
               PROVE  \A o \in Objects(n) : Believed'[o] = n.checksum
    BY DEF RowsTrue, Journaled, Objects
  <2>1. CASE UNCHANGED <<events, Believed>>
    BY <1>1, <2>1 DEF RowsTrue, Journaled
  <2>2. ASSUME NEW m \in Catalog, Touches(m), L!Apply(m) \/ L!Unwind(m)
        PROVE  \A o \in Objects(n) : Believed'[o] = n.checksum
    BY <1>1, <1>3, <2>2, RowsTrueStep
  <2> QED
    BY <1>4, <2>1, <2>2
<1> QED
  BY <1>1, <1>2, <1>4, <1>5 DEF LedgerSound, L!Next

LEMMA LedgerSoundInit == RollbackInit => LedgerSound /\ L!Init
<1> SUFFICES ASSUME RollbackInit PROVE LedgerSound /\ L!Init
  OBVIOUS
<1>1. /\ events = <<>> /\ inflight = [v \in Versions |-> NoMarker] /\ rbInflight = {}
      /\ schema = [v \in Versions |-> Absent]
  BY DEF RollbackInit, Init
<1>2. NetApplied(events) = {}
  <2>1. Completed(events) = {}
    BY <1>1, CompletedEmpty
  <2> QED
    BY <2>1 DEF Completed
<1>3. RowsTrue /\ DownsMarked
  BY <1>1, <1>2 DEF RowsTrue, Journaled, DownsMarked
<1>4. \A n \in Catalog : ~InDoubt(n)
  BY <1>1, CatalogType DEF InDoubt
<1>5. Believed = [v \in Versions |-> Absent]
  BY <1>1, <1>4 DEF Believed
<1>6. L!Nothing = Absent
  BY DEF L!Nothing, Absent
<1> QED
  BY <1>1, <1>3, <1>5, <1>6, SoundInit DEF LedgerSound, L!Init

\* The executor, rollback, squash(), baseline() and recover_inflight_ddl with their markers
\* implement the ledger: a migration takes effect, and is unwound, in one step with its row, in the
\* body that is journaled, wherever the several commits of the real thing stop
\* (execute_pending, rollback_locked, and each backend's two-phase protocols).
THEOREM ImplementsLedger == TidyCatalog /\ HalfDownsUndone /\ OperationsSpec => AllAtOnce
<1>. SUFFICES ASSUME TidyCatalog, HalfDownsUndone PROVE OperationsSpec => AllAtOnce
  OBVIOUS
<1>1. /\ OpsTyped /\ OpsTyped' /\ Locked /\ PlansKept /\ PlansKept' /\ UnwindsKept /\ History
      /\ LedgerSound /\ [OperationsNext]_allVars
      => LedgerSound' /\ [L!Next]_(L!ledger)
  BY LedgerSoundStep DEF L!ledger, History
<1> QED
  BY <1>1, LedgerSoundInit, OpsTypeInvariant, LockedInvariant, PlansInvariant, UnwindsInvariant,
     HistoryAlways, PTL DEF OperationsSpec, AllAtOnce, L!Spec
=============================================================================
