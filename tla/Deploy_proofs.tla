---------------------------- MODULE Deploy_proofs ----------------------------
(***************************************************************************)
(* What holds of every behaviour of Deploy, for every catalog of           *)
(* migrations, set of deployers, backend and bound.                        *)
(***************************************************************************)
EXTENDS Deploy, TLAPS

-----------------------------------------------------------------------------
(* What one appended row does to the answers the journal gives.            *)

\* A new row becomes the last event of its version and disturbs no other: the
\* window over (version, event_seq) of applied().
LEMMA LatestAppend ==
  ASSUME NEW ev \in Seq(Event), NEW e \in Event
  PROVE  Latest(Append(ev, e)) = {x \in Latest(ev) : x.version # e.version} \cup {e}
<1> DEFINE new == Append(ev, e)
           Last(s, j) == \A k \in DOMAIN s : k > j => s[k].version # s[j].version
<1>1. /\ DOMAIN ev = 1..Len(ev) /\ Len(ev) \in Nat
      /\ DOMAIN new = 1..(Len(ev) + 1)
      /\ new[Len(ev) + 1] = e
      /\ \A i \in 1..Len(ev) : new[i] = ev[i]
  OBVIOUS
<1>2. ASSUME NEW x \in Latest(new)
      PROVE  x \in {y \in Latest(ev) : y.version # e.version} \cup {e}
  <2>1. PICK j \in DOMAIN new : x = new[j] /\ Last(new, j)
    BY DEF Latest
  <2>2. CASE j = Len(ev) + 1
    BY <1>1, <2>1, <2>2
  <2>3. CASE j # Len(ev) + 1
    <3>1. j \in DOMAIN ev /\ x = ev[j]
      BY <1>1, <2>1, <2>3
    <3>2. x.version # e.version
      BY <1>1, <2>1, <3>1
    <3>3. Last(ev, j)
      BY <1>1, <2>1, <3>1
    <3>4. x \in Latest(ev)
      BY <3>1, <3>3 DEF Latest
    <3> QED
      BY <3>2, <3>4
  <2> QED
    BY <2>2, <2>3
<1>3. ASSUME NEW x \in Latest(ev), x.version # e.version
      PROVE  x \in Latest(new)
  <2>1. PICK j \in DOMAIN ev : x = ev[j] /\ Last(ev, j)
    BY DEF Latest
  <2>2. j \in DOMAIN new /\ x = new[j]
    BY <1>1, <2>1
  <2>3. Last(new, j)
    BY <1>1, <1>3, <2>1, <2>2
  <2> QED
    BY <2>2, <2>3 DEF Latest
<1>4. e \in Latest(new)
  <2>1. Len(ev) + 1 \in DOMAIN new /\ Last(new, Len(ev) + 1)
    BY <1>1
  <2> QED
    BY <1>1, <2>1 DEF Latest
<1> QED
  BY <1>2, <1>3, <1>4

\* An 'applied' row replaces what its version had net-applied.
LEMMA NetAppliedAppend ==
  ASSUME NEW ev \in Seq(Event), NEW e \in Event, e.event = "applied"
  PROVE  NetApplied(Append(ev, e)) = {x \in NetApplied(ev) : x.version # e.version} \cup {e}
<1>1. Latest(Append(ev, e)) = {x \in Latest(ev) : x.version # e.version} \cup {e}
  BY LatestAppend
<1> QED
  BY <1>1 DEF NetApplied

\* An 'applied' row completes its version and no other.
LEMMA CompletedAppend ==
  ASSUME NEW ev \in Seq(Event), NEW e \in Event, e.event = "applied"
  PROVE  Completed(Append(ev, e)) = Completed(ev) \cup {e.version}
<1>1. NetApplied(Append(ev, e)) = {x \in NetApplied(ev) : x.version # e.version} \cup {e}
  BY NetAppliedAppend
<1> QED
  BY <1>1 DEF Completed

\* The empty journal has completed nothing.
LEMMA CompletedEmpty == Completed(<<>>) = {}
  BY DEF Completed, NetApplied, Latest

\* Only versions that exist are completed.
LEMMA CompletedType ==
  ASSUME NEW ev \in Seq(Event)
  PROVE  Completed(ev) \subseteq Versions
<1>1. \A i \in DOMAIN ev : ev[i] \in Event
  OBVIOUS
<1>2. Latest(ev) \subseteq Event
  BY <1>1 DEF Latest
<1>3. \A x \in Event : x.version \in Versions
  BY DEF Event
<1> QED
  BY <1>2, <1>3 DEF Completed, NetApplied

\* A 'rolled_back' row takes its version out of what is net-applied, and no other.
LEMMA NetAppliedUnwind ==
  ASSUME NEW ev \in Seq(Event), NEW e \in Event, e.event = "rolled_back"
  PROVE  NetApplied(Append(ev, e)) = {x \in NetApplied(ev) : x.version # e.version}
<1>1. Latest(Append(ev, e)) = {x \in Latest(ev) : x.version # e.version} \cup {e}
  BY LatestAppend
<1> QED
  BY <1>1 DEF NetApplied

LEMMA CompletedUnwind ==
  ASSUME NEW ev \in Seq(Event), NEW e \in Event, e.event = "rolled_back"
  PROVE  Completed(Append(ev, e)) = Completed(ev) \ {e.version}
<1>1. NetApplied(Append(ev, e)) = {x \in NetApplied(ev) : x.version # e.version}
  BY NetAppliedUnwind
<1> QED
  BY <1>1 DEF Completed

\* A version has one net-applied row, its last.
LEMMA NetAppliedRow ==
  ASSUME NEW ev \in Seq(Event), NEW e \in NetApplied(ev)
  PROVE  /\ e \in Event /\ e.event = "applied" /\ e.version \in Completed(ev)
         /\ \A f \in NetApplied(ev) : f.version = e.version => f = e
         /\ \E i \in DOMAIN ev :
              ev[i] = e /\ \A k \in DOMAIN ev : k > i => ev[k].version # e.version
<1> DEFINE Last(j) == \A k \in DOMAIN ev : k > j => ev[k].version # ev[j].version
<1>1. DOMAIN ev = 1..Len(ev) /\ Len(ev) \in Nat /\ \A i \in DOMAIN ev : ev[i] \in Event
  OBVIOUS
<1>2. \A f \in NetApplied(ev) : f.event = "applied" /\ \E i \in DOMAIN ev : f = ev[i] /\ Last(i)
  BY DEF NetApplied, Latest
<1>3. ASSUME NEW f \in NetApplied(ev), f.version = e.version PROVE f = e
  <2>1. PICK i \in DOMAIN ev : e = ev[i] /\ Last(i)
    BY <1>2
  <2>2. PICK j \in DOMAIN ev : f = ev[j] /\ Last(j)
    BY <1>2
  <2>3. i = j
    BY <1>1, <1>3, <2>1, <2>2
  <2> QED
    BY <2>1, <2>2, <2>3
<1>4. e.version \in Completed(ev)
  BY DEF Completed
<1> QED
  BY <1>1, <1>2, <1>3, <1>4

USE VersionsAssumption, NoMarkerAssumption, CatalogAssumption, ManifestsAssumption,
    BackendAssumption, BoundsAssumption, NoOwnerAssumption

-----------------------------------------------------------------------------
(* Type correctness.                                                       *)

\* The parts of a catalogued migration have their types.
LEMMA CatalogType ==
  ASSUME NEW m \in Catalog
  PROVE  /\ m \in Migration
         /\ m.version \in Versions
         /\ m.version \in Nat
         /\ m.checksum \in Checksums
         /\ m.checksum \in Live
         /\ m.supersedes \subseteq Versions
         /\ Objects(m) \subseteq Versions
         /\ KindOf(m) \in Kinds
         /\ AppliedEvent(m, KindOf(m)) \in Event
<1>1. m \in Migration
  OBVIOUS
<1>2. /\ m.version \in Versions /\ m.checksum \in Checksums
      /\ m.supersedes \subseteq Versions
  BY <1>1 DEF Migration
<1>3. KindOf(m) \in Kinds
  BY DEF KindOf, Kinds
<1>4. AppliedEvent(m, KindOf(m)) \in Event
  BY <1>2, <1>3 DEF AppliedEvent, Event
<1> QED
  BY <1>1, <1>2, <1>3, <1>4 DEF Objects, Live

\* The journal transaction keeps its tables well typed.
LEMMA LandType ==
  ASSUME Typed, NEW d \in Deployers, NEW m \in todo[d], Land(d, m)
  PROVE  /\ events' \in Seq(Event)
         /\ inflight' \in [Versions -> Checksums \cup {NoMarker}]
         /\ rbInflight' \subseteq Versions
         /\ edges' \subseteq Versions \X Versions
         /\ todo' \in [Deployers -> SUBSET Catalog]
<1>1. m \in Catalog
  BY DEF Typed
<1>2. m.version \in Versions /\ m.supersedes \subseteq Versions
  BY <1>1, CatalogType
<1>3. events' \in Seq(Event)
  BY <1>1, CatalogType DEF Typed, Land
<1>4. edges' \subseteq Versions \X Versions
  BY <1>2 DEF Typed, Land
<1>5. inflight' \in [Versions -> Checksums \cup {NoMarker}]
  BY <1>2 DEF Typed, Land
<1> QED
  BY <1>3, <1>4, <1>5 DEF Typed, Land

\* Running an `up` to its end, or part of it, leaves objects of known states.
LEMMA SchemaType ==
  ASSUME Typed, NEW m \in Catalog
  PROVE  /\ AfterUp(m) \in [Versions -> Live]
         /\ Recovered(m) \in [Versions -> Live]
         /\ Interrupted(m) \subseteq [Versions -> Live]
<1>1. m.checksum \in Live /\ Objects(m) \subseteq Versions
  BY CatalogType
<1>2. \A o \in Versions : schema[o] \in Live
  BY DEF Typed
<1>3. Absent \in Live /\ Doubled \in Live /\ Torn \in Live
  BY DEF Live
<1>4. \A o \in Versions : Built(o, m) \in Live
  BY <1>1, <1>2, <1>3 DEF Built
<1>5. AfterUp(m) \in [Versions -> Live]
  BY <1>2, <1>4 DEF AfterUp
<1>6. Recovered(m) \in [Versions -> Live]
  BY <1>2, <1>3 DEF Recovered
<1>7. Interrupted(m) \subseteq [Versions -> Live]
  <2>1. ASSUME NEW f \in [Objects(m) -> Live]
        PROVE  [o \in Versions |-> IF o \in Objects(m) THEN f[o] ELSE schema[o]] \in [Versions -> Live]
    BY <1>2
  <2> QED
    BY <2>1 DEF Interrupted
<1> QED
  BY <1>5, <1>6, <1>7

\* What stops mid-`up` leaves the schema well typed.
LEMMA StopType ==
  ASSUME Typed, NEW d \in Deployers, StopsMidUp(d)
  PROVE  schema' \in [Versions -> Live]
<1>1. PICK m \in todo[d] :
        IF TwoPhase(m) THEN schema' \in Interrupted(m) ELSE UNCHANGED schema
  BY DEF StopsMidUp
<1>2. m \in Catalog
  BY DEF Typed
<1> QED
  BY <1>1, <1>2, SchemaType DEF Typed

\* A deployer moves between known places.
LEMMA GotoType ==
  ASSUME Typed, NEW d \in Deployers, NEW from, NEW to, Goto(d, from, to),
         to \in {"idle", "waiting"} \cup Holding
  PROVE  pc' \in [Deployers -> {"idle", "waiting"} \cup Holding]
  BY DEF Typed, Goto

\* What a deployer forgets leaves the initial values.
LEMMA ForgetType ==
  ASSUME Typed, NEW d \in Deployers, Forget(d)
  PROVE  /\ supplied' \in [Deployers -> SUBSET Catalog]
         /\ phase' \in [Deployers -> {"versioned", "repeatable"}]
         /\ todo' \in [Deployers -> SUBSET Catalog]
         /\ started' \in [Deployers -> SUBSET (Versions \X Checksums)]
         /\ skipped' \in [Deployers -> SUBSET Versions]
         /\ outcome' \in [Deployers -> SUBSET Versions]
  BY DEF Typed, Forget

\* The snapshot of the markers.
LEMMA MarkersType ==
  ASSUME Typed PROVE Markers \in SUBSET (Versions \X Checksums)
<1>1. DOMAIN inflight = Versions
  BY DEF Typed
<1>2. ASSUME NEW v \in Started(events, inflight) PROVE <<v, inflight[v]>> \in Versions \X Checksums
  BY <1>1 DEF Typed, Started
<1> QED
  BY <1>2 DEF Markers

\* One migration's visit keeps the types.
LEMMA VisitType ==
  ASSUME Typed, NEW d \in Deployers, NEW m \in todo[d], Visit(d, m)
  PROVE  Typed'
<1>0. m \in Catalog /\ m.version \in Versions /\ m.checksum \in Checksums
  BY CatalogType DEF Typed
<1>1. CASE RefuseTampered(d, m)
  BY <1>1, GotoType DEF RefuseTampered, Typed, journal, local, Holding
<1>2. CASE Skip(d, m)
  BY <1>0, <1>2 DEF Skip, Typed, journal
<1>3. CASE SkipRepeatable(d, m)
  BY <1>0, <1>3 DEF SkipRepeatable, Typed, journal
<1>4. CASE Halt(d, m)
  BY <1>4, GotoType DEF Halt, Typed, journal, local, Holding
<1>5. CASE RefuseLeaf(d, m)
  BY <1>5, GotoType DEF RefuseLeaf, Typed, journal, local, Holding
<1>6. CASE LandSatisfied(d, m)
  <2>1. Land(d, m)
    BY <1>6 DEF LandSatisfied
  <2>2. /\ events' \in Seq(Event)
        /\ inflight' \in [Versions -> Checksums \cup {NoMarker}]
        /\ rbInflight' \subseteq Versions
        /\ edges' \subseteq Versions \X Versions
        /\ todo' \in [Deployers -> SUBSET Catalog]
    BY <2>1, LandType
  <2>3. UNCHANGED <<schema, pc, lock, crashes, supplied, phase, started, skipped, outcome>>
    BY <1>6 DEF LandSatisfied, Land
  <2> QED
    BY <2>2, <2>3 DEF Typed
<1>7. CASE Arm(d, m)
  <2>1. schema' \in [Versions -> Live]
    BY <1>0, <1>7, SchemaType DEF Arm, Typed
  <2>2. inflight' \in [Versions -> Checksums \cup {NoMarker}]
    BY <1>0, <1>7 DEF Arm, Armed, Typed
  <2>3. pc' \in [Deployers -> {"idle", "waiting"} \cup Holding]
    BY <1>7, GotoType DEF Arm, Holding
  <2> QED
    BY <1>7, <2>1, <2>2, <2>3 DEF Arm, Typed, local
<1>8. CASE Begin(d, m)
  BY <1>8, GotoType DEF Begin, Typed, journal, local, Holding
<1>9. CASE CommitUp(d, m)
  <2>1. Land(d, m) /\ schema' = AfterUp(m)
    BY <1>9 DEF CommitUp
  <2>2. pc' \in [Deployers -> {"idle", "waiting"} \cup Holding]
    BY <1>9, GotoType DEF CommitUp, Holding
  <2> QED
    BY <1>0, <2>1, <2>2, LandType, SchemaType DEF Land, Typed
<1>10. CASE RunUp(d, m)
  <2>1. pc' \in [Deployers -> {"idle", "waiting"} \cup Holding]
    BY <1>10, GotoType DEF RunUp, Holding
  <2> QED
    BY <1>0, <1>10, <2>1, SchemaType DEF RunUp, Typed, journal, local
<1>11. CASE Finalize(d, m)
  <2>1. Land(d, m)
    BY <1>11 DEF Finalize
  <2>2. pc' \in [Deployers -> {"idle", "waiting"} \cup Holding]
    BY <1>11, GotoType DEF Finalize, Holding
  <2> QED
    BY <1>11, <2>1, <2>2, LandType DEF Finalize, Land, Typed
<1> QED
  BY <1>1, <1>2, <1>3, <1>4, <1>5, <1>6, <1>7, <1>8, <1>9, <1>10, <1>11 DEF Visit

\* A step of a deploy keeps the types.
LEMMA TypeStep == Typed /\ [DeployNext]_vars => Typed'
<1> SUFFICES ASSUME Typed, [DeployNext]_vars PROVE Typed'
  OBVIOUS
<1>1. CASE UNCHANGED vars
  BY <1>1 DEF Typed, vars, journal, local
<1>2. ASSUME NEW d \in Deployers, NEW ms \in Manifests, NEW grant \in Grants, Submit(d, ms, grant)
      PROVE  Typed'
  BY <1>2, GotoType DEF Submit, Typed, journal
<1>3. ASSUME NEW d \in Deployers, AcquireLock(d) PROVE Typed'
  BY <1>3, GotoType DEF AcquireLock, Typed, journal, local, Holding
<1>9. ASSUME NEW d \in Deployers, LoseGrant(d) PROVE Typed'
  BY <1>9, GotoType DEF LoseGrant, Mishap, Typed, journal, local, Holding
<1>4. ASSUME NEW d \in Deployers, Advance(d) PROVE Typed'
  <2>1. CASE Refuse(d)
    BY <2>1, GotoType DEF Refuse, Typed, journal, local, Holding
  <2>2. CASE Plan(d)
    <3>1. \A ms \in SUBSET Catalog : Pending(Versioned(ms)) \subseteq Catalog
      BY DEF Pending, Versioned
    <3>2. \A ms \in SUBSET Catalog : Ids(ms) \subseteq Versions
      BY CatalogType DEF Ids
    <3>3. pc' \in [Deployers -> {"idle", "waiting"} \cup Holding]
      BY <2>2, GotoType DEF Plan, Holding
    <3>4. started' \in [Deployers -> SUBSET (Versions \X Checksums)]
      BY <2>2, MarkersType DEF Plan, Typed
    <3>5. todo' \in [Deployers -> SUBSET Catalog]
      BY <2>2, <3>1 DEF Plan, Typed
    <3>6. Ids(Versioned(supplied[d]) \ Pending(Versioned(supplied[d]))) \subseteq Versions
      BY <3>2 DEF Typed, Versioned
    <3>7. outcome' \in [Deployers -> SUBSET Versions]
      BY <2>2, <3>6 DEF Plan, Typed
    <3> QED
      BY <2>2, <3>3, <3>4, <3>5, <3>7 DEF Plan, Typed, journal
  <2>3. CASE \E m \in todo[d] : Visit(d, m)
    BY <2>3, VisitType
  <2>4. CASE PlanRepeatables(d)
    <3>1. Repeatables(supplied[d]) \subseteq Catalog
      BY DEF Typed, Repeatables
    <3>2. todo' \in [Deployers -> SUBSET Catalog]
      BY <2>4, <3>1 DEF PlanRepeatables, Typed
    <3>3. started' \in [Deployers -> SUBSET (Versions \X Checksums)]
      BY <2>4, MarkersType DEF PlanRepeatables, Typed
    <3> QED
      BY <2>4, <3>2, <3>3 DEF PlanRepeatables, Typed, journal
  <2>5. CASE RefuseRepeatables(d)
    BY <2>5, GotoType DEF RefuseRepeatables, Typed, journal, local, Holding
  <2>6. CASE Finish(d)
    BY <2>6, GotoType DEF Finish, Typed, journal, local, Holding
  <2>7. CASE Release(d)
    BY <2>7, ForgetType DEF Release, Typed, journal
  <2> QED
    BY <1>4, <2>1, <2>2, <2>3, <2>4, <2>5, <2>6, <2>7 DEF Advance
<1>5. ASSUME NEW d \in Deployers, FailUp(d) PROVE Typed'
  BY <1>5, GotoType, StopType DEF FailUp, Mishap, Typed, journal, local, Holding
<1>6. ASSUME NEW d \in Deployers, FailStatement(d) PROVE Typed'
  BY <1>6 DEF FailStatement, Mishap, Typed, journal, local, Holding
<1>7. ASSUME NEW d \in Deployers, GiveUp(d) PROVE Typed'
  BY <1>7, GotoType, ForgetType DEF GiveUp, Mishap, Typed, journal
<1>8. ASSUME NEW d \in Deployers, Crash(d) PROVE Typed'
  <2>1. schema' \in [Versions -> Live]
    BY <1>8, StopType DEF Crash, Typed
  <2> QED
    BY <1>8, <2>1, ForgetType DEF Crash, Mishap, Typed, journal
<1> QED
  BY <1>1, <1>2, <1>3, <1>4, <1>5, <1>6, <1>7, <1>8, <1>9 DEF DeployNext

\* The types but the lock's.
LEMMA TypedAlways == Spec => []Typed
<1>1. Init => Typed
  BY DEF Init, Typed, Live
<1> QED
  BY <1>1, TypeStep, PTL DEF Spec

\* A deployer's step leaves the lock where it is, or with a deployer or nobody.
LEMMA LockKnown == [DeployNext]_vars => lock' \in Deployers \cup {lock, NoOwner}
<1> SUFFICES ASSUME [DeployNext]_vars PROVE lock' \in Deployers \cup {lock, NoOwner}
  OBVIOUS
<1>1. ASSUME NEW d \in Deployers, Advance(d) PROVE UNCHANGED lock \/ lock' = NoOwner
  <2>1. ASSUME NEW m \in todo[d], Visit(d, m) PROVE UNCHANGED lock
    BY <2>1 DEF Visit, RefuseTampered, Skip, SkipRepeatable, Halt, RefuseLeaf, LandSatisfied,
                Arm, Begin, CommitUp, RunUp, Finalize, Land
  <2> QED
    BY <1>1, <2>1 DEF Advance, Refuse, Plan, PlanRepeatables, RefuseRepeatables, Finish, Release
<1> QED
  BY <1>1 DEF DeployNext, Submit, AcquireLock, LoseGrant, FailUp, FailStatement, GiveUp, Crash,
              vars

\* Every variable keeps its type: the journal's tables, the objects, the lock and
\* what each deployer holds.
THEOREM TypeCorrect == Spec => []TypeOK
<1>1. Init => TypeOK
  BY DEF Init, TypeOK, Typed, Live
<1>2. TypeOK /\ [DeployNext]_vars => TypeOK'
  BY LockKnown, TypeStep DEF TypeOK
<1> QED
  BY <1>1, <1>2, PTL DEF Spec

-----------------------------------------------------------------------------
(* The project lock.                                                       *)

\* A step keeps the lock with whoever is past it.
LEMMA LockStep == Typed /\ MutualExclusion /\ [DeployNext]_vars => MutualExclusion'
<1> SUFFICES ASSUME Typed, MutualExclusion, [DeployNext]_vars PROVE MutualExclusion'
  OBVIOUS
<1>1. CASE UNCHANGED vars
  BY <1>1 DEF MutualExclusion, vars
<1>2. ASSUME NEW d \in Deployers,
             pc[d] \in Holding, UNCHANGED lock, pc' = [pc EXCEPT ![d] = pc'[d]]
      PROVE  MutualExclusion'
  BY <1>2 DEF MutualExclusion, Typed
<1>3. ASSUME NEW d \in Deployers,
             pc[d] \in Holding, lock' = NoOwner, pc' = [pc EXCEPT ![d] = "idle"]
      PROVE  MutualExclusion'
  BY <1>3 DEF MutualExclusion, Typed, Holding
<1>4. ASSUME NEW d \in Deployers,
             pc' = [pc EXCEPT ![d] = pc'[d]], pc'[d] \notin Holding, UNCHANGED lock
      PROVE  MutualExclusion'
  BY <1>4 DEF MutualExclusion, Typed
<1>5. ASSUME NEW d \in Deployers, AcquireLock(d) \/ LoseGrant(d) PROVE MutualExclusion'
  BY <1>5, NoOwnerAssumption DEF AcquireLock, LoseGrant, Goto, MutualExclusion, Typed, Holding
<1>6. ASSUME NEW d \in Deployers, Advance(d) PROVE MutualExclusion'
  <2>1. ASSUME NEW m \in todo[d], Visit(d, m) PROVE MutualExclusion'
    <3>1. pc[d] \in Holding
      BY <2>1 DEF Visit, RefuseTampered, Skip, SkipRepeatable, Halt, RefuseLeaf, LandSatisfied,
                  Arm, Begin, CommitUp, RunUp, Finalize, Runs, Admitted, Goto, Holding
    <3>2. UNCHANGED lock
      BY <2>1 DEF Visit, RefuseTampered, Skip, SkipRepeatable, Halt, RefuseLeaf, LandSatisfied,
                  Arm, Begin, CommitUp, RunUp, Finalize, Land
    <3>3. pc' = [pc EXCEPT ![d] = pc'[d]]
      BY <2>1 DEF Visit, RefuseTampered, Skip, SkipRepeatable, Halt, RefuseLeaf, LandSatisfied,
                  Arm, Begin, CommitUp, RunUp, Finalize, Goto, Typed
    <3> QED
      BY <1>2, <3>1, <3>2, <3>3
  <2>2. CASE Refuse(d) \/ Plan(d) \/ PlanRepeatables(d) \/ RefuseRepeatables(d) \/ Finish(d)
    <3>1. pc[d] \in Holding /\ UNCHANGED lock /\ pc' = [pc EXCEPT ![d] = pc'[d]]
      BY <2>2 DEF Refuse, Plan, PlanRepeatables, RefuseRepeatables, Finish, Goto, Holding, Typed
    <3> QED
      BY <1>2, <3>1
  <2>3. CASE Release(d)
    BY <1>3, <2>3 DEF Release, Holding
  <2> QED
    BY <1>6, <2>1, <2>2, <2>3 DEF Advance
<1>7. ASSUME NEW d \in Deployers, FailUp(d) \/ FailStatement(d) PROVE MutualExclusion'
  <2>1. pc[d] \in Holding /\ UNCHANGED lock /\ pc' = [pc EXCEPT ![d] = pc'[d]]
    BY <1>7 DEF FailUp, FailStatement, Goto, Holding, Typed
  <2> QED
    BY <1>2, <2>1
<1>8. ASSUME NEW d \in Deployers, GiveUp(d) PROVE MutualExclusion'
  BY <1>4, <1>8 DEF GiveUp, Goto, Holding, Typed
<1>9. ASSUME NEW d \in Deployers, Crash(d) PROVE MutualExclusion'
  BY <1>3, <1>9 DEF Crash
<1>10. ASSUME NEW d \in Deployers, NEW ms \in Manifests, NEW grant \in Grants, Submit(d, ms, grant)
       PROVE  MutualExclusion'
  BY <1>4, <1>10 DEF Submit, Goto, Holding, Typed
<1> QED
  BY <1>1, <1>5, <1>6, <1>7, <1>8, <1>9, <1>10 DEF DeployNext

\* Two deploys are never past the project lock together (acquire_project_lock before
\* the first journal read, release_project_lock after the last write).
THEOREM LockExcludes == Spec => []MutualExclusion
<1>1. Init => MutualExclusion
  BY DEF Init, MutualExclusion, Holding
<1> QED
  BY <1>1, LockStep, TypedAlways, PTL DEF Spec

-----------------------------------------------------------------------------
(* The plan and the journal.                                               *)

\* What a deployer has yet to visit: part of what it was handed, of one kind, and
\* in the versioned phase neither journaled nor covered by a squash.
PlanOf(d) ==
  /\ supplied[d] = {} \/ supplied[d] \in Manifests
  /\ todo[d] \subseteq supplied[d]
  /\ pc[d] \in {"idle", "waiting", "planning"} => todo[d] = {} /\ phase[d] = "versioned"
  /\ pc[d] \in {"stepping", "up", "finalize"} => ~Malformed(supplied[d])
  /\ phase[d] = "versioned" => \A m \in todo[d] :
       ~m.repeatable /\ m.version \notin Completed(events) \cup Covered(supplied[d])
  /\ phase[d] = "repeatable" => \A m \in todo[d] : m.repeatable /\ m.supersedes = {}

PlanInv == \A d \in Deployers : PlanOf(d)

\* Without rollbacks every row is the net state of its version, and the edges are
\* those of journaled squashes.
JournalInv ==
  /\ \A i \in DOMAIN events : events[i].version \in Completed(events)
  /\ \A p \in edges : p[1] \in Completed(events)

HistoryInv == PlanInv /\ JournalInv /\ OnceOnly

\* Two artifacts of one set with the same version are one artifact.
LEMMA OneVersion ==
  ASSUME Typed, PlanInv, NEW d \in Deployers, NEW m \in todo[d], NEW n \in todo[d],
         m.version = n.version
  PROVE  m = n
  BY DEF PlanInv, PlanOf

\* What landing a migration adds to the completed versions and to the covered ones.
LEMMA LandCompletes ==
  ASSUME Typed, NEW d \in Deployers, NEW m \in todo[d], Land(d, m)
  PROVE  Completed(events') = Completed(events) \cup {m.version}
<1>1. m \in Catalog
  BY DEF Typed
<1>2. AppliedEvent(m, KindOf(m)) \in Event
  BY <1>1, CatalogType
<1>3. /\ AppliedEvent(m, KindOf(m)).event = "applied"
      /\ AppliedEvent(m, KindOf(m)).version = m.version
  BY DEF AppliedEvent
<1> QED
  BY <1>2, <1>3, CompletedAppend DEF Land, Typed

LEMMA LandCovers ==
  ASSUME Typed, NEW d \in Deployers, NEW m \in todo[d], Land(d, m),
         m.supersedes = {} \/ \A p \in edges : p[1] # m.version
  PROVE  Superseded(events', edges') \subseteq Superseded(events, edges) \cup m.supersedes
<1> DEFINE row == AppliedEvent(m, KindOf(m))
<1>1. m \in Catalog
  BY DEF Typed
<1>2. row \in Event /\ row.event = "applied" /\ row.version = m.version /\ row.kind = KindOf(m)
  BY <1>1, CatalogType DEF AppliedEvent
<1>3. NetApplied(events') = {x \in NetApplied(events) : x.version # m.version} \cup {row}
  BY <1>2, NetAppliedAppend DEF Land, Typed
<1>4. edges' = edges \cup {<<m.version, v>> : v \in m.supersedes}
  BY DEF Land
<1>5. m.supersedes = {} => row.kind # "squash"
  BY <1>2 DEF KindOf
<1>6. ASSUME NEW p \in edges', NEW e \in NetApplied(events'), e.version = p[1], e.kind = "squash"
      PROVE  p[2] \in Superseded(events, edges) \cup m.supersedes
  <2>1. CASE p \notin edges
    BY <1>4, <2>1
  <2>2. CASE p \in edges /\ e = row
    BY <1>2, <1>5, <1>6, <2>2
  <2>3. CASE p \in edges /\ e # row
    <3>1. e \in NetApplied(events)
      BY <1>3, <2>3
    <3> QED
      BY <1>6, <2>3, <3>1 DEF Superseded
  <2> QED
    BY <2>1, <2>2, <2>3
<1> QED
  BY <1>6 DEF Superseded

\* Landing a migration keeps the plan and the journal as they should be.
LEMMA LandHistory ==
  ASSUME Typed, Typed', MutualExclusion, HistoryInv,
         NEW d \in Deployers, NEW m \in todo[d], Land(d, m), pc[d] \in {"stepping", "up", "finalize"},
         \/ UNCHANGED pc
         \/ pc' = [pc EXCEPT ![d] = "stepping"]
  PROVE  HistoryInv'
<1> DEFINE row == AppliedEvent(m, KindOf(m))
           n == Len(events) + 1
<1>1. m \in Catalog /\ PlanOf(d)
  BY DEF Typed, HistoryInv, PlanInv
<1>2. m \in supplied[d] /\ supplied[d] \in Manifests
  BY <1>1 DEF PlanOf
<1>3. Completed(events') = Completed(events) \cup {m.version}
  BY LandCompletes
<1>4. /\ events' = Append(events, row) /\ events \in Seq(Event)
      /\ row \in Event /\ row.event = "applied" /\ row.version = m.version /\ row.kind = KindOf(m)
  BY <1>1, CatalogType DEF Land, Typed, AppliedEvent
<1>5. /\ Len(events) \in Nat /\ DOMAIN events = 1..Len(events) /\ DOMAIN events' = 1..n
      /\ events'[n] = row /\ \A i \in 1..Len(events) : events'[i] = events[i]
  BY <1>4
<1>6. KindOf(m) = "repeatable" \/ m.version \notin Completed(events)
  <2>1. CASE phase[d] = "versioned"
    BY <1>1, <2>1 DEF PlanOf
  <2>2. CASE phase[d] = "repeatable"
    BY <1>1, <2>2 DEF PlanOf, KindOf
  <2> QED
    BY <2>1, <2>2 DEF Typed
<1>7. OnceOnly'
  <2> SUFFICES ASSUME NEW i \in DOMAIN events', NEW j \in DOMAIN events', i < j,
                      events'[i].version = events'[j].version,
                      events'[i].event = "applied", events'[j].event = "applied",
                      events'[j].kind # "repeatable"
               PROVE  \E k \in i..j : /\ events'[k].version = events'[i].version
                                     /\ events'[k].event = "rolled_back"
    BY DEF OnceOnly
  <2>1. CASE j = n
    <3>1. m.version \notin Completed(events) /\ events'[j].version = m.version
      BY <1>4, <1>5, <1>6, <2>1
    <3>2. i \in DOMAIN events /\ events'[i] = events[i]
      BY <1>5, <2>1
    <3> QED
      BY <3>1, <3>2 DEF HistoryInv, JournalInv
  <2>2. CASE j # n
    <3>1. i \in DOMAIN events /\ j \in DOMAIN events /\ events'[i] = events[i] /\ events'[j] = events[j]
      BY <1>5, <2>2
    <3>2. PICK k \in i..j : events[k].version = events[i].version /\ events[k].event = "rolled_back"
      BY <3>1 DEF HistoryInv, OnceOnly
    <3>3. events'[k] = events[k]
      BY <1>5, <3>1
    <3> QED
      BY <3>1, <3>2, <3>3
  <2> QED
    BY <2>1, <2>2
<1>8. JournalInv'
  <2>1. \A i \in DOMAIN events' : events'[i].version \in Completed(events')
    BY <1>3, <1>4, <1>5 DEF HistoryInv, JournalInv
  <2>2. \A p \in edges' : p[1] \in Completed(events')
    BY <1>3 DEF HistoryInv, JournalInv, Land
  <2> QED
    BY <2>1, <2>2 DEF JournalInv
<1>9. \A x \in todo[d] \ {m} : x.version # m.version
  BY OneVersion DEF HistoryInv
<1>10. PlanOf(d)'
  <2>1. /\ supplied'[d] = supplied[d] /\ phase'[d] = phase[d]
        /\ todo'[d] = todo[d] \ {m}
        /\ pc'[d] \in {"stepping", "up", "finalize"}
    BY DEF Land, Typed, Holding
  <2>2. CASE phase[d] = "versioned"
    <3>1. m.version \notin Completed(events)
      BY <1>1, <2>2 DEF PlanOf
    <3>2. \A p \in edges : p[1] # m.version
      BY <3>1 DEF HistoryInv, JournalInv
    <3>3. Superseded(events', edges') \subseteq Superseded(events, edges) \cup m.supersedes
      BY <3>2, LandCovers
    <3>4. Covered(supplied[d])' \subseteq Covered(supplied[d])
      BY <1>2, <2>1, <3>3 DEF Covered
    <3>5. \A x \in todo'[d] : ~x.repeatable /\ x.version \notin Completed(events') \cup Covered(supplied[d])'
      BY <1>1, <1>3, <1>9, <2>1, <2>2, <3>4 DEF PlanOf
    <3> QED
      BY <1>1, <2>1, <2>2, <3>5 DEF PlanOf
  <2>3. CASE phase[d] = "repeatable"
    BY <1>1, <2>1, <2>3 DEF PlanOf
  <2> QED
    BY <2>2, <2>3 DEF Typed
<1>11. ASSUME NEW e \in Deployers, e # d PROVE PlanOf(e)'
  <2>1. pc[e] \in {"idle", "waiting"}
    BY <1>11 DEF MutualExclusion, Typed, Holding
  <2>2. PlanOf(e)
    BY DEF HistoryInv, PlanInv
  <2>3. /\ todo'[e] = todo[e] /\ supplied'[e] = supplied[e] /\ phase'[e] = phase[e]
        /\ pc'[e] = pc[e]
    BY <1>11 DEF Land, Typed
  <2> QED
    BY <2>1, <2>2, <2>3 DEF PlanOf
<1> QED
  BY <1>7, <1>8, <1>10, <1>11 DEF HistoryInv, PlanInv

\* A step that journals nothing and only shortens plans keeps both.
LEMMA QuietHistory ==
  ASSUME Typed, HistoryInv, NEW d \in Deployers,
         UNCHANGED <<events, edges, supplied, phase>>,
         todo'[d] \subseteq todo[d],
         \A e \in Deployers \ {d} : todo'[e] = todo[e] /\ pc'[e] = pc[e],
         pc'[d] \in {"idle", "waiting", "planning"} => todo'[d] = {} /\ phase[d] = "versioned",
         pc'[d] \in {"stepping", "up", "finalize"} => pc[d] \in {"stepping", "up", "finalize"}
  PROVE  HistoryInv'
<1>1. JournalInv' /\ OnceOnly'
  BY DEF HistoryInv, JournalInv, OnceOnly
<1>2. \A ms : Covered(ms)' = Covered(ms)
  BY DEF Covered
<1>3. PlanOf(d)'
  BY <1>2 DEF HistoryInv, PlanInv, PlanOf
<1>4. ASSUME NEW e \in Deployers, e # d PROVE PlanOf(e)'
  BY <1>2, <1>4 DEF HistoryInv, PlanInv, PlanOf
<1> QED
  BY <1>1, <1>3, <1>4 DEF HistoryInv, PlanInv

\* A deployer that returns to idle forgets its plan.
LEMMA ForgetHistory ==
  ASSUME Typed, HistoryInv, NEW d \in Deployers, Forget(d), UNCHANGED <<events, edges>>,
         pc' = [pc EXCEPT ![d] = "idle"]
  PROVE  HistoryInv'
<1>1. JournalInv' /\ OnceOnly'
  BY DEF HistoryInv, JournalInv, OnceOnly
<1>2. \A ms : Covered(ms)' = Covered(ms)
  BY DEF Covered
<1>3. PlanOf(d)'
  <2>1. /\ supplied'[d] = {} /\ todo'[d] = {} /\ phase'[d] = "versioned" /\ pc'[d] = "idle"
    BY DEF Forget, Typed
  <2> QED
    BY <2>1 DEF PlanOf
<1>4. ASSUME NEW e \in Deployers, e # d PROVE PlanOf(e)'
  BY <1>2, <1>4 DEF HistoryInv, PlanInv, PlanOf, Forget, Typed
<1> QED
  BY <1>1, <1>3, <1>4 DEF HistoryInv, PlanInv

\* A visit keeps the plan and the journal.
LEMMA VisitHistory ==
  ASSUME Typed, Typed', MutualExclusion, HistoryInv,
         NEW d \in Deployers, NEW m \in todo[d], Visit(d, m)
  PROVE  HistoryInv'
<1>1. CASE RefuseTampered(d, m) \/ Halt(d, m) \/ RefuseLeaf(d, m)
  BY <1>1, QuietHistory DEF RefuseTampered, Halt, RefuseLeaf, Goto, Typed, journal, local
<1>2. CASE Skip(d, m) \/ SkipRepeatable(d, m)
  <2>1. /\ todo' = [todo EXCEPT ![d] = todo[d] \ {m}] /\ UNCHANGED pc /\ pc[d] = "stepping"
        /\ UNCHANGED <<events, edges, supplied, phase>>
    BY <1>2 DEF Skip, SkipRepeatable, journal
  <2> QED
    BY <2>1, QuietHistory DEF Typed
<1>3. CASE LandSatisfied(d, m)
  BY <1>3, LandHistory DEF LandSatisfied, Admitted, Holding
<1>4. CASE Arm(d, m)
  BY <1>4, QuietHistory DEF Arm, Goto, Typed, local
<1>5. CASE Begin(d, m)
  BY <1>5, QuietHistory DEF Begin, Goto, Typed, journal, local
<1>6. CASE CommitUp(d, m)
  BY <1>6, LandHistory DEF CommitUp, Goto, Holding
<1>7. CASE RunUp(d, m)
  BY <1>7, QuietHistory DEF RunUp, Goto, Typed, journal, local
<1>8. CASE Finalize(d, m)
  BY <1>8, LandHistory DEF Finalize, Goto, Holding
<1> QED
  BY <1>1, <1>2, <1>3, <1>4, <1>5, <1>6, <1>7, <1>8 DEF Visit

\* A plan is computed under the lock, from the journal it will be run against.
LEMMA PlanHistory ==
  ASSUME Typed, Typed', HistoryInv, NEW d \in Deployers, Plan(d)
  PROVE  HistoryInv'
<1> DEFINE all == supplied[d]
           ms == Versioned(all)
<1>1. JournalInv' /\ OnceOnly'
  BY DEF HistoryInv, JournalInv, OnceOnly, Plan, journal
<1>2. \A s : Covered(s)' = Covered(s)
  BY DEF Covered, Plan, journal
<1>3. ASSUME NEW e \in Deployers, e # d PROVE PlanOf(e)'
  BY <1>2, <1>3 DEF HistoryInv, PlanInv, PlanOf, Plan, Goto, Typed, journal
<1>4. PlanOf(d)'
  <2>1. /\ todo'[d] = Pending(ms) /\ supplied'[d] = all /\ phase'[d] = phase[d]
        /\ pc'[d] = "stepping" /\ UNCHANGED <<events, edges>>
    BY DEF Plan, Goto, Typed, journal
  <2>2. ~Malformed(all)
    BY DEF Plan, Refused
  <2>3. Covered(all) \subseteq Covered(ms)
    BY <2>2 DEF Covered, Malformed, Repeatables, Versioned
  <2>4. \A x \in Pending(ms) :
          /\ x \in all /\ ~x.repeatable
          /\ x.version \notin Completed(events) \cup Covered(all)
    BY <2>3 DEF Pending, Versioned
  <2>5. phase[d] = "versioned"
    BY DEF HistoryInv, PlanInv, PlanOf, Plan, Goto
  <2>6. supplied[d] = {} \/ supplied[d] \in Manifests
    BY DEF HistoryInv, PlanInv, PlanOf
  <2>7. todo'[d] \subseteq supplied'[d]
    BY <2>1, <2>4
  <2>8. \A x \in todo'[d] : ~x.repeatable /\ x.version \notin Completed(events)' \cup Covered(supplied[d])'
    BY <1>2, <2>1, <2>4
  <2> QED
    BY <2>1, <2>2, <2>5, <2>6, <2>7, <2>8 DEF PlanOf
<1> QED
  BY <1>1, <1>3, <1>4 DEF HistoryInv, PlanInv

\* So is the plan of the repeatable phase.
LEMMA RepeatableHistory ==
  ASSUME Typed, Typed', HistoryInv, NEW d \in Deployers, PlanRepeatables(d)
  PROVE  HistoryInv'
<1>1. JournalInv' /\ OnceOnly'
  BY DEF HistoryInv, JournalInv, OnceOnly, PlanRepeatables, journal
<1>2. \A s : Covered(s)' = Covered(s)
  BY DEF Covered, PlanRepeatables, journal
<1>3. ASSUME NEW e \in Deployers, e # d PROVE PlanOf(e)'
  BY <1>2, <1>3 DEF HistoryInv, PlanInv, PlanOf, PlanRepeatables, Typed, journal
<1>4. PlanOf(d)'
  <2>1. /\ todo'[d] = Repeatables(supplied[d]) /\ phase'[d] = "repeatable"
        /\ supplied'[d] = supplied[d] /\ pc'[d] = pc[d] /\ pc[d] = "stepping"
    BY DEF PlanRepeatables, Typed
  <2>2. ~Malformed(supplied[d]) /\ (supplied[d] = {} \/ supplied[d] \in Manifests)
    BY <2>1 DEF HistoryInv, PlanInv, PlanOf
  <2>3. \A m \in Repeatables(supplied[d]) : m \in supplied[d] /\ m.repeatable /\ m.supersedes = {}
    BY <2>2 DEF Malformed, Repeatables
  <2> QED
    BY <2>1, <2>2, <2>3 DEF PlanOf
<1> QED
  BY <1>1, <1>3, <1>4 DEF HistoryInv, PlanInv

\* A step keeps the plan and the journal.
LEMMA HistoryStep ==
  Typed /\ Typed' /\ MutualExclusion /\ HistoryInv /\ [DeployNext]_vars => HistoryInv'
<1> SUFFICES ASSUME Typed, Typed', MutualExclusion, HistoryInv, [DeployNext]_vars
             PROVE  HistoryInv'
  OBVIOUS
<1>1. CASE UNCHANGED vars
  <2>1. \A ms : Covered(ms)' = Covered(ms)
    BY <1>1 DEF Covered, vars, journal
  <2>2. \A d \in Deployers : PlanOf(d)'
    BY <1>1, <2>1 DEF HistoryInv, PlanInv, PlanOf, vars, journal, local
  <2> QED
    BY <1>1, <2>2 DEF HistoryInv, PlanInv, JournalInv, OnceOnly, vars, journal
<1>2. ASSUME NEW d \in Deployers, NEW ms \in Manifests, NEW grant \in Grants, Submit(d, ms, grant)
      PROVE  HistoryInv'
  <2>1. JournalInv' /\ OnceOnly'
    BY <1>2 DEF Submit, HistoryInv, JournalInv, OnceOnly, journal
  <2>2. \A s : Covered(s)' = Covered(s)
    BY <1>2 DEF Covered, Submit, journal
  <2>3. PlanOf(d)'
    <3>1. /\ todo[d] = {} /\ phase[d] = "versioned"
      BY <1>2 DEF Submit, Goto, HistoryInv, PlanInv, PlanOf
    <3>2. /\ todo'[d] = {} /\ phase'[d] = "versioned" /\ supplied'[d] = ms /\ pc'[d] = "waiting"
      BY <1>2, <3>1 DEF Submit, Goto, Typed
    <3> QED
      BY <3>2 DEF PlanOf
  <2>4. ASSUME NEW e \in Deployers, e # d PROVE PlanOf(e)'
    BY <1>2, <2>2, <2>4 DEF Submit, Goto, HistoryInv, PlanInv, PlanOf, Typed, journal
  <2> QED
    BY <2>1, <2>3, <2>4 DEF HistoryInv, PlanInv
<1>3. ASSUME NEW d \in Deployers, AcquireLock(d) \/ LoseGrant(d) PROVE HistoryInv'
  <2>1. todo[d] = {} /\ phase[d] = "versioned"
    BY <1>3 DEF AcquireLock, LoseGrant, Goto, HistoryInv, PlanInv, PlanOf
  <2> QED
    BY <1>3, <2>1, QuietHistory DEF AcquireLock, LoseGrant, Goto, Typed, journal, local
<1>4. ASSUME NEW d \in Deployers, Advance(d) PROVE HistoryInv'
  <2>1. CASE Refuse(d) \/ RefuseRepeatables(d) \/ Finish(d)
    <3>1. /\ \A e \in Deployers \ {d} : pc'[e] = pc[e]
          /\ pc'[d] \in {"ok", "failed"}
      BY <2>1 DEF Refuse, RefuseRepeatables, Finish, Goto, Typed
    <3>2. UNCHANGED <<events, edges, supplied, phase, todo>>
      BY <2>1 DEF Refuse, RefuseRepeatables, Finish, journal, local
    <3> QED
      BY <3>1, <3>2, QuietHistory
  <2>2. CASE Plan(d)
    BY <2>2, PlanHistory
  <2>3. CASE \E m \in todo[d] : Visit(d, m)
    BY <2>3, VisitHistory
  <2>4. CASE PlanRepeatables(d)
    BY <2>4, RepeatableHistory
  <2>5. CASE Release(d)
    BY <2>5, ForgetHistory DEF Release, journal
  <2> QED
    BY <1>4, <2>1, <2>2, <2>3, <2>4, <2>5 DEF Advance
<1>5. ASSUME NEW d \in Deployers, FailUp(d) \/ FailStatement(d) PROVE HistoryInv'
  <2>1. /\ \A e \in Deployers \ {d} : pc'[e] = pc[e]
        /\ pc'[d] = "failed"
    BY <1>5 DEF FailUp, FailStatement, Goto, Typed
  <2>2. UNCHANGED <<events, edges, supplied, phase, todo>>
    BY <1>5 DEF FailUp, FailStatement, journal, local
  <2> QED
    BY <2>1, <2>2, QuietHistory
<1>6. ASSUME NEW d \in Deployers, GiveUp(d) PROVE HistoryInv'
  BY <1>6, ForgetHistory DEF GiveUp, Goto, journal
<1>7. ASSUME NEW d \in Deployers, Crash(d) PROVE HistoryInv'
  BY <1>7, ForgetHistory DEF Crash, journal
<1> QED
  BY <1>1, <1>2, <1>3, <1>4, <1>5, <1>6, <1>7 DEF DeployNext

LEMMA HistoryInvariant == Spec => []HistoryInv
<1>1. Init => HistoryInv
  BY DEF Init, HistoryInv, PlanInv, PlanOf, JournalInv, OnceOnly
<1> QED
  BY <1>1, HistoryStep, TypedAlways, LockExcludes, PTL DEF Spec

\* However many deployers, deaths and retries, a once-only migration is journaled as
\* applied once (order_pending leaves out what is completed, under the lock).
THEOREM AppliedOnce == Spec => []OnceOnly
  BY HistoryInvariant, PTL DEF HistoryInv

\* A plan stays true while it is executed: nothing left of it is applied or covered
\* meanwhile, by another deploy or by a squash of the same one (compute_superseded).
THEOREM PlanFresh == Spec => []PlanStaysFresh
<1>1. HistoryInv => PlanStaysFresh
  BY DEF HistoryInv, PlanInv, PlanOf, PlanStaysFresh, Covered
<1> QED
  BY <1>1, HistoryInvariant, PTL

-----------------------------------------------------------------------------
(* Nothing an `up` leaves behind is unknown to the journal.                *)

\* A deployer that runs or finalises an auto-committed `up` has its marker armed:
\* what makes Accounted inductive.
ArmedUp ==
  \A d \in Deployers : \A m \in todo[d] :
    pc[d] \in {"up", "finalize"} /\ First(m, todo[d]) /\ TwoPhase(m)
      => inflight[m.version] # NoMarker

MarkerInv == ArmedUp /\ Accounted

\* The migration a deployer is at is one migration.
LEMMA OneFirst ==
  ASSUME Typed, PlanInv, NEW d \in Deployers, NEW m \in todo[d], NEW n \in todo[d],
         First(m, todo[d]), First(n, todo[d])
  PROVE  m = n
<1>1. m \in Catalog /\ n \in Catalog
  BY DEF Typed
<1>2. m.version \in Nat /\ n.version \in Nat
  BY <1>1, CatalogType
<1>3. m.version <= n.version /\ n.version <= m.version
  BY DEF First
<1>4. m.version = n.version
  BY <1>2, <1>3
<1> QED
  BY <1>4, OneVersion

\* Objects are accounted for after a step that adds objects of a known migration
\* only, and forgets no completed version and no marker but a completed one's.
LEMMA StillAccounted ==
  ASSUME Accounted, NEW m \in Catalog,
         \A o \in Versions : schema'[o] # Absent => schema[o] # Absent \/ o \in Objects(m),
         \/ m.version \in Completed(events') \/ inflight'[m.version] # NoMarker
         \/ \A o \in Versions : schema'[o] # Absent => schema[o] # Absent,
         Completed(events) \subseteq Completed(events'),
         \A n \in Catalog : inflight[n.version] # NoMarker =>
           inflight'[n.version] # NoMarker \/ n.version \in Completed(events')
  PROVE  Accounted'
<1> SUFFICES ASSUME NEW o \in Versions, schema'[o] # Absent
             PROVE  \E n \in Catalog :
                      /\ o \in Objects(n)
                      /\ n.version \in Completed(events') \/ inflight'[n.version] # NoMarker
  BY DEF Accounted, Objects
<1>1. CASE schema[o] # Absent
  <2>1. PICK n \in Catalog : /\ o \in Objects(n)
                             /\ n.version \in Completed(events) \/ inflight[n.version] # NoMarker
    BY <1>1 DEF Accounted
  <2> QED
    BY <2>1
<1>2. CASE schema[o] = Absent
  BY <1>2
<1> QED
  BY <1>1, <1>2

\* A step that touches neither the journal nor the objects.
LEMMA QuietMarkers ==
  ASSUME MarkerInv, NEW d \in Deployers, UNCHANGED <<events, inflight, schema>>,
         \A e \in Deployers \ {d} : todo'[e] = todo[e] /\ pc'[e] = pc[e],
         \/ pc'[d] \notin {"up", "finalize"}
         \/ pc'[d] = pc[d] /\ todo'[d] = todo[d]
  PROVE  MarkerInv'
<1>1. Accounted'
  BY DEF MarkerInv, Accounted, Objects
<1>2. ArmedUp'
  BY DEF MarkerInv, ArmedUp, TwoPhase, First, Ready
<1> QED
  BY <1>1, <1>2 DEF MarkerInv

\* Landing a migration.
LEMMA LandMarkers ==
  ASSUME Typed, MutualExclusion, MarkerInv,
         NEW d \in Deployers, NEW m \in todo[d], Land(d, m), pc[d] \in {"stepping", "up", "finalize"},
         UNCHANGED schema \/ schema' = AfterUp(m),
         pc' = [pc EXCEPT ![d] = "stepping"]
  PROVE  MarkerInv'
<1>1. m \in Catalog /\ m.version \in Versions
  BY CatalogType DEF Typed
<1>2. Completed(events') = Completed(events) \cup {m.version}
  BY LandCompletes
<1>3. \A o \in Versions : schema'[o] # Absent => schema[o] # Absent \/ o \in Objects(m)
  BY DEF AfterUp
<1>4. \A n \in Catalog : inflight[n.version] # NoMarker =>
        inflight'[n.version] # NoMarker \/ n.version \in Completed(events')
  <2> SUFFICES ASSUME NEW n \in Catalog, inflight[n.version] # NoMarker, n.version # m.version
               PROVE  inflight'[n.version] # NoMarker
    BY <1>2
  <2> QED
    BY <1>1 DEF Land, Typed
<1>5. Accounted'
  BY <1>1, <1>2, <1>3, <1>4, StillAccounted DEF MarkerInv
<1>6. ASSUME NEW e \in Deployers PROVE pc'[e] \notin {"up", "finalize"}
  <2>1. CASE e = d
    BY <2>1 DEF Typed
  <2>2. CASE e # d
    BY <2>2 DEF MutualExclusion, Typed, Holding
  <2> QED
    BY <2>1, <2>2
<1>7. ArmedUp'
  BY <1>6 DEF ArmedUp
<1> QED
  BY <1>5, <1>7 DEF MarkerInv

\* An `up` that stops midway leaves objects of the migration that is armed.
LEMMA StopMarkers ==
  ASSUME Typed, MutualExclusion, PlanInv, MarkerInv, NEW d \in Deployers, StopsMidUp(d),
         pc[d] = "up", UNCHANGED <<events, inflight>>
  PROVE  Accounted'
<1>1. PICK m \in todo[d] :
        /\ First(m, todo[d])
        /\ IF TwoPhase(m) THEN schema' \in Interrupted(m) ELSE UNCHANGED schema
  BY DEF StopsMidUp
<1>2. m \in Catalog
  BY DEF Typed
<1>3. CASE TwoPhase(m)
  <2>1. inflight[m.version] # NoMarker
    BY <1>1, <1>3 DEF MarkerInv, ArmedUp
  <2>2. \A o \in Versions : schema'[o] # Absent => schema[o] # Absent \/ o \in Objects(m)
    BY <1>1, <1>3 DEF Interrupted
  <2> QED
    BY <1>2, <2>1, <2>2, StillAccounted DEF MarkerInv
<1>4. CASE ~TwoPhase(m)
  BY <1>1, <1>4 DEF MarkerInv, Accounted, Objects
<1> QED
  BY <1>3, <1>4

\* A visit.
LEMMA VisitMarkers ==
  ASSUME Typed, Typed', MutualExclusion, PlanInv, MarkerInv,
         NEW d \in Deployers, NEW m \in todo[d], Visit(d, m)
  PROVE  MarkerInv'
<1>0. m \in Catalog /\ m.version \in Versions /\ m.checksum # NoMarker
  BY CatalogType DEF Typed
<1>1. CASE RefuseTampered(d, m) \/ Halt(d, m) \/ RefuseLeaf(d, m)
  <2>1. /\ \A e \in Deployers \ {d} : pc'[e] = pc[e]
        /\ pc'[d] = "failed" /\ UNCHANGED <<events, inflight, schema, todo>>
    BY <1>1 DEF RefuseTampered, Halt, RefuseLeaf, Goto, Typed, journal, local
  <2> QED
    BY <2>1, QuietMarkers
<1>2. CASE Skip(d, m) \/ SkipRepeatable(d, m)
  <2>1. /\ todo' = [todo EXCEPT ![d] = todo[d] \ {m}] /\ UNCHANGED pc /\ pc[d] = "stepping"
        /\ UNCHANGED <<events, inflight, schema>>
    BY <1>2 DEF Skip, SkipRepeatable, journal
  <2> QED
    BY <2>1, QuietMarkers DEF Typed
<1>3. CASE LandSatisfied(d, m)
  <2>1. Land(d, m) /\ pc[d] = "stepping" /\ UNCHANGED <<schema, pc>>
    BY <1>3 DEF LandSatisfied, Admitted
  <2>2. pc' = [pc EXCEPT ![d] = "stepping"]
    BY <2>1 DEF Typed
  <2> QED
    BY <2>1, <2>2, LandMarkers
<1>4. CASE Arm(d, m)
  <2>1. /\ inflight'[m.version] # NoMarker
        /\ \A v \in Versions : inflight[v] # NoMarker => inflight'[v] # NoMarker
    BY <1>0, <1>4 DEF Arm, Armed, Typed
  <2>2. \A o \in Versions : schema'[o] # Absent => schema[o] # Absent
    BY <1>4 DEF Arm, Recovered
  <2>3. UNCHANGED <<events, todo>> /\ pc' = [pc EXCEPT ![d] = "up"] /\ pc[d] = "stepping" /\ First(m, todo[d])
    BY <1>4 DEF Arm, Goto, local, Runs, Admitted, Evaluated
  <2>4. Accounted'
    BY <1>0, <2>1, <2>2, <2>3, StillAccounted, CatalogType DEF MarkerInv
  <2>5. ASSUME NEW e \in Deployers, NEW n \in todo'[e],
               pc'[e] \in {"up", "finalize"}, First(n, todo'[e]), TwoPhase(n)
        PROVE  inflight'[n.version] # NoMarker
    <3>1. e = d
      BY <2>3, <2>5 DEF MutualExclusion, Typed, Holding
    <3>2. n = m
      BY <2>3, <2>5, <3>1, OneFirst
    <3> QED
      BY <2>1, <3>2
  <2> QED
    BY <2>4, <2>5 DEF MarkerInv, ArmedUp
<1>5. CASE Begin(d, m)
  <2>1. /\ UNCHANGED <<events, inflight, schema, todo>> /\ ~TwoPhase(m)
        /\ pc' = [pc EXCEPT ![d] = "up"] /\ pc[d] = "stepping" /\ First(m, todo[d])
    BY <1>5 DEF Begin, Goto, journal, local, Runs, Admitted, Evaluated
  <2>2. Accounted'
    BY <2>1 DEF MarkerInv, Accounted, Objects
  <2>3. ASSUME NEW e \in Deployers, NEW n \in todo'[e],
               pc'[e] \in {"up", "finalize"}, First(n, todo'[e]), TwoPhase(n)
        PROVE  inflight'[n.version] # NoMarker
    <3>1. e = d
      BY <2>1, <2>3 DEF MutualExclusion, Typed, Holding
    <3>2. n = m
      BY <2>1, <2>3, <3>1, OneFirst
    <3> QED
      BY <2>1, <2>3, <3>2
  <2> QED
    BY <2>2, <2>3 DEF MarkerInv, ArmedUp
<1>6. CASE CommitUp(d, m)
  BY <1>6, LandMarkers DEF CommitUp, Goto
<1>7. CASE RunUp(d, m)
  <2>1. /\ UNCHANGED <<events, inflight, todo>> /\ TwoPhase(m) /\ schema' = AfterUp(m)
        /\ pc' = [pc EXCEPT ![d] = "finalize"] /\ pc[d] = "up" /\ First(m, todo[d])
    BY <1>7 DEF RunUp, Goto, journal, local
  <2>2. inflight[m.version] # NoMarker
    BY <2>1 DEF MarkerInv, ArmedUp
  <2>3. \A o \in Versions : schema'[o] # Absent => schema[o] # Absent \/ o \in Objects(m)
    BY <2>1 DEF AfterUp
  <2>4. Accounted'
    BY <1>0, <2>1, <2>2, <2>3, StillAccounted DEF MarkerInv
  <2>5. ArmedUp'
    BY <2>1 DEF MarkerInv, ArmedUp, First, Ready, TwoPhase, Typed
  <2> QED
    BY <2>4, <2>5 DEF MarkerInv
<1>8. CASE Finalize(d, m)
  BY <1>8, LandMarkers DEF Finalize, Goto
<1> QED
  BY <1>1, <1>2, <1>3, <1>4, <1>5, <1>6, <1>7, <1>8 DEF Visit

\* A step of a deploy.
LEMMA MarkerStep ==
  Typed /\ Typed' /\ MutualExclusion /\ HistoryInv /\ MarkerInv /\ [DeployNext]_vars => MarkerInv'
<1> SUFFICES ASSUME Typed, Typed', MutualExclusion, PlanInv, MarkerInv, [DeployNext]_vars
             PROVE  MarkerInv'
  BY DEF HistoryInv
<1>1. CASE UNCHANGED vars
  BY <1>1 DEF MarkerInv, ArmedUp, Accounted, Objects, TwoPhase, First, Ready, vars, journal, local
<1>2. ASSUME NEW d \in Deployers, NEW ms \in Manifests, NEW grant \in Grants, Submit(d, ms, grant)
      PROVE  MarkerInv'
  <2>1. /\ \A e \in Deployers \ {d} : pc'[e] = pc[e]
        /\ pc'[d] = "waiting" /\ UNCHANGED <<events, inflight, schema, todo>>
    BY <1>2 DEF Submit, Goto, Typed, journal
  <2> QED
    BY <2>1, QuietMarkers
<1>3. ASSUME NEW d \in Deployers, AcquireLock(d) \/ LoseGrant(d) PROVE MarkerInv'
  <2>1. /\ \A e \in Deployers \ {d} : pc'[e] = pc[e]
        /\ pc'[d] \in {"planning", "failed"} /\ UNCHANGED <<events, inflight, schema, todo>>
    BY <1>3 DEF AcquireLock, LoseGrant, Goto, Typed, journal, local
  <2> QED
    BY <2>1, QuietMarkers
<1>4. ASSUME NEW d \in Deployers, Advance(d) PROVE MarkerInv'
  <2>1. CASE Refuse(d) \/ RefuseRepeatables(d) \/ Finish(d)
    <3>1. /\ \A e \in Deployers \ {d} : pc'[e] = pc[e]
          /\ pc'[d] \in {"ok", "failed"} /\ UNCHANGED <<events, inflight, schema, todo>>
      BY <2>1 DEF Refuse, RefuseRepeatables, Finish, Goto, Typed, journal, local
    <3> QED
      BY <3>1, QuietMarkers
  <2>2. CASE Plan(d) \/ PlanRepeatables(d)
    <3>1. /\ \A e \in Deployers \ {d} : pc'[e] = pc[e] /\ todo'[e] = todo[e]
          /\ pc'[d] = "stepping" /\ UNCHANGED <<events, inflight, schema>>
      BY <2>2 DEF Plan, PlanRepeatables, Goto, Typed, journal
    <3> QED
      BY <3>1, QuietMarkers
  <2>3. CASE \E m \in todo[d] : Visit(d, m)
    BY <2>3, VisitMarkers
  <2>4. CASE Release(d)
    <3>1. /\ \A e \in Deployers \ {d} : pc'[e] = pc[e] /\ todo'[e] = todo[e]
          /\ pc'[d] = "idle" /\ UNCHANGED <<events, inflight, schema>>
      BY <2>4 DEF Release, Forget, Typed, journal
    <3> QED
      BY <3>1, QuietMarkers
  <2> QED
    BY <1>4, <2>1, <2>2, <2>3, <2>4 DEF Advance
<1>5. ASSUME NEW d \in Deployers, FailStatement(d) PROVE MarkerInv'
  <2>1. /\ \A e \in Deployers \ {d} : pc'[e] = pc[e]
        /\ pc'[d] = "failed" /\ UNCHANGED <<events, inflight, schema, todo>>
    BY <1>5 DEF FailStatement, Typed, journal, local
  <2> QED
    BY <2>1, QuietMarkers
<1>6. ASSUME NEW d \in Deployers, GiveUp(d) PROVE MarkerInv'
  <2>1. /\ \A e \in Deployers \ {d} : pc'[e] = pc[e] /\ todo'[e] = todo[e]
        /\ pc'[d] = "idle" /\ UNCHANGED <<events, inflight, schema>>
    BY <1>6 DEF GiveUp, Goto, Forget, Typed, journal
  <2> QED
    BY <2>1, QuietMarkers
<1>7. ASSUME NEW d \in Deployers, FailUp(d) \/ Crash(d) PROVE MarkerInv'
  <2>1. /\ \A e \in Deployers \ {d} : pc'[e] = pc[e] /\ todo'[e] = todo[e]
        /\ pc'[d] \in {"idle", "failed"} /\ UNCHANGED <<events, inflight>>
    BY <1>7 DEF FailUp, Crash, Goto, Forget, Typed, journal, local
  <2>2. Accounted'
    <3>1. CASE pc[d] = "up"
      BY <1>7, <2>1, <3>1, StopMarkers DEF FailUp, Crash
    <3>2. CASE pc[d] # "up"
      BY <1>7, <2>1, <3>2 DEF FailUp, Crash, Goto, MarkerInv, Accounted, Objects
    <3> QED
      BY <3>1, <3>2
  <2>3. ArmedUp'
    BY <2>1 DEF MarkerInv, ArmedUp, First, Ready, TwoPhase
  <2> QED
    BY <2>2, <2>3 DEF MarkerInv
<1> QED
  BY <1>1, <1>2, <1>3, <1>4, <1>5, <1>6, <1>7 DEF DeployNext

\* Whatever is interrupted, and on every backend, an object in the database belongs to
\* a migration the journal has as applied or whose marker is armed: the marker is
\* committed before an auto-committed `up`, and deleted in the transaction that
\* journals it (apply_two_phase, apply_non_transactional, apply_transactional).
THEOREM AlwaysAccounted == Spec => []Accounted
<1>1. Init => MarkerInv
  BY DEF Init, MarkerInv, ArmedUp, Accounted
<1>2. Spec => []MarkerInv
  BY <1>1, MarkerStep, TypedAlways, LockExcludes, HistoryInvariant, PTL DEF Spec
<1> QED
  BY <1>2, PTL DEF MarkerInv
=============================================================================
