-------------------------- MODULE Operations_proofs --------------------------
(***************************************************************************)
(* What holds of deploys, rollbacks, squashes, baselines and recoveries    *)
(* together, for every catalog of migrations, set of processes, backend    *)
(* and bound.                                                              *)
(***************************************************************************)
EXTENDS Operations, Deploy_proofs, FiniteSetTheorems

USE VersionsAssumption, NoMarkerAssumption, CatalogAssumption, ManifestsAssumption,
    BackendAssumption, BoundsAssumption, NoOwnerAssumption, OperatorsAssumption,
    RequestsAssumption, RepairsAssumption, AdoptableAssumption

-----------------------------------------------------------------------------
(* Type correctness.                                                       *)

\* The sequence a rollback takes its steps from: the migrations it unwinds, each once.
LEMMA ReverseOrdersType ==
  ASSUME NEW r, r.supplied \subseteq Catalog, NEW s \in ReverseOrders(r)
  PROVE  /\ s \in Seq(Unwound(r)) /\ s \in Seq(Catalog)
         /\ \A i, j \in DOMAIN s : i # j => s[i] # s[j]
<1> DEFINE ms == Unwound(r)
<1>1. ms \subseteq Catalog
  BY DEF Unwound, Chosen
<1>2. Cardinality(ms) \in Nat
  BY <1>1, FS_Subset, FS_CardinalityType
<1>3. PICK t \in SetToSeqs(ms) : s = Reverse(t)
  BY DEF ReverseOrders
<1>4. /\ t \in [1..Cardinality(ms) -> ms]
      /\ \A i, j \in 1..Cardinality(ms) : i # j => t[i] # t[j]
  BY DEF SetToSeqs
<1>5. t \in Seq(ms) /\ Len(t) = Cardinality(ms)
  BY <1>2, <1>4
<1>6. s = [i \in 1..Len(t) |-> t[(Len(t) - i) + 1]]
  BY <1>3 DEF Reverse
<1>7. s \in [1..Cardinality(ms) -> ms]
  BY <1>2, <1>4, <1>5, <1>6
<1>8. \A i, j \in DOMAIN s : i # j => s[i] # s[j]
  BY <1>2, <1>4, <1>5, <1>6
<1>9. s \in Seq(ms)
  BY <1>2, <1>7
<1> QED
  BY <1>1, <1>8, <1>9

\* A rollback that ends well or not.
LEMMA EndType ==
  ASSUME RollbackTypeOK, NEW o \in Operators, EndRollback(o)
  PROVE  /\ opc' \in [Operators -> {"idle", "waiting"} \cup RollbackHolding]
         /\ request' \in [Operators -> Requests \cup {NoRequest}]
         /\ steps' \in [Operators -> Seq(Catalog)]
         /\ lock' \in Deployers \cup Operators \cup {NoOwner}
         /\ UNCHANGED <<pc, local>>
<1>1. <<>> \in Seq(Catalog)
  OBVIOUS
<1> QED
  BY <1>1 DEF RollbackTypeOK, EndRollback

\* The migration that is unwound next is a catalogued one.
LEMMA NextStepType ==
  ASSUME RollbackTypeOK, NEW o \in Operators, steps[o] # <<>>
  PROVE  /\ NextStep(o) \in Catalog
         /\ NextStep(o) = steps[o][1] /\ 1 \in DOMAIN steps[o]
         /\ Tail(steps[o]) \in Seq(Catalog)
         /\ RolledBackEvent(NextStep(o)) \in Event
         /\ NextStep(o).version \in Versions
<1>1. steps[o] \in Seq(Catalog)
  BY DEF RollbackTypeOK
<1>2. /\ NextStep(o) \in Catalog /\ Tail(steps[o]) \in Seq(Catalog)
      /\ NextStep(o) = steps[o][1] /\ 1 \in DOMAIN steps[o]
  BY <1>1 DEF NextStep
<1> QED
  BY <1>2, CatalogType DEF RolledBackEvent, Event

\* What a `down` leaves is of known states.
LEMMA DownType ==
  ASSUME RollbackTypeOK, NEW m \in Catalog
  PROVE  /\ Gone(m) \in [Versions -> Live]
         /\ HalfDown(m) \subseteq [Versions -> Live]
<1>1. \A v \in Versions : schema[v] \in Live
  BY DEF RollbackTypeOK, Typed
<1>2. Gone(m) \in [Versions -> Live]
  BY <1>1 DEF Gone, Live
<1>3. ASSUME NEW f \in [Objects(m) -> Live]
      PROVE  [v \in Versions |-> IF v \in Objects(m) THEN f[v] ELSE schema[v]] \in [Versions -> Live]
  BY <1>1, CatalogType
<1> QED
  BY <1>2, <1>3 DEF HalfDown

\* Only rows that exist are net-applied.
LEMMA NetAppliedType ==
  ASSUME Typed PROVE NetApplied(events) \subseteq Event
<1>1. \A i \in DOMAIN events : events[i] \in Event
  BY DEF Typed
<1> QED
  BY <1>1 DEF NetApplied, Latest

\* The body of a completed version, or nothing.
LEMMA ShapeBeforeType ==
  ASSUME Typed, NEW v \in Versions
  PROVE  ShapeBefore(v) \in Checksums \cup {Absent}
<1>1. \A e \in NetApplied(events) : e.checksum \in Checksums
  BY NetAppliedType DEF Event
<1> QED
  BY <1>1 DEF ShapeBefore

\* What recoveries leave is of known states.
LEMMA RestoredType ==
  ASSUME RollbackTypeOK, NEW m \in Catalog
  PROVE  Restored(m) \in [Versions -> Live]
<1>1. ShapeBefore(m.version) \in Live
  BY ShapeBeforeType, CatalogType DEF RollbackTypeOK, Live
<1> QED
  BY <1>1 DEF Restored, RollbackTypeOK, Typed

\* A rollback between two transactions is at a step of its plan.
AtStep == \A o \in Operators : opc[o] \in {"down", "finalize"} => steps[o] # <<>>

OpsTyped == RollbackTypeOK /\ AtStep

\* An operator's step of a rollback keeps the types.
LEMMA RollbackType ==
  ASSUME OpsTyped, NEW o \in Operators,
         \/ \E r \in Requests : AskRollback(o, r)
         \/ LockRollback(o)
         \/ AdvanceRollback(o)
         \/ StopRollback(o)
  PROVE  OpsTyped'
<1> USE DEF OpsTyped
<1>1. ASSUME NEW r \in Requests, AskRollback(o, r) PROVE OpsTyped'
  BY <1>1 DEF AskRollback, Move, RollbackTypeOK, AtStep, Typed, vars, journal, local
<1>2. CASE LockRollback(o)
  BY <1>2 DEF LockRollback, Move, RollbackTypeOK, AtStep, Typed, journal, local, RollbackHolding
<1>3. CASE PlanRollback(o)
  <2>1. request[o].supplied \subseteq Catalog
    BY DEF RollbackTypeOK, NoRequest
  <2>2. PICK s \in ReverseOrders(request[o]) : steps' = [steps EXCEPT ![o] = s]
    BY <1>3 DEF PlanRollback
  <2>3. s \in Seq(Catalog)
    BY <2>1, ReverseOrdersType
  <2>4. UNCHANGED <<vars, request>> /\ opc' = [opc EXCEPT ![o] = "stepping"]
    BY <1>3 DEF PlanRollback, Move
  <2>5. steps' \in [Operators -> Seq(Catalog)] /\ AtStep'
    BY <2>2, <2>3, <2>4 DEF RollbackTypeOK, AtStep
  <2> QED
    BY <2>4, <2>5 DEF RollbackTypeOK, Typed, vars, journal, local, RollbackHolding
<1>4. ASSUME EndRollback(o), UNCHANGED journal, schema' \in [Versions -> Live],
             crashes' \in 0..MaxCrashes
      PROVE  OpsTyped'
  <2>1. AtStep'
    BY <1>4 DEF EndRollback, AtStep, RollbackTypeOK
  <2> QED
    BY <1>4, <2>1, EndType DEF RollbackTypeOK, Typed, journal, local
<1>5. CASE RefuseRollback(o) \/ RefuseHalfReverted(o) \/ FinishRollback(o)
  BY <1>4, <1>5 DEF RefuseRollback, RefuseHalfReverted, FinishRollback, RollbackTypeOK, Typed
<1>6. ASSUME steps[o] # <<>>, RecordRolledBack(o), opc' = [opc EXCEPT ![o] = "stepping"],
             rbInflight' \subseteq Versions, schema' \in [Versions -> Live]
      PROVE  OpsTyped'
  <2>1. events' \in Seq(Event) /\ steps' \in [Operators -> Seq(Catalog)] /\ AtStep'
    BY <1>6, NextStepType DEF RecordRolledBack, RollbackTypeOK, Typed, AtStep
  <2> QED
    BY <1>6, <2>1 DEF RecordRolledBack, RollbackTypeOK, Typed, local, RollbackHolding
<1>7. CASE RollbackOne(o)
  <2>1. opc' = [opc EXCEPT ![o] = "stepping"]
    BY <1>7 DEF RollbackOne, RollbackTypeOK
  <2> QED
    BY <1>6, <1>7, <2>1, NextStepType, DownType DEF RollbackOne, RollbackTypeOK, Typed
<1>8. CASE FinalizeDown(o)
  BY <1>6, <1>8 DEF FinalizeDown, Move, RollbackTypeOK, Typed, AtStep
<1>9. CASE MarkDown(o)
  <2>0. steps[o] # <<>> /\ rbInflight' = rbInflight \cup {NextStep(o).version}
    BY <1>9 DEF MarkDown
  <2>1. NextStep(o).version \in Versions
    BY <2>0, NextStepType
  <2>2. rbInflight' \subseteq Versions /\ steps[o] # <<>>
    BY <2>0, <2>1 DEF RollbackTypeOK, Typed
  <2>3. opc' = [opc EXCEPT ![o] = "down"] /\ UNCHANGED steps
    BY <1>9 DEF MarkDown, Move
  <2>4. AtStep' /\ opc' \in [Operators -> {"idle", "waiting"} \cup RollbackHolding]
    BY <2>2, <2>3 DEF AtStep, RollbackTypeOK, RollbackHolding
  <2> QED
    BY <1>9, <2>2, <2>4 DEF MarkDown, RollbackTypeOK, Typed, local
<1>10. CASE RunDown(o)
  <2>1. schema' \in [Versions -> Live]
    BY <1>10, NextStepType, DownType DEF RunDown, Move, AtStep
  <2> QED
    BY <1>10, <2>1 DEF RunDown, Move, RollbackTypeOK, AtStep, Typed, journal, local, RollbackHolding
<1>11. CASE StopRollback(o)
  <2>1. schema' \in [Versions -> Live]
    BY <1>11, NextStepType, DownType DEF StopRollback, AtStep, RollbackTypeOK, Typed
  <2>2. crashes' \in 0..MaxCrashes
    BY <1>11 DEF StopRollback, Mishap, RollbackTypeOK, Typed
  <2> QED
    BY <1>4, <1>11, <2>1, <2>2 DEF StopRollback
<1> QED
  BY <1>1, <1>2, <1>3, <1>5, <1>7, <1>8, <1>9, <1>10, <1>11 DEF AdvanceRollback

\* So does an operator's settlement, and nothing but the database changes by it.
LEMMA OperatorType ==
  ASSUME OpsTyped, NEW m \in Catalog, OperatorStep(m)
  PROVE  OpsTyped'
<1> USE DEF OpsTyped
<1>1. /\ m.version \in Versions /\ m.checksum \in Checksums /\ m.supersedes \subseteq Versions
      /\ AppliedEvent(m, "squash") \in Event /\ AppliedEvent(m, "baseline") \in Event
      /\ AppliedEvent(m, KindOf(m)) \in Event
  BY CatalogType DEF AppliedEvent, Event, Kinds
<1>2. Restored(m) \in [Versions -> Live] /\ Gone(m) \in [Versions -> Live]
  BY RestoredType, DownType
<1>3. UNCHANGED <<lock, crashes, pc, local, unwinding>>
  BY DEF OperatorStep, RecordSquash, Baseline, MarkApplied, ClearForRetry, SettleHalfReverted
<1>4. AtStep'
  BY <1>3 DEF AtStep, unwinding
<1>5. events' \in Seq(Event)
  <2>1. events' = events \/ \E e \in Event : events' = Append(events, e)
    BY <1>1 DEF OperatorStep, RecordSquash, Baseline, MarkApplied, ClearForRetry,
                SettleHalfReverted
  <2>2. ASSUME NEW e \in Event, events' = Append(events, e) PROVE events' \in Seq(Event)
    BY <2>2 DEF RollbackTypeOK, Typed
  <2> QED
    BY <2>1, <2>2 DEF RollbackTypeOK, Typed
<1>6. inflight' \in [Versions -> Checksums \cup {NoMarker}] /\ rbInflight' \subseteq Versions
  BY <1>1 DEF OperatorStep, RecordSquash, Baseline, MarkApplied, ClearForRetry,
              SettleHalfReverted, RollbackTypeOK, Typed
<1>7. edges' \subseteq Versions \X Versions
  BY <1>1 DEF OperatorStep, RecordSquash, Baseline, MarkApplied, ClearForRetry,
              SettleHalfReverted, RollbackTypeOK, Typed
<1>8. schema' \in [Versions -> Live]
  <2>1. CASE Baseline(m)
    BY <1>1, <2>1 DEF Baseline, RollbackTypeOK, Typed, Live
  <2> QED
    BY <1>2, <2>1 DEF OperatorStep, RecordSquash, MarkApplied, ClearForRetry,
                      SettleHalfReverted, RollbackTypeOK, Typed
<1> QED
  BY <1>3, <1>4, <1>5, <1>6, <1>7, <1>8 DEF RollbackTypeOK, Typed, local, unwinding

\* Any step keeps the types.
LEMMA OpsTypeStep == OpsTyped /\ [OperationsNext]_allVars => OpsTyped'
<1> SUFFICES ASSUME OpsTyped, [OperationsNext]_allVars PROVE OpsTyped'
  OBVIOUS
<1>1. CASE UNCHANGED allVars
  BY <1>1 DEF OpsTyped, RollbackTypeOK, AtStep, Typed, allVars, vars, journal, local, unwinding
<1>2. CASE DeployNext /\ UNCHANGED unwinding
  <2>1. Typed' /\ lock' \in Deployers \cup {lock, NoOwner}
    BY <1>2, TypeStep, LockKnown DEF OpsTyped, RollbackTypeOK
  <2> QED
    BY <1>2, <2>1 DEF OpsTyped, RollbackTypeOK, AtStep, unwinding
<1> QED
  BY <1>1, <1>2, RollbackType, OperatorType DEF OperationsNext, RollbackNext

LEMMA OpsTypeInvariant == OperationsSpec => []OpsTyped
<1>1. RollbackInit => OpsTyped
  BY DEF RollbackInit, Init, OpsTyped, RollbackTypeOK, AtStep, Typed, Live
<1> QED
  BY <1>1, OpsTypeStep, PTL DEF OperationsSpec

\* Every variable keeps its type beside rollbacks, squashes, baselines and recoveries.
THEOREM RollbackTypeCorrect == OperationsSpec => []RollbackTypeOK
  BY OpsTypeInvariant, PTL DEF OpsTyped

\* Deploys and rollbacks alone are behaviours of the whole: what is proved of OperationsSpec
\* holds of every project that never squashes, adopts or recovers.
THEOREM RollbacksAreOperations == RollbackSpec => OperationsSpec
<1>1. [RollbackNext]_allVars => [OperationsNext]_allVars
  BY DEF OperationsNext
<1> QED
  BY <1>1, PTL DEF RollbackSpec, OperationsSpec

-----------------------------------------------------------------------------
(* The project lock, which deploys and rollbacks share.                    *)

\* A rollback past the lock holds it.
OperatorExclusion == \A o \in Operators : opc[o] \in RollbackHolding => lock = o

Locked == MutualExclusion /\ OperatorExclusion

\* A deploy takes the lock from nobody else.
LEMMA LockMoves ==
  [DeployNext]_vars =>
    UNCHANGED lock \/ lock = NoOwner \/ \E d \in Deployers : pc[d] \in Holding
<1> SUFFICES ASSUME [DeployNext]_vars, lock' # lock, lock # NoOwner
             PROVE  \E d \in Deployers : pc[d] \in Holding
  OBVIOUS
<1>1. ASSUME NEW d \in Deployers, Advance(d) PROVE pc[d] \in Holding
  <2>1. ASSUME NEW m \in todo[d], Visit(d, m) PROVE UNCHANGED lock
    BY <2>1 DEF Visit, RefuseTampered, Skip, SkipRepeatable, Halt, RefuseLeaf, LandSatisfied,
                Arm, Begin, CommitUp, RunUp, Finalize, Land
  <2> QED
    BY <1>1, <2>1 DEF Advance, Refuse, Plan, PlanRepeatables, RefuseRepeatables, Finish, Release,
                      Holding
<1> QED
  BY <1>1 DEF DeployNext, Submit, AcquireLock, LoseGrant, FailUp, FailStatement, GiveUp, Crash,
              vars

\* Any step leaves the lock with whoever is past it.
LEMMA LockedStep == OpsTyped /\ Locked /\ [OperationsNext]_allVars => Locked'
<1> SUFFICES ASSUME OpsTyped, Locked, [OperationsNext]_allVars PROVE Locked'
  OBVIOUS
<1>1. ASSUME UNCHANGED <<pc, opc, lock>> PROVE Locked'
  BY <1>1 DEF Locked, MutualExclusion, OperatorExclusion
<1>2. CASE DeployNext /\ UNCHANGED unwinding
  <2>1. MutualExclusion'
    BY <1>2, LockStep DEF Locked, OpsTyped, RollbackTypeOK
  <2>2. UNCHANGED lock \/ lock = NoOwner \/ \E d \in Deployers : pc[d] \in Holding
    BY <1>2, LockMoves
  <2>3. ASSUME NEW o \in Operators, opc'[o] \in RollbackHolding PROVE lock' = o
    BY <1>2, <2>2, <2>3 DEF unwinding, Locked, MutualExclusion, OperatorExclusion
  <2> QED
    BY <2>1, <2>3 DEF Locked, OperatorExclusion
<1>3. ASSUME NEW o \in Operators, EndRollback(o) PROVE Locked'
  BY <1>3 DEF EndRollback, Locked, MutualExclusion, OperatorExclusion, OpsTyped, RollbackTypeOK,
              RollbackHolding
<1>4. ASSUME NEW o \in Operators, opc[o] \in RollbackHolding, opc' = [opc EXCEPT ![o] = opc'[o]],
             UNCHANGED <<pc, lock>>
      PROVE  Locked'
  BY <1>4 DEF Locked, MutualExclusion, OperatorExclusion, OpsTyped, RollbackTypeOK
<1>5. ASSUME NEW o \in Operators, LockRollback(o) PROVE Locked'
  BY <1>5 DEF LockRollback, Move, Locked, MutualExclusion, OperatorExclusion, OpsTyped,
              RollbackTypeOK
<1>6. ASSUME NEW o \in Operators, NEW r \in Requests, AskRollback(o, r) PROVE Locked'
  BY <1>6 DEF AskRollback, Move, vars, Locked, MutualExclusion, OperatorExclusion, OpsTyped,
              RollbackTypeOK, RollbackHolding
<1>7. ASSUME NEW o \in Operators, AdvanceRollback(o) PROVE Locked'
  <2>1. CASE RefuseRollback(o) \/ RefuseHalfReverted(o) \/ FinishRollback(o)
    BY <1>3, <2>1 DEF RefuseRollback, RefuseHalfReverted, FinishRollback
  <2>2. CASE PlanRollback(o)
    BY <1>4, <2>2 DEF PlanRollback, Move, RollbackHolding, vars, OpsTyped, RollbackTypeOK
  <2>3. CASE RollbackOne(o)
    BY <1>1, <2>3 DEF RollbackOne, RecordRolledBack
  <2>4. CASE MarkDown(o) \/ RunDown(o) \/ FinalizeDown(o)
    BY <1>4, <2>4 DEF MarkDown, RunDown, FinalizeDown, RecordRolledBack, Move, RollbackHolding,
                      OpsTyped, RollbackTypeOK
  <2> QED
    BY <1>7, <2>1, <2>2, <2>3, <2>4 DEF AdvanceRollback
<1>8. ASSUME NEW m \in Catalog, OperatorStep(m) PROVE Locked'
  BY <1>1, <1>8 DEF OperatorStep, RecordSquash, Baseline, MarkApplied, ClearForRetry,
                    SettleHalfReverted, unwinding
<1> QED
  BY <1>1, <1>2, <1>3, <1>5, <1>6, <1>7, <1>8
     DEF OperationsNext, RollbackNext, StopRollback, allVars, vars, unwinding

LEMMA LockedInvariant == OperationsSpec => []Locked
<1>1. RollbackInit => Locked
  BY DEF RollbackInit, Init, Locked, MutualExclusion, OperatorExclusion, Holding, RollbackHolding
<1> QED
  BY <1>1, LockedStep, OpsTypeInvariant, PTL DEF OperationsSpec

\* The project lock excludes deploys from one another and from rollbacks (rollback takes
\* the same lock before it reads the journal).
THEOREM LockExcludesAll == OperationsSpec => [](MutualExclusion /\ OperatorExclusion)
  BY LockedInvariant, PTL DEF Locked

-----------------------------------------------------------------------------
(* One process at a time: who changes what.                                *)

database == <<journal, schema>>

\* What a process keeps for itself.
DeployOf(d) ==
  <<pc[d], supplied[d], phase[d], todo[d], started[d], skipped[d], outcome[d]>>
RollbackOf(o) == <<opc[o], request[o], steps[o]>>

DeployerStep(d) ==
  \/ \E ms \in Manifests, grant \in Grants : Submit(d, ms, grant)
  \/ AcquireLock(d)
  \/ LoseGrant(d)
  \/ Advance(d)
  \/ FailUp(d)
  \/ FailStatement(d)
  \/ GiveUp(d)
  \/ Crash(d)

RollbackStep(o) ==
  \/ \E r \in Requests : AskRollback(o, r)
  \/ LockRollback(o)
  \/ AdvanceRollback(o)
  \/ StopRollback(o)

\* A step is one process's or leaves everything as it is.
LEMMA OneProcess ==
  [OperationsNext]_allVars =>
    \/ UNCHANGED allVars
    \/ \E d \in Deployers : DeployerStep(d) /\ UNCHANGED unwinding
    \/ \E o \in Operators : RollbackStep(o)
    \/ \E m \in Catalog : OperatorStep(m)
  BY DEF OperationsNext, RollbackNext, DeployNext, DeployerStep, RollbackStep

\* A deployer's step is about that deployer.
LEMMA OthersKeep ==
  ASSUME Typed, NEW e \in Deployers, DeployerStep(e), NEW d \in Deployers, d # e
  PROVE  UNCHANGED DeployOf(d)
<1>1. ASSUME Forget(e) PROVE UNCHANGED <<supplied[d], phase[d], todo[d], started[d], skipped[d], outcome[d]>>
  BY <1>1 DEF Forget, Typed
<1>2. ASSUME NEW from, NEW to, Goto(e, from, to) PROVE UNCHANGED pc[d]
  BY <1>2 DEF Goto, Typed
<1>3. ASSUME NEW m \in todo[e], Visit(e, m) PROVE UNCHANGED DeployOf(d)
  <2>1. CASE RefuseTampered(e, m) \/ Halt(e, m) \/ RefuseLeaf(e, m) \/ Arm(e, m) \/ Begin(e, m) \/ RunUp(e, m)
    BY <1>2, <2>1 DEF RefuseTampered, Halt, RefuseLeaf, Arm, Begin, RunUp, DeployOf, local
  <2>2. CASE Skip(e, m) \/ SkipRepeatable(e, m)
    BY <2>2 DEF Skip, SkipRepeatable, DeployOf, Typed
  <2>3. CASE LandSatisfied(e, m) \/ CommitUp(e, m) \/ Finalize(e, m)
    BY <1>2, <2>3 DEF LandSatisfied, CommitUp, Finalize, Land, DeployOf, Typed
  <2> QED
    BY <1>3, <2>1, <2>2, <2>3 DEF Visit
<1>4. CASE Advance(e)
  <2>1. CASE Refuse(e) \/ RefuseRepeatables(e) \/ Finish(e)
    BY <1>2, <2>1 DEF Refuse, RefuseRepeatables, Finish, DeployOf, local
  <2>2. CASE Plan(e)
    BY <1>2, <2>2 DEF Plan, DeployOf, Typed
  <2>3. CASE PlanRepeatables(e)
    BY <2>3 DEF PlanRepeatables, DeployOf, Typed
  <2>4. CASE Release(e)
    BY <1>1, <2>4 DEF Release, DeployOf, Typed
  <2> QED
    BY <1>3, <1>4, <2>1, <2>2, <2>3, <2>4 DEF Advance
<1>5. ASSUME NEW ms \in Manifests, NEW grant \in Grants, Submit(e, ms, grant) PROVE UNCHANGED DeployOf(d)
  BY <1>2, <1>5 DEF Submit, DeployOf, Typed
<1>6. CASE AcquireLock(e) \/ LoseGrant(e) \/ FailUp(e)
  BY <1>2, <1>6 DEF AcquireLock, LoseGrant, FailUp, DeployOf, local
<1>7. CASE FailStatement(e)
  BY <1>7 DEF FailStatement, DeployOf, local, Typed
<1>8. CASE GiveUp(e)
  BY <1>1, <1>2, <1>8 DEF GiveUp, DeployOf
<1>9. CASE Crash(e)
  BY <1>1, <1>9 DEF Crash, DeployOf, Typed
<1> QED
  BY <1>4, <1>5, <1>6, <1>7, <1>8, <1>9 DEF DeployerStep

\* The steps of a deploy that change the database.
Writes(d, m) ==
  \/ LandSatisfied(d, m)
  \/ Arm(d, m)
  \/ CommitUp(d, m)
  \/ RunUp(d, m)
  \/ Finalize(d, m)

Stops(d) == pc[d] = "up" /\ StopsMidUp(d) /\ UNCHANGED journal

LEMMA DeployerChanges ==
  ASSUME NEW d \in Deployers, DeployerStep(d)
  PROVE  \/ UNCHANGED database
         \/ \E m \in todo[d] : Writes(d, m)
         \/ Stops(d)
<1>1. ASSUME NEW m \in todo[d], Visit(d, m) PROVE UNCHANGED database \/ Writes(d, m)
  BY <1>1 DEF Visit, Writes, database, RefuseTampered, Skip, SkipRepeatable, Halt, RefuseLeaf, Begin
<1>2. CASE Advance(d)
  BY <1>1, <1>2 DEF Advance, Refuse, Plan, PlanRepeatables, RefuseRepeatables, Finish, Release, database
<1>3. CASE FailUp(d) \/ Crash(d)
  BY <1>3 DEF FailUp, Crash, Goto, Stops, database
<1>4. CASE FailStatement(d) \/ GiveUp(d) \/ AcquireLock(d) \/ LoseGrant(d)
  BY <1>4 DEF FailStatement, GiveUp, AcquireLock, LoseGrant, database
<1> QED
  BY <1>2, <1>3, <1>4 DEF DeployerStep, Submit, database

\* Those of a rollback.
Unwinds(o) == RollbackOne(o) \/ MarkDown(o) \/ RunDown(o) \/ FinalizeDown(o)

HalfUnwinds(o) == opc[o] = "down" /\ schema' \in HalfDown(NextStep(o)) /\ UNCHANGED journal

LEMMA RollbackChanges ==
  ASSUME NEW o \in Operators, RollbackStep(o)
  PROVE  UNCHANGED database \/ Unwinds(o) \/ HalfUnwinds(o)
<1>1. CASE AdvanceRollback(o)
  BY <1>1 DEF AdvanceRollback, PlanRollback, RefuseRollback, RefuseHalfReverted, FinishRollback,
              Unwinds, database, vars
<1>2. CASE StopRollback(o)
  BY <1>2 DEF StopRollback, HalfUnwinds, database
<1> QED
  BY <1>1, <1>2 DEF RollbackStep, AskRollback, LockRollback, database, vars

\* Every step that changes the database is one of these.
LEMMA Changes ==
  [OperationsNext]_allVars =>
    \/ UNCHANGED database
    \/ \E d \in Deployers : Stops(d) \/ \E m \in todo[d] : Writes(d, m)
    \/ \E o \in Operators : Unwinds(o) \/ HalfUnwinds(o)
    \/ \E m \in Catalog : OperatorStep(m)
<1>1. UNCHANGED allVars => UNCHANGED database
  BY DEF allVars, vars, database
<1> QED
  BY <1>1, OneProcess, DeployerChanges, RollbackChanges

\* Whoever changes the database holds the lock, or finds it free.
LEMMA DeployerHolds ==
  ASSUME NEW d \in Deployers, Stops(d) \/ \E m \in todo[d] : Writes(d, m)
  PROVE  pc[d] \in {"stepping", "up", "finalize"}
  BY DEF Stops, Writes, LandSatisfied, Arm, CommitUp, RunUp, Finalize, Runs, Admitted, Goto

LEMMA RollbackHolds ==
  ASSUME NEW o \in Operators, Unwinds(o) \/ HalfUnwinds(o)
  PROVE  opc[o] \in RollbackHolding
  BY DEF Unwinds, HalfUnwinds, RollbackOne, MarkDown, RunDown, FinalizeDown, Move, RollbackHolding

LEMMA OperatorHolds ==
  ASSUME NEW m \in Catalog, OperatorStep(m)
  PROVE  lock = NoOwner
  BY DEF OperatorStep, RecordSquash, Baseline, MarkApplied, ClearForRetry, SettleHalfReverted

\* Rollbacks and operators leave deployers as they are.
LEMMA DeploysKeep ==
  ASSUME \/ \E o \in Operators : RollbackStep(o)
         \/ \E m \in Catalog : OperatorStep(m)
  PROVE  UNCHANGED <<pc, local>>
<1>1. ASSUME NEW o \in Operators, AdvanceRollback(o) PROVE UNCHANGED <<pc, local>>
  BY <1>1 DEF AdvanceRollback, PlanRollback, RefuseRollback, RefuseHalfReverted, FinishRollback,
              RollbackOne, MarkDown, RunDown, FinalizeDown, RecordRolledBack, EndRollback, vars
<1>2. ASSUME NEW o \in Operators, RollbackStep(o) PROVE UNCHANGED <<pc, local>>
  BY <1>1, <1>2 DEF RollbackStep, AskRollback, LockRollback, StopRollback, EndRollback, vars
<1>3. ASSUME NEW m \in Catalog, OperatorStep(m) PROVE UNCHANGED <<pc, local>>
  BY <1>3 DEF OperatorStep, RecordSquash, Baseline, MarkApplied, ClearForRetry, SettleHalfReverted
<1> QED
  BY <1>2, <1>3

\* While a deployer is past the lock, it alone changes the database and what it keeps.
LEMMA DeployerFrame ==
  ASSUME OpsTyped, Locked, [OperationsNext]_allVars, NEW d \in Deployers
  PROVE  \/ DeployerStep(d) /\ UNCHANGED unwinding
         \/ UNCHANGED DeployOf(d) /\ (pc[d] \in Holding => UNCHANGED database)
<1>1. ASSUME UNCHANGED <<pc, local>> PROVE UNCHANGED DeployOf(d)
  BY <1>1 DEF DeployOf, local
<1>2. CASE UNCHANGED allVars
  BY <1>1, <1>2 DEF allVars, vars, database
<1>3. ASSUME NEW e \in Deployers, e # d, DeployerStep(e)
      PROVE  UNCHANGED DeployOf(d) /\ (pc[d] \in Holding => UNCHANGED database)
  <2>1. UNCHANGED DeployOf(d)
    BY <1>3, OthersKeep DEF OpsTyped, RollbackTypeOK
  <2>2. UNCHANGED database \/ pc[e] \in Holding
    BY <1>3, DeployerChanges, DeployerHolds DEF Holding
  <2> QED
    BY <1>3, <2>1, <2>2 DEF Locked, MutualExclusion
<1>4. ASSUME NEW o \in Operators, RollbackStep(o)
      PROVE  UNCHANGED DeployOf(d) /\ (pc[d] \in Holding => UNCHANGED database)
  <2>1. UNCHANGED DeployOf(d)
    BY <1>1, <1>4, DeploysKeep
  <2>2. UNCHANGED database \/ opc[o] \in RollbackHolding
    BY <1>4, RollbackChanges, RollbackHolds
  <2> QED
    BY <2>1, <2>2 DEF Locked, MutualExclusion, OperatorExclusion
<1>5. ASSUME NEW m \in Catalog, OperatorStep(m)
      PROVE  UNCHANGED DeployOf(d) /\ (pc[d] \in Holding => UNCHANGED database)
  BY <1>1, <1>5, DeploysKeep, OperatorHolds DEF Locked, MutualExclusion
<1> QED
  BY <1>2, <1>3, <1>4, <1>5, OneProcess

\* The same of a rollback.
LEMMA RollbackFrame ==
  ASSUME OpsTyped, Locked, [OperationsNext]_allVars, NEW o \in Operators
  PROVE  \/ RollbackStep(o)
         \/ UNCHANGED RollbackOf(o) /\ (opc[o] \in RollbackHolding => UNCHANGED database)
<1>1. ASSUME UNCHANGED unwinding PROVE UNCHANGED RollbackOf(o)
  BY <1>1 DEF RollbackOf, unwinding
<1>2. CASE UNCHANGED allVars
  BY <1>1, <1>2 DEF allVars, vars, database
<1>3. ASSUME NEW d \in Deployers, DeployerStep(d), UNCHANGED unwinding
      PROVE  UNCHANGED RollbackOf(o) /\ (opc[o] \in RollbackHolding => UNCHANGED database)
  <2>1. UNCHANGED database \/ pc[d] \in Holding
    BY <1>3, DeployerChanges, DeployerHolds DEF Holding
  <2> QED
    BY <1>1, <1>3, <2>1 DEF Locked, MutualExclusion, OperatorExclusion
<1>4. ASSUME NEW p \in Operators, p # o, RollbackStep(p)
      PROVE  UNCHANGED RollbackOf(o) /\ (opc[o] \in RollbackHolding => UNCHANGED database)
  <2>1. ASSUME EndRollback(p) PROVE UNCHANGED RollbackOf(o)
    BY <1>4, <2>1 DEF EndRollback, RollbackOf, OpsTyped, RollbackTypeOK
  <2>2. ASSUME AdvanceRollback(p) PROVE UNCHANGED RollbackOf(o)
    <3>1. CASE RefuseRollback(p) \/ RefuseHalfReverted(p) \/ FinishRollback(p)
      BY <2>1, <3>1 DEF RefuseRollback, RefuseHalfReverted, FinishRollback
    <3>2. CASE PlanRollback(p)
      BY <1>4, <3>2 DEF PlanRollback, Move, RollbackOf, OpsTyped, RollbackTypeOK
    <3>3. CASE RollbackOne(p) \/ MarkDown(p) \/ RunDown(p) \/ FinalizeDown(p)
      BY <1>4, <3>3 DEF RollbackOne, MarkDown, RunDown, FinalizeDown, RecordRolledBack, Move,
                        RollbackOf, OpsTyped, RollbackTypeOK
    <3> QED
      BY <2>2, <3>1, <3>2, <3>3 DEF AdvanceRollback
  <2>3. ASSUME LockRollback(p) \/ \E r \in Requests : AskRollback(p, r)
        PROVE  UNCHANGED RollbackOf(o)
    BY <1>4, <2>3 DEF AskRollback, LockRollback, Move, RollbackOf, OpsTyped, RollbackTypeOK
  <2>4. UNCHANGED RollbackOf(o)
    BY <1>4, <2>1, <2>2, <2>3 DEF RollbackStep, StopRollback
  <2>5. UNCHANGED database \/ opc[p] \in RollbackHolding
    BY <1>4, RollbackChanges, RollbackHolds
  <2> QED
    BY <1>4, <2>4, <2>5 DEF Locked, OperatorExclusion
<1>5. ASSUME NEW m \in Catalog, OperatorStep(m)
      PROVE  UNCHANGED RollbackOf(o) /\ (opc[o] \in RollbackHolding => UNCHANGED database)
  BY <1>1, <1>5, OperatorHolds DEF OperatorStep, Locked, OperatorExclusion
<1> QED
  BY <1>2, <1>3, <1>4, <1>5, OneProcess

\* What a deployer's own step can be, to the deployer.
LocalsOf(d) == <<supplied[d], phase[d], todo[d], started[d], skipped[d], outcome[d]>>

LocalsKept(d) == UNCHANGED LocalsOf(d)

LocalsReset(d) ==
  /\ supplied'[d] = {} /\ phase'[d] = "versioned" /\ todo'[d] = {}
  /\ started'[d] = {} /\ skipped'[d] = {} /\ outcome'[d] = {}

LEMMA DeployerMoves ==
  ASSUME Typed, NEW d \in Deployers, DeployerStep(d)
  PROVE  \/ LocalsKept(d) /\ pc'[d] = "failed" /\ (UNCHANGED database \/ Stops(d))
         \/ LocalsReset(d) /\ pc'[d] = "idle" /\ (UNCHANGED database \/ Stops(d))
         \/ \E ms \in Manifests, grant \in Grants : Submit(d, ms, grant)
         \/ AcquireLock(d)
         \/ Plan(d)
         \/ PlanRepeatables(d)
         \/ Finish(d)
         \/ \E m \in todo[d] : Skip(d, m) \/ SkipRepeatable(d, m) \/ Begin(d, m) \/ Writes(d, m)
<1>1. ASSUME UNCHANGED local PROVE LocalsKept(d)
  BY <1>1 DEF LocalsKept, LocalsOf, local
<1>2. ASSUME Forget(d) PROVE LocalsReset(d)
  BY <1>2 DEF Forget, LocalsReset, Typed
<1>3. ASSUME NEW from, NEW to, Goto(d, from, to) PROVE pc'[d] = to
  BY <1>3 DEF Goto, Typed
<1>4. ASSUME NEW m \in todo[d], RefuseTampered(d, m) \/ Halt(d, m) \/ RefuseLeaf(d, m)
      PROVE  LocalsKept(d) /\ pc'[d] = "failed" /\ UNCHANGED database
  BY <1>1, <1>3, <1>4 DEF RefuseTampered, Halt, RefuseLeaf, database
<1>5. CASE Refuse(d) \/ RefuseRepeatables(d) \/ LoseGrant(d) \/ FailStatement(d)
  <2>1. UNCHANGED local /\ UNCHANGED database
    BY <1>5 DEF Refuse, RefuseRepeatables, LoseGrant, FailStatement, database
  <2>2. pc'[d] = "failed"
    BY <1>3, <1>5 DEF Refuse, RefuseRepeatables, LoseGrant, FailStatement, Typed
  <2> QED
    BY <1>1, <2>1, <2>2
<1>6. CASE Release(d) \/ GiveUp(d)
  <2>1. Forget(d) /\ UNCHANGED database
    BY <1>6 DEF Release, GiveUp, database
  <2>2. pc'[d] = "idle"
    BY <1>3, <1>6 DEF Release, GiveUp, Typed
  <2> QED
    BY <1>2, <2>1, <2>2
<1>7. CASE FailUp(d)
  BY <1>1, <1>3, <1>7 DEF FailUp, Goto, Stops
<1>8. CASE Crash(d)
  <2>1. pc'[d] = "idle" /\ Forget(d)
    BY <1>8 DEF Crash, Typed
  <2>2. UNCHANGED database \/ Stops(d)
    BY <1>8 DEF Crash, Stops, database
  <2> QED
    BY <1>2, <2>1, <2>2
<1>9. CASE Advance(d)
  BY <1>4, <1>5, <1>6, <1>9 DEF Advance, Visit, Writes
<1> QED
  BY <1>5, <1>6, <1>7, <1>8, <1>9 DEF DeployerStep

-----------------------------------------------------------------------------
(* What a deploy has yet to do.                                            *)

\* Part of what it was handed, of one kind, and in the versioned phase neither journaled
\* nor superseded within the set; what the set has as repeatable is journaled as nothing
\* else.
PlanKept(d) ==
  /\ supplied[d] = {} \/ supplied[d] \in Manifests
  /\ todo[d] \subseteq supplied[d]
  /\ pc[d] \in {"idle", "waiting", "planning"} => todo[d] = {} /\ phase[d] = "versioned"
  /\ pc[d] \in {"stepping", "up", "finalize"} =>
       /\ ~Malformed(supplied[d])
       /\ \A m \in supplied[d], e \in NetApplied(events) :
            m.repeatable /\ e.version = m.version => e.kind = "repeatable"
  /\ phase[d] = "versioned" => \A m \in todo[d] :
       /\ ~m.repeatable /\ m.version \notin Completed(events)
       /\ \A n \in supplied[d] : m.version \notin n.supersedes
  /\ phase[d] = "repeatable" => \A m \in todo[d] :
       m.repeatable /\ m.supersedes = {} /\ m.down = "none"

PlansKept == \A d \in Deployers : PlanKept(d)

\* A step that moves a deployer on within its plan, or out of it, and journals nothing.
LEMMA PlanQuiet ==
  ASSUME NEW d \in Deployers, PlanKept(d), UNCHANGED events,
         UNCHANGED <<supplied[d], phase[d]>>, todo'[d] \subseteq todo[d],
         \/ pc'[d] \in {"ok", "failed"}
         \/ pc'[d] \in {"stepping", "up", "finalize"} /\ pc[d] \in {"stepping", "up", "finalize"}
  PROVE  PlanKept(d)'
  BY DEF PlanKept

\* Landing a migration: what is left of the plan is of other versions.
LEMMA PlanLand ==
  ASSUME Typed, NEW d \in Deployers, PlanKept(d), NEW m \in todo[d], Land(d, m),
         pc[d] \in {"stepping", "up", "finalize"}, pc'[d] = "stepping"
  PROVE  PlanKept(d)'
<1> DEFINE row == AppliedEvent(m, KindOf(m))
<1>1. /\ supplied'[d] = supplied[d] /\ phase'[d] = phase[d] /\ todo'[d] = todo[d] \ {m}
  BY DEF Land, Typed
<1>2. m \in Catalog /\ m \in supplied[d] /\ supplied[d] \in Manifests
  BY DEF Typed, PlanKept
<1>3. \A x \in supplied[d] : x.version = m.version => x = m
  BY <1>2
<1>4. Completed(events') = Completed(events) \cup {m.version}
  BY LandCompletes
<1>5. row \in Event /\ row.event = "applied" /\ row.version = m.version /\ row.kind = KindOf(m)
  BY <1>2, CatalogType DEF AppliedEvent
<1>6. NetApplied(events') = {x \in NetApplied(events) : x.version # m.version} \cup {row}
  BY <1>5, NetAppliedAppend DEF Land, Typed
<1>7. \A x \in supplied[d], e \in NetApplied(events') :
        x.repeatable /\ e.version = x.version => e.kind = "repeatable"
  BY <1>3, <1>5, <1>6 DEF PlanKept, KindOf
<1>8. \A x \in todo'[d] : x.version \in Completed(events') => x.version \in Completed(events)
  BY <1>1, <1>3, <1>4 DEF PlanKept
<1> QED
  BY <1>1, <1>7, <1>8 DEF PlanKept

\* A plan is computed under the lock.
LEMMA PlanPlans ==
  ASSUME Typed, NEW d \in Deployers, PlanKept(d), Plan(d)
  PROVE  PlanKept(d)'
<1> DEFINE all == supplied[d]
           ms == Versioned(all)
<1>1. /\ todo'[d] = Pending(ms) /\ supplied'[d] = all /\ phase'[d] = phase[d]
      /\ pc'[d] = "stepping" /\ UNCHANGED events /\ pc[d] = "planning"
  BY DEF Plan, Goto, Typed, journal
<1>2. ~Malformed(all) /\ ~Drifted(all)
  BY DEF Plan, Refused
<1>3. \A x \in Pending(ms) :
        /\ x \in all /\ ~x.repeatable /\ x.version \notin Completed(events)
        /\ \A n \in all : x.version \notin n.supersedes
  BY <1>2 DEF Pending, Versioned, Covered, Malformed, Repeatables
<1>4. \A m \in all, e \in NetApplied(events) :
        m.repeatable /\ e.version = m.version => e.kind = "repeatable"
  BY <1>2 DEF Drifted
<1>5. phase[d] = "versioned"
  BY <1>1 DEF PlanKept
<1> QED
  BY <1>1, <1>2, <1>3, <1>4, <1>5 DEF PlanKept

\* So is the plan of the repeatables.
LEMMA PlanPlansRepeatables ==
  ASSUME Typed, NEW d \in Deployers, PlanKept(d), PlanRepeatables(d)
  PROVE  PlanKept(d)'
<1>1. /\ todo'[d] = Repeatables(supplied[d]) /\ phase'[d] = "repeatable"
      /\ supplied'[d] = supplied[d] /\ pc'[d] = pc[d] /\ pc[d] = "stepping" /\ UNCHANGED events
  BY DEF PlanRepeatables, Typed, journal
<1>2. \A m \in Repeatables(supplied[d]) :
        m \in supplied[d] /\ m.repeatable /\ m.supersedes = {} /\ m.down = "none"
  BY <1>1 DEF Repeatables, PlanKept, Malformed
<1> QED
  BY <1>1, <1>2 DEF PlanKept

\* A deployer's own step.
LEMMA PlanMoves ==
  ASSUME Typed, NEW d \in Deployers, PlanKept(d), DeployerStep(d)
  PROVE  PlanKept(d)'
<1>1. UNCHANGED database \/ Stops(d) => UNCHANGED events
  BY DEF database, Stops, journal
<1>2. CASE LocalsKept(d) /\ pc'[d] = "failed" /\ (UNCHANGED database \/ Stops(d))
  BY <1>1, <1>2, PlanQuiet DEF LocalsKept, LocalsOf
<1>3. CASE LocalsReset(d) /\ pc'[d] = "idle"
  BY <1>3 DEF LocalsReset, PlanKept
<1>4. ASSUME NEW ms \in Manifests, NEW grant \in Grants, Submit(d, ms, grant) PROVE PlanKept(d)'
  <2>1. /\ supplied'[d] = ms /\ pc'[d] = "waiting" /\ UNCHANGED <<todo, phase>> /\ pc[d] = "idle"
    BY <1>4 DEF Submit, Goto, Typed
  <2> QED
    BY <2>1 DEF PlanKept
<1>5. CASE AcquireLock(d)
  <2>1. pc'[d] = "planning" /\ pc[d] = "waiting" /\ UNCHANGED local
    BY <1>5 DEF AcquireLock, Goto, Typed
  <2> QED
    BY <2>1 DEF PlanKept, local
<1>6. CASE Plan(d) \/ PlanRepeatables(d)
  BY <1>6, PlanPlans, PlanPlansRepeatables
<1>7. CASE Finish(d)
  BY <1>7, PlanQuiet DEF Finish, Goto, Typed, local, journal
<1>8. ASSUME NEW m \in todo[d], Skip(d, m) \/ SkipRepeatable(d, m) PROVE PlanKept(d)'
  <2>1. /\ todo' = [todo EXCEPT ![d] = todo[d] \ {m}] /\ UNCHANGED pc /\ pc[d] = "stepping"
        /\ UNCHANGED <<events, supplied, phase>>
    BY <1>8 DEF Skip, SkipRepeatable, journal
  <2>2. todo'[d] \subseteq todo[d]
    BY <2>1 DEF Typed
  <2> QED
    BY <2>1, <2>2, PlanQuiet
<1>9. ASSUME NEW m \in todo[d], Begin(d, m) \/ Arm(d, m) \/ RunUp(d, m) PROVE PlanKept(d)'
  <2>1. /\ UNCHANGED <<events, supplied, phase, todo>>
        /\ pc[d] \in {"stepping", "up"} /\ pc'[d] \in {"up", "finalize"}
    BY <1>9 DEF Begin, Arm, RunUp, Goto, Typed, local, journal
  <2> QED
    BY <2>1, PlanQuiet
<1>10. ASSUME NEW m \in todo[d], LandSatisfied(d, m) \/ CommitUp(d, m) \/ Finalize(d, m)
       PROVE  PlanKept(d)'
  <2>1. Land(d, m) /\ pc[d] \in {"stepping", "up", "finalize"} /\ pc'[d] = "stepping"
    BY <1>10 DEF LandSatisfied, CommitUp, Finalize, Goto, Admitted, Typed
  <2> QED
    BY <2>1, PlanLand
<1> QED
  BY <1>2, <1>3, <1>4, <1>5, <1>6, <1>7, <1>8, <1>9, <1>10, DeployerMoves DEF Writes

\* Any step.
LEMMA PlansStep == OpsTyped /\ Locked /\ PlansKept /\ [OperationsNext]_allVars => PlansKept'
<1> SUFFICES ASSUME OpsTyped, Locked, PlansKept, [OperationsNext]_allVars, NEW d \in Deployers
             PROVE  PlanKept(d)'
  BY DEF PlansKept
<1>1. PlanKept(d) /\ Typed
  BY DEF PlansKept, OpsTyped, RollbackTypeOK
<1>2. CASE DeployerStep(d)
  BY <1>1, <1>2, PlanMoves
<1>3. CASE UNCHANGED DeployOf(d) /\ (pc[d] \in Holding => UNCHANGED database)
  <2>1. pc[d] \notin Holding => todo[d] = {} /\ phase[d] = "versioned"
    BY <1>1 DEF PlanKept, Typed
  <2>2. pc[d] \in Holding => UNCHANGED events
    BY <1>3 DEF database, journal
  <2>3. UNCHANGED <<pc[d], supplied[d], phase[d], todo[d]>>
    BY <1>3 DEF DeployOf
  <2> QED
    BY <1>1, <2>1, <2>2, <2>3 DEF PlanKept, Holding
<1> QED
  BY <1>2, <1>3, DeployerFrame

LEMMA PlansInvariant == OperationsSpec => []PlansKept
<1>1. RollbackInit => PlansKept
  BY DEF RollbackInit, Init, PlansKept, PlanKept
<1> QED
  BY <1>1, PlansStep, OpsTypeInvariant, LockedInvariant, PTL DEF OperationsSpec

-----------------------------------------------------------------------------
(* What a rollback has yet to unwind.                                      *)

\* The artifact's version is net-applied in its body.
Journaled(m) == \E e \in NetApplied(events) : e.version = m.version /\ e.checksum = m.checksum

\* The steps are of different versions, reversible, and each is the body that ran; on MySQL
\* the version between the two transactions of a step has its marker.
UnwindKept(o) ==
  /\ opc[o] \in {"idle", "waiting", "planning"} => steps[o] = <<>>
  /\ opc[o] \in {"down", "finalize"} =>
       Backend = "mysql" /\ steps[o] # <<>> /\ NextStep(o).version \in rbInflight
  /\ \A i, j \in DOMAIN steps[o] : steps[o][i].version = steps[o][j].version => i = j
  /\ \A i \in DOMAIN steps[o] : Journaled(steps[o][i]) /\ steps[o][i].down = "txn"

UnwindsKept == \A o \in Operators : UnwindKept(o)

\* What is planned ran in the body that will be unwound: an edited one is refused.
LEMMA UnwindPlans ==
  ASSUME OpsTyped, NEW o \in Operators, UnwindKept(o), PlanRollback(o)
  PROVE  UnwindKept(o)'
<1> DEFINE r == request[o]
<1>1. r.supplied \subseteq Catalog
  BY DEF OpsTyped, RollbackTypeOK, NoRequest
<1>2. PICK s \in ReverseOrders(r) : steps' = [steps EXCEPT ![o] = s]
  BY DEF PlanRollback
<1>3. /\ s \in Seq(Unwound(r))
      /\ \A i, j \in DOMAIN s : i # j => s[i] # s[j]
  BY <1>1, ReverseOrdersType
<1>4. steps'[o] = s /\ opc'[o] = "stepping" /\ UNCHANGED events
  BY <1>2 DEF PlanRollback, Move, OpsTyped, RollbackTypeOK, vars, journal
<1>5. Selected(r.target) \subseteq Completed(events)
  BY DEF Selected, AppliedAfter
<1>6. ASSUME NEW m \in Unwound(r) PROVE m \in Catalog /\ Journaled(m) /\ m.down = "txn"
  <2>1. m \in Chosen(r) /\ m \in Catalog /\ m.down # "none" /\ m.version \in Selected(r.target)
    BY <1>1 DEF Unwound, Chosen
  <2>2. PICK e \in NetApplied(events) : e.version = m.version
    BY <1>5, <2>1 DEF Completed
  <2>3. ~ChecksumDrift(r) /\ m.down # "denied"
    BY DEF PlanRollback, RollbackRefused
  <2>4. e.checksum = m.checksum
    BY <2>1, <2>2, <2>3 DEF ChecksumDrift
  <2> QED
    BY <2>1, <2>2, <2>3, <2>4 DEF Journaled, Migration
<1>7. ASSUME NEW m \in Unwound(r), NEW n \in Unwound(r), m.version = n.version PROVE m = n
  <2>1. events \in Seq(Event)
    BY DEF OpsTyped, RollbackTypeOK, Typed
  <2>2. m.checksum = n.checksum
    BY <1>6, <1>7, <2>1, NetAppliedRow DEF Journaled
  <2> QED
    BY <1>6, <1>7, <2>2
<1>8. \A i \in DOMAIN s : s[i] \in Unwound(r)
  BY <1>3
<1>9. \A i, j \in DOMAIN s : s[i].version = s[j].version => i = j
  BY <1>3, <1>7, <1>8
<1>10. \A i \in DOMAIN s : Journaled(s[i])' /\ s[i].down = "txn"
  BY <1>4, <1>6, <1>8 DEF Journaled
<1> QED
  BY <1>4, <1>9, <1>10 DEF UnwindKept

\* A step that is recorded leaves those of other versions.
LEMMA UnwindRecords ==
  ASSUME OpsTyped, NEW o \in Operators, UnwindKept(o), RecordRolledBack(o), steps[o] # <<>>,
         opc'[o] = "stepping"
  PROVE  UnwindKept(o)'
<1> DEFINE row == RolledBackEvent(NextStep(o))
           s == steps[o]
<1>1. row \in Event /\ row.event = "rolled_back" /\ row.version = s[1].version
  BY NextStepType DEF OpsTyped, RolledBackEvent
<1>2. events \in Seq(Event) /\ s \in Seq(Catalog) /\ events' = Append(events, row)
  BY DEF OpsTyped, RollbackTypeOK, Typed, RecordRolledBack
<1>3. NetApplied(events') = {x \in NetApplied(events) : x.version # s[1].version}
  BY <1>1, <1>2, NetAppliedUnwind
<1>4. steps'[o] = Tail(s)
  BY DEF RecordRolledBack, OpsTyped, RollbackTypeOK
<1>5. /\ DOMAIN Tail(s) = 1..(Len(s) - 1) /\ DOMAIN s = 1..Len(s) /\ Len(s) \in Nat /\ Len(s) > 0
      /\ \A i \in DOMAIN Tail(s) : Tail(s)[i] = s[i + 1]
  BY <1>2
<1>6. \A i \in DOMAIN Tail(s) : i + 1 \in DOMAIN s /\ i + 1 # 1 /\ 1 \in DOMAIN s
  BY <1>5
<1>7. \A i, j \in DOMAIN Tail(s) : Tail(s)[i].version = Tail(s)[j].version => i = j
  <2> SUFFICES ASSUME NEW i \in DOMAIN Tail(s), NEW j \in DOMAIN Tail(s),
                      Tail(s)[i].version = Tail(s)[j].version
               PROVE  i = j
    OBVIOUS
  <2>1. i + 1 = j + 1
    BY <1>5, <1>6 DEF UnwindKept
  <2> QED
    BY <1>5, <2>1
<1>8. ASSUME NEW i \in DOMAIN Tail(s)
      PROVE  /\ \E e \in NetApplied(events') :
                  e.version = Tail(s)[i].version /\ e.checksum = Tail(s)[i].checksum
             /\ Tail(s)[i].down = "txn"
  <2>1. Journaled(s[i + 1]) /\ s[i + 1].down = "txn" /\ s[i + 1].version # s[1].version
    BY <1>6 DEF UnwindKept
  <2>2. PICK e \in NetApplied(events) : e.version = s[i + 1].version /\ e.checksum = s[i + 1].checksum
    BY <2>1 DEF Journaled
  <2>3. e \in NetApplied(events')
    BY <1>3, <2>1, <2>2
  <2>4. Tail(s)[i] = s[i + 1]
    BY <1>5
  <2> QED
    BY <2>1, <2>2, <2>3, <2>4
<1>9. /\ \A i, j \in DOMAIN steps'[o] : steps'[o][i].version = steps'[o][j].version => i = j
      /\ \A i \in DOMAIN steps'[o] :
           /\ \E e \in NetApplied(events') :
                e.version = steps'[o][i].version /\ e.checksum = steps'[o][i].checksum
           /\ steps'[o][i].down = "txn"
  BY <1>4, <1>7, <1>8
<1> QED
  BY <1>9 DEF UnwindKept, Journaled

\* A rollback that is over has nothing to unwind.
LEMMA UnwindEnds ==
  ASSUME OpsTyped, NEW o \in Operators, EndRollback(o)
  PROVE  UnwindKept(o)' /\ opc'[o] = "idle" /\ steps'[o] = <<>>
<1>1. opc'[o] = "idle" /\ steps'[o] = <<>>
  BY DEF EndRollback, OpsTyped, RollbackTypeOK
<1> QED
  BY <1>1 DEF UnwindKept

\* A rollback's own step.
LEMMA UnwindMoves ==
  ASSUME OpsTyped, NEW o \in Operators, UnwindKept(o), RollbackStep(o)
  PROVE  UnwindKept(o)'
<1>1. ASSUME NEW r \in Requests, AskRollback(o, r) PROVE UnwindKept(o)'
  <2>1. opc[o] = "idle" /\ opc'[o] = "waiting" /\ UNCHANGED steps
    BY <1>1 DEF AskRollback, Move, OpsTyped, RollbackTypeOK
  <2> QED
    BY <2>1 DEF UnwindKept
<1>2. CASE LockRollback(o)
  <2>1. opc[o] = "waiting" /\ opc'[o] = "planning" /\ UNCHANGED steps
    BY <1>2 DEF LockRollback, Move, OpsTyped, RollbackTypeOK
  <2> QED
    BY <2>1 DEF UnwindKept
<1>3. CASE RefuseRollback(o) \/ RefuseHalfReverted(o) \/ FinishRollback(o) \/ StopRollback(o)
  BY <1>3, UnwindEnds DEF RefuseRollback, RefuseHalfReverted, FinishRollback, StopRollback
<1>4. CASE PlanRollback(o)
  BY <1>4, UnwindPlans
<1>5. CASE RollbackOne(o)
  BY <1>5, UnwindRecords DEF RollbackOne
<1>6. CASE FinalizeDown(o)
  <2>1. opc[o] = "finalize" /\ opc'[o] = "stepping" /\ RecordRolledBack(o)
    BY <1>6 DEF FinalizeDown, Move, OpsTyped, RollbackTypeOK
  <2>2. steps[o] # <<>>
    BY <2>1 DEF UnwindKept
  <2> QED
    BY <2>1, <2>2, UnwindRecords
<1>7. CASE MarkDown(o)
  <2>1. /\ opc'[o] = "down" /\ UNCHANGED <<steps, events>> /\ Backend = "mysql" /\ steps[o] # <<>>
        /\ rbInflight' = rbInflight \cup {NextStep(o).version}
    BY <1>7 DEF MarkDown, Move, OpsTyped, RollbackTypeOK
  <2> QED
    BY <2>1 DEF UnwindKept, NextStep, Journaled
<1>8. CASE RunDown(o)
  <2>1. opc[o] = "down" /\ opc'[o] = "finalize" /\ UNCHANGED <<steps, events, rbInflight>>
    BY <1>8 DEF RunDown, Move, OpsTyped, RollbackTypeOK, journal
  <2> QED
    BY <2>1 DEF UnwindKept, NextStep, Journaled
<1> QED
  BY <1>1, <1>2, <1>3, <1>4, <1>5, <1>6, <1>7, <1>8 DEF RollbackStep, AdvanceRollback

\* Any step.
LEMMA UnwindsStep == OpsTyped /\ Locked /\ UnwindsKept /\ [OperationsNext]_allVars => UnwindsKept'
<1> SUFFICES ASSUME OpsTyped, Locked, UnwindsKept, [OperationsNext]_allVars, NEW o \in Operators
             PROVE  UnwindKept(o)'
  BY DEF UnwindsKept
<1>1. UnwindKept(o)
  BY DEF UnwindsKept
<1>2. CASE RollbackStep(o)
  BY <1>1, <1>2, UnwindMoves
<1>3. CASE UNCHANGED RollbackOf(o) /\ (opc[o] \in RollbackHolding => UNCHANGED database)
  <2>1. UNCHANGED <<opc[o], steps[o]>>
    BY <1>3 DEF RollbackOf
  <2>2. CASE opc[o] \in RollbackHolding
    BY <1>1, <1>3, <2>1, <2>2 DEF UnwindKept, NextStep, Journaled, database, journal
  <2>3. CASE opc[o] \notin RollbackHolding
    <3>1. opc[o] \in {"idle", "waiting"} /\ steps[o] = <<>>
      BY <1>1, <2>3 DEF UnwindKept, OpsTyped, RollbackTypeOK
    <3> QED
      BY <2>1, <3>1 DEF UnwindKept
  <2> QED
    BY <2>2, <2>3
<1> QED
  BY <1>2, <1>3, RollbackFrame

LEMMA UnwindsInvariant == OperationsSpec => []UnwindsKept
<1>1. RollbackInit => UnwindsKept
  BY DEF RollbackInit, Init, UnwindsKept, UnwindKept
<1> QED
  BY <1>1, UnwindsStep, OpsTypeInvariant, LockedInvariant, PTL DEF OperationsSpec

-----------------------------------------------------------------------------
(* The journal as a history.                                               *)

\* On MySQL the marker of a once-only migration that is net-applied is gone.
MarkersPend ==
  Backend = "mysql" =>
    \A a \in Catalog : ~a.repeatable /\ Recorded(a) => a.version \notin Completed(events)

\* A row that a step adds: one of a version that is pending, or repeatable, or one that
\* undoes what is net-applied.
Applies(e) ==
  /\ e.event = "applied" /\ events' = Append(events, e)
  /\ e.kind = "repeatable" \/ e.version \notin Completed(events)

Undoes(e) ==
  /\ e.event = "rolled_back" /\ events' = Append(events, e)
  /\ \E f \in NetApplied(events) : f.version = e.version /\ f.checksum = e.checksum

\* A deploy lands what is pending.
LEMMA LandApplies ==
  ASSUME Typed, NEW d \in Deployers, PlanKept(d), NEW m \in todo[d], Land(d, m)
  PROVE  \E e \in Event : Applies(e)
<1> DEFINE row == AppliedEvent(m, KindOf(m))
<1>1. m \in Catalog
  BY DEF Typed
<1>2. row \in Event /\ row.event = "applied" /\ row.version = m.version /\ row.kind = KindOf(m)
  BY <1>1, CatalogType DEF AppliedEvent
<1>3. KindOf(m) = "repeatable" \/ m.version \notin Completed(events)
  BY DEF PlanKept, KindOf, Typed
<1> QED
  BY <1>2, <1>3 DEF Applies, Land

\* What can happen to the journal's events in a step.
LEMMA EventsMove ==
  ASSUME OpsTyped, PlansKept, UnwindsKept, MarkersPend, [OperationsNext]_allVars
  PROVE  UNCHANGED events \/ \E e \in Event : Applies(e) \/ Undoes(e)
<1>1. Typed
  BY DEF OpsTyped, RollbackTypeOK
<1>2. ASSUME NEW d \in Deployers, NEW m \in todo[d], Writes(d, m)
      PROVE  UNCHANGED events \/ \E e \in Event : Applies(e)
  <2>1. UNCHANGED events \/ Land(d, m)
    BY <1>2 DEF Writes, LandSatisfied, Arm, CommitUp, RunUp, Finalize, journal
  <2> QED
    BY <1>1, <2>1, LandApplies DEF PlansKept
<1>3. ASSUME NEW d \in Deployers, Stops(d) PROVE UNCHANGED events
  BY <1>3 DEF Stops, journal
<1>4. ASSUME NEW o \in Operators, Unwinds(o) \/ HalfUnwinds(o)
      PROVE  UNCHANGED events \/ \E e \in Event : Undoes(e)
  <2>1. UNCHANGED events \/ (RecordRolledBack(o) /\ steps[o] # <<>>)
    BY <1>4 DEF Unwinds, HalfUnwinds, RollbackOne, MarkDown, RunDown, FinalizeDown, Move, journal,
                UnwindsKept, UnwindKept
  <2>2. ASSUME RecordRolledBack(o), steps[o] # <<>> PROVE Undoes(RolledBackEvent(NextStep(o)))
    <3>1. Journaled(NextStep(o))
      BY <2>2, NextStepType DEF UnwindsKept, UnwindKept, OpsTyped
    <3> QED
      BY <2>2, <3>1 DEF Journaled, Undoes, RolledBackEvent, RecordRolledBack
  <2> QED
    BY <2>1, <2>2, NextStepType DEF OpsTyped
<1>5. ASSUME NEW m \in Catalog, OperatorStep(m)
      PROVE  UNCHANGED events \/ \E e \in Event : Applies(e)
  <2> DEFINE row(k) == AppliedEvent(m, k)
  <2>1. \A k \in Kinds : row(k) \in Event /\ row(k).event = "applied"
                         /\ row(k).version = m.version /\ row(k).kind = k
    BY CatalogType DEF AppliedEvent, Event
  <2>2. CASE RecordSquash(m)
    BY <2>1, <2>2 DEF RecordSquash, Applies, Kinds
  <2>3. CASE Baseline(m)
    BY <2>1, <2>3 DEF Baseline, Applies, Kinds
  <2>4. CASE MarkApplied(m)
    <3>1. KindOf(m) = "repeatable" \/ m.version \notin Completed(events)
      BY <2>4 DEF MarkApplied, MarkersPend, KindOf
    <3> QED
      BY <2>1, <2>4, <3>1, CatalogType DEF MarkApplied, Applies
  <2>5. CASE ClearForRetry(m) \/ SettleHalfReverted(m)
    BY <2>5 DEF ClearForRetry, SettleHalfReverted
  <2> QED
    BY <1>5, <2>2, <2>3, <2>4, <2>5 DEF OperatorStep
<1>6. UNCHANGED database => UNCHANGED events
  BY DEF database, journal
<1> QED
  BY <1>2, <1>3, <1>4, <1>5, <1>6, Changes

\* What happens to the markers with it.
LEMMA MarkersPendStep ==
  ASSUME OpsTyped, PlansKept, UnwindsKept, MarkersPend, [OperationsNext]_allVars
  PROVE  MarkersPend'
<1> SUFFICES ASSUME Backend = "mysql", NEW a \in Catalog, ~a.repeatable, Recorded(a)'
             PROVE  a.version \notin Completed(events')
  BY DEF MarkersPend
<1>0. /\ events \in Seq(Event) /\ inflight \in [Versions -> Checksums \cup {NoMarker}]
      /\ a.version \in Versions /\ a.checksum \in Checksums /\ a.checksum # NoMarker /\ Typed
  BY CatalogType DEF OpsTyped, RollbackTypeOK, Typed
<1>1. ASSUME UNCHANGED inflight, Completed(events') \subseteq Completed(events)
      PROVE  a.version \notin Completed(events')
  BY <1>1 DEF Recorded, MarkersPend
<1>2. CASE UNCHANGED journal
  BY <1>1, <1>2 DEF journal
<1>3. ASSUME NEW m \in Catalog, inflight' = [inflight EXCEPT ![m.version] = NoMarker],
             \/ UNCHANGED events
             \/ Completed(events') = Completed(events) \cup {m.version}
      PROVE  a.version \notin Completed(events')
  <2>1. a.version # m.version /\ Recorded(a)
    BY <1>0, <1>3, CatalogType DEF Recorded
  <2> QED
    BY <1>3, <2>1 DEF MarkersPend
<1>4. ASSUME NEW d \in Deployers, NEW m \in todo[d], Writes(d, m)
      PROVE  a.version \notin Completed(events')
  <2>1. m \in Catalog /\ m.version \in Versions
    BY <1>0, CatalogType DEF Typed
  <2>2. CASE Land(d, m)
    BY <1>0, <1>3, <2>1, <2>2, LandCompletes DEF Land, TwoPhase
  <2>3. CASE RunUp(d, m)
    BY <1>2, <2>3 DEF RunUp
  <2>4. CASE Arm(d, m)
    <3>1. UNCHANGED events /\ inflight' = Armed(m)
      BY <2>4 DEF Arm
    <3>2. CASE Recorded(a)
      BY <3>1, <3>2 DEF MarkersPend
    <3>3. CASE ~Recorded(a)
      <4>1. a.version = m.version /\ a.checksum = m.checksum
        BY <1>0, <2>1, <3>1, <3>3 DEF Recorded, Armed
      <4>2. a = m
        BY <2>1, <4>1
      <4>3. a.version \notin Completed(events)
        BY <1>0, <4>2 DEF PlansKept, PlanKept, Typed
      <4> QED
        BY <3>1, <4>3
    <3> QED
      BY <3>2, <3>3
  <2> QED
    BY <1>4, <2>2, <2>3, <2>4 DEF Writes, LandSatisfied, CommitUp, Finalize
<1>5. ASSUME NEW o \in Operators, Unwinds(o) \/ HalfUnwinds(o)
      PROVE  a.version \notin Completed(events')
  <2>1. UNCHANGED inflight
    BY <1>5 DEF Unwinds, HalfUnwinds, RollbackOne, MarkDown, RunDown, FinalizeDown,
                RecordRolledBack, journal
  <2>2. UNCHANGED events \/ (RecordRolledBack(o) /\ steps[o] # <<>>)
    BY <1>5 DEF Unwinds, HalfUnwinds, RollbackOne, MarkDown, RunDown, FinalizeDown, Move, journal,
                UnwindsKept, UnwindKept
  <2>3. ASSUME RecordRolledBack(o), steps[o] # <<>> PROVE Completed(events') \subseteq Completed(events)
    <3> DEFINE row == RolledBackEvent(NextStep(o))
    <3>1. row \in Event /\ row.event = "rolled_back" /\ events' = Append(events, row)
      BY <2>3, NextStepType DEF OpsTyped, RolledBackEvent, RecordRolledBack
    <3> QED
      BY <1>0, <3>1, CompletedUnwind
  <2> QED
    BY <1>1, <2>1, <2>2, <2>3
<1>6. ASSUME NEW m \in Catalog, OperatorStep(m) PROVE a.version \notin Completed(events')
  <2>1. CASE MarkApplied(m)
    <3> DEFINE row == AppliedEvent(m, KindOf(m))
    <3>1. row \in Event /\ row.event = "applied" /\ row.version = m.version
      BY CatalogType DEF AppliedEvent
    <3>2. Completed(events') = Completed(events) \cup {m.version}
      BY <1>0, <2>1, <3>1, CompletedAppend DEF MarkApplied
    <3> QED
      BY <1>3, <2>1, <3>2 DEF MarkApplied
  <2>2. CASE ClearForRetry(m)
    BY <1>3, <2>2 DEF ClearForRetry
  <2>3. CASE SettleHalfReverted(m)
    BY <1>1, <2>3 DEF SettleHalfReverted
  <2> QED
    BY <1>6, <2>1, <2>2, <2>3 DEF OperatorStep, RecordSquash, Baseline
<1>7. UNCHANGED database => UNCHANGED journal
  BY DEF database
<1> QED
  BY <1>2, <1>4, <1>5, <1>6, <1>7, Changes DEF Stops, HalfUnwinds

\* An applied row stands, or a later one undoes it.
RowsEnd ==
  \A i \in DOMAIN events : events[i].event = "applied" =>
    \/ events[i].version \in Completed(events)
    \/ \E k \in DOMAIN events :
         k > i /\ events[k].version = events[i].version /\ events[k].event = "rolled_back"

History == MarkersPend /\ RowsEnd /\ OnceOnly /\ UndoesWhatRan

\* An appended row leaves the others where they are.
LEMMA EventsAppend ==
  ASSUME events \in Seq(Event), NEW e \in Event, events' = Append(events, e)
  PROVE  /\ Len(events) \in Nat /\ DOMAIN events = 1..Len(events)
         /\ DOMAIN events' = 1..(Len(events) + 1)
         /\ events'[Len(events) + 1] = e /\ \A i \in 1..Len(events) : events'[i] = events[i]
  OBVIOUS

LEMMA HistoryApplies ==
  ASSUME events \in Seq(Event), RowsEnd, OnceOnly, UndoesWhatRan, NEW e \in Event, Applies(e)
  PROVE  RowsEnd' /\ OnceOnly' /\ UndoesWhatRan'
<1> DEFINE n == Len(events) + 1
<1>1. events' = Append(events, e) /\ e.event = "applied"
  BY DEF Applies
<1>2. /\ Len(events) \in Nat /\ DOMAIN events = 1..Len(events) /\ DOMAIN events' = 1..n
      /\ events'[n] = e /\ \A i \in 1..Len(events) : events'[i] = events[i]
  BY <1>1, EventsAppend
<1>3. Completed(events') = Completed(events) \cup {e.version}
  BY <1>1, CompletedAppend
<1>4. RowsEnd'
  BY <1>2, <1>3 DEF RowsEnd
<1>5. OnceOnly'
  <2> SUFFICES ASSUME NEW i \in DOMAIN events', NEW j \in DOMAIN events', i < j,
                      events'[i].version = events'[j].version,
                      events'[i].event = "applied", events'[j].event = "applied",
                      events'[j].kind # "repeatable"
               PROVE  \E k \in i..j : /\ events'[k].version = events'[i].version
                                     /\ events'[k].event = "rolled_back"
    BY DEF OnceOnly
  <2>1. CASE j = n
    <3>1. e.version \notin Completed(events) /\ events'[j] = e
      BY <1>2, <2>1 DEF Applies
    <3>2. i \in DOMAIN events /\ events'[i] = events[i]
      BY <1>2, <2>1
    <3>3. PICK k \in DOMAIN events :
            k > i /\ events[k].version = events[i].version /\ events[k].event = "rolled_back"
      BY <3>1, <3>2 DEF RowsEnd
    <3>4. k \in i..j /\ events'[k] = events[k]
      BY <1>2, <2>1, <3>3
    <3> QED
      BY <3>2, <3>3, <3>4
  <2>2. CASE j # n
    <3>1. i \in DOMAIN events /\ j \in DOMAIN events /\ events'[i] = events[i] /\ events'[j] = events[j]
      BY <1>2, <2>2
    <3>2. PICK k \in i..j : events[k].version = events[i].version /\ events[k].event = "rolled_back"
      BY <3>1 DEF OnceOnly
    <3>3. events'[k] = events[k]
      BY <1>2, <3>1
    <3> QED
      BY <3>1, <3>2, <3>3
  <2> QED
    BY <2>1, <2>2
<1>6. UndoesWhatRan'
  <2> SUFFICES ASSUME NEW j \in DOMAIN events', events'[j].event = "rolled_back"
               PROVE  \E i \in 1..(j - 1) :
                        /\ events'[i].version = events'[j].version
                        /\ events'[i].event = "applied" /\ events'[i].checksum = events'[j].checksum
                        /\ \A k \in (i + 1)..(j - 1) : events'[k].version # events'[j].version
    BY DEF UndoesWhatRan
  <2>1. j \in DOMAIN events /\ events'[j] = events[j]
    BY <1>1, <1>2
  <2>2. PICK i \in 1..(j - 1) :
          /\ events[i].version = events[j].version
          /\ events[i].event = "applied" /\ events[i].checksum = events[j].checksum
          /\ \A k \in (i + 1)..(j - 1) : events[k].version # events[j].version
    BY <2>1 DEF UndoesWhatRan
  <2>3. \A k \in 1..(j - 1) : events'[k] = events[k]
    BY <1>2, <2>1
  <2> QED
    BY <1>2, <2>1, <2>2, <2>3
<1> QED
  BY <1>4, <1>5, <1>6

LEMMA HistoryUndoes ==
  ASSUME events \in Seq(Event), RowsEnd, OnceOnly, UndoesWhatRan, NEW e \in Event, Undoes(e)
  PROVE  RowsEnd' /\ OnceOnly' /\ UndoesWhatRan'
<1> DEFINE n == Len(events) + 1
<1>1. events' = Append(events, e) /\ e.event = "rolled_back"
  BY DEF Undoes
<1>2. /\ Len(events) \in Nat /\ DOMAIN events = 1..Len(events) /\ DOMAIN events' = 1..n
      /\ events'[n] = e /\ \A i \in 1..Len(events) : events'[i] = events[i]
  BY <1>1, EventsAppend
<1>3. Completed(events') = Completed(events) \ {e.version}
  BY <1>1, CompletedUnwind
<1>4. RowsEnd'
  <2> SUFFICES ASSUME NEW i \in DOMAIN events', events'[i].event = "applied",
                      events'[i].version \notin Completed(events')
               PROVE  \E k \in DOMAIN events' : /\ k > i /\ events'[k].version = events'[i].version
                                               /\ events'[k].event = "rolled_back"
    BY DEF RowsEnd
  <2>1. i \in DOMAIN events /\ events'[i] = events[i]
    BY <1>1, <1>2
  <2>2. CASE events[i].version = e.version
    <3>1. n \in DOMAIN events' /\ n > i
      BY <1>2, <2>1
    <3> QED
      BY <1>1, <1>2, <2>1, <2>2, <3>1
  <2>3. CASE events[i].version # e.version
    <3>1. PICK k \in DOMAIN events :
            k > i /\ events[k].version = events[i].version /\ events[k].event = "rolled_back"
      BY <1>3, <2>1, <2>3 DEF RowsEnd
    <3> QED
      BY <1>2, <2>1, <3>1
  <2> QED
    BY <2>2, <2>3
<1>5. OnceOnly'
  <2> SUFFICES ASSUME NEW i \in DOMAIN events', NEW j \in DOMAIN events', i < j,
                      events'[i].version = events'[j].version,
                      events'[i].event = "applied", events'[j].event = "applied",
                      events'[j].kind # "repeatable"
               PROVE  \E k \in i..j : /\ events'[k].version = events'[i].version
                                     /\ events'[k].event = "rolled_back"
    BY DEF OnceOnly
  <2>1. i \in DOMAIN events /\ j \in DOMAIN events /\ events'[i] = events[i] /\ events'[j] = events[j]
    BY <1>1, <1>2
  <2>2. PICK k \in i..j : events[k].version = events[i].version /\ events[k].event = "rolled_back"
    BY <2>1 DEF OnceOnly
  <2>3. events'[k] = events[k]
    BY <1>2, <2>1
  <2> QED
    BY <2>1, <2>2, <2>3
<1>6. UndoesWhatRan'
  <2> SUFFICES ASSUME NEW j \in DOMAIN events', events'[j].event = "rolled_back"
               PROVE  \E i \in 1..(j - 1) :
                        /\ events'[i].version = events'[j].version
                        /\ events'[i].event = "applied" /\ events'[i].checksum = events'[j].checksum
                        /\ \A k \in (i + 1)..(j - 1) : events'[k].version # events'[j].version
    BY DEF UndoesWhatRan
  <2>1. CASE j = n
    <3>1. PICK f \in NetApplied(events) : f.version = e.version /\ f.checksum = e.checksum
      BY DEF Undoes
    <3>2. PICK i \in DOMAIN events :
            events[i] = f /\ \A k \in DOMAIN events : k > i => events[k].version # f.version
      BY NetAppliedRow
    <3>3. f.event = "applied"
      BY NetAppliedRow
    <3>4. i \in 1..(j - 1) /\ \A k \in 1..(j - 1) : events'[k] = events[k]
      BY <1>2, <2>1
    <3>5. \A k \in (i + 1)..(j - 1) : k \in DOMAIN events /\ k > i /\ events'[k] = events[k]
      BY <1>2, <2>1, <3>4
    <3> QED
      BY <1>2, <2>1, <3>1, <3>2, <3>3, <3>4, <3>5
  <2>2. CASE j # n
    <3>1. j \in DOMAIN events /\ events'[j] = events[j]
      BY <1>2, <2>2
    <3>2. PICK i \in 1..(j - 1) :
            /\ events[i].version = events[j].version
            /\ events[i].event = "applied" /\ events[i].checksum = events[j].checksum
            /\ \A k \in (i + 1)..(j - 1) : events[k].version # events[j].version
      BY <3>1 DEF UndoesWhatRan
    <3>3. \A k \in 1..(j - 1) : events'[k] = events[k]
      BY <1>2, <3>1
    <3> QED
      BY <1>2, <3>1, <3>2, <3>3
  <2> QED
    BY <2>1, <2>2
<1> QED
  BY <1>4, <1>5, <1>6

LEMMA HistoryKeeps ==
  OpsTyped /\ PlansKept /\ UnwindsKept /\ History /\ [OperationsNext]_allVars => History'
<1> SUFFICES ASSUME OpsTyped, PlansKept, UnwindsKept, History, [OperationsNext]_allVars
             PROVE  History'
  OBVIOUS
<1>1. events \in Seq(Event)
  BY DEF OpsTyped, RollbackTypeOK, Typed
<1>2. MarkersPend'
  BY MarkersPendStep DEF History
<1>3. UNCHANGED events => RowsEnd' /\ OnceOnly' /\ UndoesWhatRan'
  BY DEF History, RowsEnd, OnceOnly, UndoesWhatRan
<1>4. RowsEnd' /\ OnceOnly' /\ UndoesWhatRan'
  BY <1>1, <1>3, EventsMove, HistoryApplies, HistoryUndoes DEF History
<1> QED
  BY <1>2, <1>4 DEF History

LEMMA HistoryAlways == OperationsSpec => []History
<1>1. RollbackInit => History
  BY CompletedEmpty DEF RollbackInit, Init, History, MarkersPend, RowsEnd, OnceOnly, UndoesWhatRan
<1> QED
  BY <1>1, HistoryKeeps, OpsTypeInvariant, PlansInvariant, UnwindsInvariant, PTL DEF OperationsSpec

\* Beside rollbacks, squashes, baselines and recoveries too a once-only migration is
\* journaled as applied once between two rollbacks of it (order_pending under the lock,
\* applied() under squash()'s and recover_inflight_ddl's).
THEOREM AppliedOnceBetweenRollbacks == OperationsSpec => []OnceOnly
  BY HistoryAlways, PTL DEF History

\* What a rollback records undoes the row before it, in the body that ran: gate 4 of
\* plan_rollback, computed under the lock, stays true to the last step of the plan.
THEOREM UndoesOnlyWhatRan == OperationsSpec => []UndoesWhatRan
  BY HistoryAlways, PTL DEF History

-----------------------------------------------------------------------------
(* A plan stays true while it is executed, beside rollbacks too.           *)

\* An edge is of the squash's own scope.
EdgesKept == \A p \in edges, m \in Catalog : p[1] = m.version => p[2] \in m.supersedes

\* What a step adds to the edges.
LEMMA EdgesMove ==
  ASSUME OpsTyped, [OperationsNext]_allVars
  PROVE  \/ UNCHANGED edges
         \/ \E m \in Catalog : edges' = edges \cup {<<m.version, v>> : v \in m.supersedes}
<1>1. UNCHANGED journal => UNCHANGED edges
  BY DEF journal
<1>2. ASSUME NEW d \in Deployers, NEW m \in todo[d], Writes(d, m)
      PROVE  \/ UNCHANGED edges
             \/ edges' = edges \cup {<<m.version, v>> : v \in m.supersedes}
  BY <1>1, <1>2 DEF Writes, LandSatisfied, Arm, CommitUp, RunUp, Finalize, Land
<1>3. \A d \in Deployers : todo[d] \subseteq Catalog
  BY DEF OpsTyped, RollbackTypeOK, Typed
<1>4. ASSUME NEW o \in Operators, Unwinds(o) \/ HalfUnwinds(o) PROVE UNCHANGED edges
  BY <1>1, <1>4 DEF Unwinds, HalfUnwinds, RollbackOne, MarkDown, RunDown, FinalizeDown,
                    RecordRolledBack
<1>5. ASSUME NEW m \in Catalog, OperatorStep(m)
      PROVE  \/ UNCHANGED edges
             \/ edges' = edges \cup {<<m.version, v>> : v \in m.supersedes}
  BY <1>5 DEF OperatorStep, RecordSquash, Baseline, MarkApplied, ClearForRetry, SettleHalfReverted
<1> QED
  BY <1>1, <1>2, <1>3, <1>4, <1>5, Changes DEF Stops, database

LEMMA EdgesStep == ScopesKept /\ OpsTyped /\ EdgesKept /\ [OperationsNext]_allVars => EdgesKept'
<1> SUFFICES ASSUME ScopesKept, OpsTyped, EdgesKept, [OperationsNext]_allVars,
                    NEW p \in edges', NEW n \in Catalog, p[1] = n.version
             PROVE  p[2] \in n.supersedes
  BY DEF EdgesKept
<1>1. CASE p \in edges
  BY <1>1 DEF EdgesKept
<1>2. CASE p \notin edges
  <2>1. PICK m \in Catalog : \E v \in m.supersedes : p = <<m.version, v>>
    BY <1>2, EdgesMove
  <2> QED
    BY <2>1 DEF ScopesKept
<1> QED
  BY <1>1, <1>2

LEMMA EdgesAlways == ScopesKept /\ OperationsSpec => []EdgesKept
<1>1. RollbackInit => EdgesKept
  BY DEF RollbackInit, Init, EdgesKept
<1>2. SUFFICES ASSUME ScopesKept PROVE OperationsSpec => []EdgesKept
  OBVIOUS
<1>3. OpsTyped /\ EdgesKept /\ [OperationsNext]_allVars => EdgesKept'
  BY <1>2, EdgesStep
<1> QED
  BY <1>1, <1>3, OpsTypeInvariant, PTL DEF OperationsSpec

\* What a journaled row of m covers, where m's edges are m's scope.
LEMMA CoversAtMost ==
  ASSUME Typed, EdgesKept, NEW m \in Catalog, NEW k \in Kinds,
         events' = Append(events, AppliedEvent(m, k)),
         edges' = edges \cup {<<m.version, v>> : v \in m.supersedes}
  PROVE  Superseded(events', edges') \subseteq Superseded(events, edges) \cup m.supersedes
<1> DEFINE row == AppliedEvent(m, k)
<1>1. row \in Event /\ row.event = "applied" /\ row.version = m.version
  BY CatalogType DEF AppliedEvent, Event
<1>2. NetApplied(events') = {x \in NetApplied(events) : x.version # m.version} \cup {row}
  BY <1>1, NetAppliedAppend DEF Typed
<1>3. ASSUME NEW p \in edges', NEW e \in NetApplied(events'), e.version = p[1], e.kind = "squash"
      PROVE  p[2] \in Superseded(events, edges) \cup m.supersedes
  <2>1. CASE p[1] = m.version
    BY <2>1 DEF EdgesKept
  <2>2. CASE p[1] # m.version
    <3>1. p \in edges /\ e \in NetApplied(events)
      BY <1>1, <1>2, <1>3, <2>2
    <3> QED
      BY <1>3, <3>1 DEF Superseded
  <2> QED
    BY <2>1, <2>2
<1> QED
  BY <1>3 DEF Superseded

\* Nothing that is left of a plan has been superseded.
Fresh(d) ==
  phase[d] = "versioned" => \A m \in todo[d] : m.version \notin Superseded(events, edges)

PlansFresh == \A d \in Deployers : Fresh(d)

LEMMA FreshMoves ==
  ASSUME Typed, EdgesKept, NEW d \in Deployers, PlanKept(d), Fresh(d), DeployerStep(d)
  PROVE  Fresh(d)'
<1>1. UNCHANGED database \/ Stops(d) => UNCHANGED <<events, edges>>
  BY DEF database, Stops, journal
<1>2. ASSUME UNCHANGED <<events, edges>>, todo'[d] \subseteq todo[d], UNCHANGED phase[d]
      PROVE  Fresh(d)'
  BY <1>2 DEF Fresh
<1>3. CASE LocalsKept(d) /\ pc'[d] = "failed" /\ (UNCHANGED database \/ Stops(d))
  BY <1>1, <1>2, <1>3 DEF LocalsKept, LocalsOf
<1>4. CASE LocalsReset(d) /\ pc'[d] = "idle"
  BY <1>4 DEF LocalsReset, Fresh
<1>5. CASE AcquireLock(d) \/ Finish(d) \/ \E ms \in Manifests, grant \in Grants : Submit(d, ms, grant)
  BY <1>2, <1>5 DEF AcquireLock, Finish, Submit, local, journal
<1>6. CASE Plan(d)
  <2>1. UNCHANGED <<events, edges>> /\ todo'[d] = Pending(Versioned(supplied[d]))
    BY <1>6 DEF Plan, Typed, journal
  <2> QED
    BY <2>1 DEF Fresh, Pending, Covered
<1>7. CASE PlanRepeatables(d)
  BY <1>7 DEF PlanRepeatables, Typed, Fresh
<1>8. ASSUME NEW m \in todo[d],
             Skip(d, m) \/ SkipRepeatable(d, m) \/ Begin(d, m) \/ Arm(d, m) \/ RunUp(d, m)
      PROVE  Fresh(d)'
  <2>1. UNCHANGED <<events, edges, phase>> /\ todo'[d] \subseteq todo[d]
    BY <1>8 DEF Skip, SkipRepeatable, Begin, Arm, RunUp, local, journal, Typed
  <2> QED
    BY <1>2, <2>1
<1>9. ASSUME NEW m \in todo[d], LandSatisfied(d, m) \/ CommitUp(d, m) \/ Finalize(d, m)
      PROVE  Fresh(d)'
  <2>1. Land(d, m)
    BY <1>9 DEF LandSatisfied, CommitUp, Finalize
  <2>2. m \in Catalog /\ m \in supplied[d] /\ KindOf(m) \in Kinds
    BY CatalogType DEF Typed, PlanKept
  <2>3. Superseded(events', edges') \subseteq Superseded(events, edges) \cup m.supersedes
    BY <2>1, <2>2, CoversAtMost DEF Land
  <2>4. todo'[d] = todo[d] \ {m} /\ UNCHANGED phase
    BY <2>1 DEF Land, Typed
  <2> QED
    BY <2>2, <2>3, <2>4 DEF Fresh, PlanKept
<1> QED
  BY <1>3, <1>4, <1>5, <1>6, <1>7, <1>8, <1>9, DeployerMoves DEF Writes

LEMMA FreshStep ==
  /\ ScopesKept /\ OpsTyped /\ Locked /\ PlansKept /\ EdgesKept /\ PlansFresh
  /\ [OperationsNext]_allVars
  => PlansFresh'
<1> SUFFICES ASSUME OpsTyped, Locked, PlansKept, EdgesKept, PlansFresh, [OperationsNext]_allVars,
                    NEW d \in Deployers
             PROVE  Fresh(d)'
  BY DEF PlansFresh
<1>1. PlanKept(d) /\ Typed /\ Fresh(d)
  BY DEF PlansKept, PlansFresh, OpsTyped, RollbackTypeOK
<1>2. CASE DeployerStep(d)
  BY <1>1, <1>2, FreshMoves
<1>3. CASE UNCHANGED DeployOf(d) /\ (pc[d] \in Holding => UNCHANGED database)
  <2>1. UNCHANGED <<phase[d], todo[d]>>
    BY <1>3 DEF DeployOf
  <2>2. pc[d] \notin Holding => todo[d] = {}
    BY <1>1 DEF PlanKept, Typed
  <2>3. pc[d] \in Holding => UNCHANGED <<events, edges>>
    BY <1>3 DEF database, journal
  <2> QED
    BY <1>1, <2>1, <2>2, <2>3 DEF Fresh
<1> QED
  BY <1>2, <1>3, DeployerFrame

LEMMA FreshAlways == ScopesKept /\ OperationsSpec => []PlansFresh
<1>1. RollbackInit => PlansFresh
  BY DEF RollbackInit, Init, PlansFresh, Fresh
<1>2. SUFFICES ASSUME ScopesKept PROVE OperationsSpec => []PlansFresh
  OBVIOUS
<1>3. OpsTyped /\ Locked /\ PlansKept /\ EdgesKept /\ PlansFresh /\ [OperationsNext]_allVars => PlansFresh'
  BY <1>2, FreshStep
<1>4. OperationsSpec => []EdgesKept
  BY <1>2, EdgesAlways
<1> QED
  BY <1>1, <1>3, <1>4, OpsTypeInvariant, LockedInvariant, PlansInvariant, PTL DEF OperationsSpec

\* Rolled-back squashes, recorded ones and settled markers do not make a plan stale, as long
\* as an edited squash keeps its scope: the edges of the one that was rolled back stay.
THEOREM PlanFreshBesideRollbacks == ScopesKept /\ OperationsSpec => []PlanStaysFresh
<1>1. PlansKept /\ PlansFresh => PlanStaysFresh
  BY DEF PlansKept, PlanKept, PlansFresh, Fresh, PlanStaysFresh
<1>2. SUFFICES ASSUME ScopesKept PROVE OperationsSpec => []PlanStaysFresh
  OBVIOUS
<1>3. OperationsSpec => []PlansFresh
  BY <1>2, FreshAlways
<1> QED
  BY <1>1, <1>3, PlansInvariant, PTL
=============================================================================
