---------------------------- MODULE Rollback_proofs ----------------------------
(***************************************************************************)
(* What rollbacks leave and deploys report: whether the journal is true of *)
(* the database, whether what is skipped is there, and whether what is     *)
(* applied has what it depends on.                                         *)
(***************************************************************************)
EXTENDS Ledger_proofs

USE VersionsAssumption, NoMarkerAssumption, CatalogAssumption, ManifestsAssumption,
    BackendAssumption, BoundsAssumption, NoOwnerAssumption, OperatorsAssumption,
    RequestsAssumption, RepairsAssumption, AdoptableAssumption, ShapesAssumption

-----------------------------------------------------------------------------
(* What a squash covers was applied before it.                             *)

\* The last row of its version.
IsLast(i) == \A k \in DOMAIN events : k > i => events[k].version # events[i].version

\* Applied once-only versions that an applied squash supersedes come before it.
SquashLast ==
  \A i, j \in DOMAIN events, n \in Catalog :
    /\ IsLast(i) /\ events[i].event = "applied" /\ events[i].kind # "repeatable"
    /\ IsLast(j) /\ events[j].event = "applied" /\ events[j].version = n.version
    /\ events[i].version \in n.supersedes
    => i < j

\* A last applied row is net-applied.
LEMMA LastRow ==
  ASSUME NEW i \in DOMAIN events, IsLast(i), events[i].event = "applied"
  PROVE  events[i] \in NetApplied(events) /\ events[i].version \in Completed(events)
<1>1. events[i] \in Latest(events)
  BY DEF Latest, IsLast
<1> QED
  BY <1>1 DEF NetApplied, Completed

\* A squash does not supersede its own version.
LEMMA SquashIsNotCovered ==
  ASSUME TidyCatalog, NEW n \in Catalog
  PROVE  n.version \notin n.supersedes
  BY DEF TidyCatalog, SquashesFlat

\* No once-only migration is journaled that an applied squash supersedes.
LEMMA RowNotCovered ==
  ASSUME TidyCatalog, OpsTyped, PlansKept, UnwindsKept, Sound, [OperationsNext]_allVars
  PROVE  \/ UNCHANGED events
         \/ \E e \in Event :
              /\ events' = Append(events, e)
              /\ e.event = "applied" /\ e.kind # "repeatable" =>
                   \A n \in Catalog : n.version \in Completed(events) => e.version \notin n.supersedes
<1>0. /\ Typed /\ ScopesKept /\ SquashesFlat /\ TwoPhaseAlone /\ MarkersKnown
      /\ \A d \in Deployers : PlanKept(d) /\ Apart(d)
  BY DEF OpsTyped, RollbackTypeOK, TidyCatalog, Sound, UpsKept, UpKept, PlansKept
<1> DEFINE Uncovered(v) == \A n \in Catalog : n.version \in Completed(events) => v \notin n.supersedes
           Known(e) == e.event = "applied" /\ e.kind # "repeatable" => Uncovered(e.version)
<1>1. ASSUME NEW m \in Catalog, NEW k \in Kinds, events' = Append(events, AppliedEvent(m, k)),
             k # "repeatable" => Uncovered(m.version)
      PROVE  \E e \in Event : events' = Append(events, e) /\ Known(e)
  BY <1>1, CatalogType DEF AppliedEvent, Event
<1>2. ASSUME NEW d \in Deployers, NEW m \in todo[d], Writes(d, m)
      PROVE  UNCHANGED events \/ \E e \in Event : events' = Append(events, e) /\ Known(e)
  <2>1. m \in Catalog /\ KindOf(m) \in Kinds
    BY <1>0, CatalogType DEF Typed
  <2>2. CASE Arm(d, m) \/ RunUp(d, m)
    BY <2>2 DEF Arm, RunUp, journal
  <2>3. CASE LandSatisfied(d, m) \/ CommitUp(d, m) \/ Finalize(d, m)
    <3>1. events' = Append(events, AppliedEvent(m, KindOf(m)))
      BY <2>3 DEF LandSatisfied, CommitUp, Finalize, Land
    <3>2. KindOf(m) # "repeatable" => phase[d] = "versioned"
      BY <1>0 DEF KindOf, PlanKept, Typed
    <3>3. KindOf(m) # "repeatable" => Uncovered(m.version)
      BY <1>0, <2>1, <3>2 DEF Apart, SquashesFlat, Objects
    <3> QED
      BY <1>1, <2>1, <3>1, <3>3
  <2> QED
    BY <1>2, <2>2, <2>3 DEF Writes
<1>3. ASSUME NEW o \in Operators, Unwinds(o) \/ HalfUnwinds(o)
      PROVE  UNCHANGED events \/ \E e \in Event : events' = Append(events, e) /\ Known(e)
  <2>1. UNCHANGED events \/ (RecordRolledBack(o) /\ steps[o] # <<>>)
    BY <1>3 DEF Unwinds, HalfUnwinds, RollbackOne, MarkDown, RunDown, FinalizeDown, Move, journal,
                UnwindsKept, UnwindKept
  <2>2. ASSUME RecordRolledBack(o), steps[o] # <<>>
        PROVE  \E e \in Event : e.event = "rolled_back" /\ events' = Append(events, e)
    BY <2>2, NextStepType DEF RecordRolledBack, RolledBackEvent, OpsTyped
  <2> QED
    BY <2>1, <2>2
<1>4. ASSUME NEW m \in Catalog, OperatorStep(m)
      PROVE  UNCHANGED events \/ \E e \in Event : events' = Append(events, e) /\ Known(e)
  <2>1. CASE RecordSquash(m)
    <3>1. events' = Append(events, AppliedEvent(m, "squash")) /\ Uncovered(m.version) /\ "squash" \in Kinds
      BY <1>0, <2>1 DEF RecordSquash, SquashesFlat, Kinds
    <3> QED
      BY <1>1, <3>1
  <2>2. CASE Baseline(m)
    <3>1. events' = Append(events, AppliedEvent(m, "baseline")) /\ Uncovered(m.version) /\ "baseline" \in Kinds
      BY <2>2 DEF Baseline, Kinds
    <3> QED
      BY <1>1, <3>1
  <2>3. CASE MarkApplied(m)
    <3>1. TwoPhase(m) /\ events' = Append(events, AppliedEvent(m, KindOf(m))) /\ KindOf(m) \in Kinds
      BY <2>3, CatalogType DEF MarkApplied, TwoPhase
    <3>2. ASSUME NEW n \in Catalog, m.version \in n.supersedes PROVE FALSE
      <4>1. m.supersedes = {} /\ m.version \in Objects(m) /\ m.version \in Objects(n)
        BY <1>0, <3>2 DEF SquashesFlat, Objects
      <4>2. n.version = m.version
        BY <1>0, <3>1, <4>1 DEF TwoPhaseAlone
      <4> QED
        BY <1>0, <3>2, <4>1, <4>2 DEF ScopesKept
    <3> QED
      BY <1>1, <3>1, <3>2
  <2>4. CASE ClearForRetry(m) \/ SettleHalfReverted(m)
    BY <2>4 DEF ClearForRetry, SettleHalfReverted
  <2> QED
    BY <1>4, <2>1, <2>2, <2>3, <2>4 DEF OperatorStep
<1>5. UNCHANGED database => UNCHANGED events
  BY DEF database, journal
<1> QED
  BY <1>2, <1>3, <1>4, <1>5, Changes DEF Stops, journal

LEMMA SquashLastStep ==
  /\ TidyCatalog /\ OpsTyped /\ PlansKept /\ UnwindsKept /\ Sound /\ SquashLast
  /\ [OperationsNext]_allVars
  => SquashLast'
<1> SUFFICES ASSUME TidyCatalog, OpsTyped, PlansKept, UnwindsKept, Sound, SquashLast,
                    [OperationsNext]_allVars
             PROVE  SquashLast'
  OBVIOUS
<1>1. CASE UNCHANGED events
  BY <1>1 DEF SquashLast, IsLast
<1>2. ASSUME NEW e \in Event, events' = Append(events, e),
             e.event = "applied" /\ e.kind # "repeatable" =>
               \A n \in Catalog : n.version \in Completed(events) => e.version \notin n.supersedes,
             NEW i \in DOMAIN events', NEW j \in DOMAIN events', NEW n \in Catalog,
             IsLast(i)', events'[i].event = "applied", events'[i].kind # "repeatable",
             IsLast(j)', events'[j].event = "applied", events'[j].version = n.version,
             events'[i].version \in n.supersedes
      PROVE  i < j
  <2>1. /\ events \in Seq(Event) /\ Len(events) \in Nat /\ DOMAIN events = 1..Len(events)
        /\ DOMAIN events' = 1..(Len(events) + 1) /\ events'[Len(events) + 1] = e
        /\ \A k \in DOMAIN events : events'[k] = events[k]
    BY <1>2 DEF OpsTyped, RollbackTypeOK, Typed
  <2>2. \A k \in DOMAIN events : IsLast(k)' => IsLast(k)
    BY <2>1 DEF IsLast
  <2>3. i # j
    BY <1>2, SquashIsNotCovered
  <2>4. CASE i \in DOMAIN events /\ j \in DOMAIN events
    BY <1>2, <2>1, <2>2, <2>4 DEF SquashLast
  <2>5. CASE i = Len(events) + 1
    <3>1. j \in DOMAIN events
      BY <2>1, <2>3, <2>5
    <3>2. n.version \in Completed(events)
      BY <1>2, <2>1, <2>2, <3>1, LastRow
    <3> QED
      BY <1>2, <2>1, <2>5, <3>2
  <2>6. CASE i \in DOMAIN events /\ j = Len(events) + 1
    BY <2>1, <2>6
  <2> QED
    BY <2>1, <2>4, <2>5, <2>6
<1>3. SquashLast' <=>
        \A i, j \in DOMAIN events', n \in Catalog :
          /\ IsLast(i)' /\ events'[i].event = "applied" /\ events'[i].kind # "repeatable"
          /\ IsLast(j)' /\ events'[j].event = "applied" /\ events'[j].version = n.version
          /\ events'[i].version \in n.supersedes
          => i < j
  BY DEF SquashLast
<1> QED
  BY <1>1, <1>2, <1>3, RowNotCovered

LEMMA SquashLastAlways == TidyCatalog /\ OperationsSpec => []SquashLast
<1>. SUFFICES ASSUME TidyCatalog PROVE OperationsSpec => []SquashLast
  OBVIOUS
<1>1. RollbackInit => SquashLast
  BY DEF RollbackInit, Init, SquashLast
<1> QED
  BY <1>1, SquashLastStep, OpsTypeInvariant, PlansInvariant, UnwindsInvariant, SoundAlways, PTL
     DEF OperationsSpec

-----------------------------------------------------------------------------
(* What a target selects reaches back from the last row.                   *)

\* The position of a version's last row, as AppliedAfter has it.
LastOf(v) ==
  CHOOSE i \in DOMAIN events :
    events[i].version = v /\ \A j \in DOMAIN events : events[j].version = v => j <= i

LEMMA LastOfRow ==
  ASSUME Typed, NEW i \in DOMAIN events, IsLast(i)
  PROVE  LastOf(events[i].version) = i
<1> DEFINE Newest(x) == /\ events[x].version = events[i].version
                        /\ \A j \in DOMAIN events : events[j].version = events[i].version => j <= x
<1>1. DOMAIN events \subseteq Nat
  BY DEF Typed
<1>2. Newest(i)
  BY <1>1 DEF IsLast
<1>3. \A x \in DOMAIN events : Newest(x) => x = i
  BY <1>1, <1>2
<1> QED
  BY <1>2, <1>3 DEF LastOf

\* Every net-applied row is a last one.
LEMMA RowPosition ==
  ASSUME NEW e \in NetApplied(events)
  PROVE  \E i \in DOMAIN events : IsLast(i) /\ events[i] = e /\ e.event = "applied"
  BY DEF NetApplied, Latest, IsLast

LEMMA LastOfType ==
  ASSUME Typed, NEW v \in Completed(events)
  PROVE  LastOf(v) \in DOMAIN events /\ LastOf(v) \in Nat
<1>1. PICK e \in NetApplied(events) : e.version = v
  BY DEF Completed
<1>2. PICK i \in DOMAIN events : IsLast(i) /\ events[i] = e
  BY RowPosition
<1>3. LastOf(v) = i
  BY <1>1, <1>2, LastOfRow
<1> QED
  BY <1>3 DEF Typed

LEMMA LaterRows ==
  ASSUME NEW v \in Completed(events)
  PROVE  AppliedAfter(v) = {u \in Completed(events) : LastOf(u) > LastOf(v)}
  BY DEF AppliedAfter, LastOf

LEMMA CompletedFinite ==
  ASSUME Typed
  PROVE  IsFiniteSet(Completed(events))
<1> DEFINE last == [v \in Completed(events) |-> LastOf(v)]
<1>1. Len(events) \in Nat /\ DOMAIN events = 1..Len(events) /\ IsFiniteSet(1..Len(events))
  BY FS_Interval DEF Typed
<1>2. ASSUME NEW v \in Completed(events) PROVE events[LastOf(v)].version = v
  <2>1. PICK e \in NetApplied(events) : e.version = v
    BY DEF Completed
  <2>2. PICK i \in DOMAIN events : IsLast(i) /\ events[i] = e
    BY RowPosition
  <2> QED
    BY <2>1, <2>2, LastOfRow
<1>3. last \in Injection(Completed(events), 1..Len(events))
  BY <1>1, <1>2, LastOfType DEF Injection, IsInjective
<1> QED
  BY <1>1, <1>3, FS_Injection

\* Whatever was applied after something selected is selected with it.
LEMMA SelectedAfter ==
  ASSUME Typed, NEW t, t[1] = "steps" => t[2] \in Nat,
         NEW v \in Selected(t), NEW w \in Completed(events), LastOf(w) > LastOf(v)
  PROVE  w \in Selected(t)
<1>1. Selected(t) \subseteq Completed(events)
  BY DEF Selected, AppliedAfter
<1>2. LastOf(v) \in Nat /\ LastOf(w) \in Nat
  BY <1>1, LastOfType
<1>3. CASE t[1] = "all"
  BY <1>3 DEF Selected
<1>4. CASE t[1] = "steps"
  <2>1. AppliedAfter(w) \subseteq AppliedAfter(v) /\ AppliedAfter(v) \subseteq Completed(events)
    BY <1>1, <1>2, LaterRows, LastOfType
  <2>2. /\ Cardinality(AppliedAfter(w)) \in Nat /\ Cardinality(AppliedAfter(v)) \in Nat
        /\ Cardinality(AppliedAfter(w)) <= Cardinality(AppliedAfter(v))
    BY <2>1, CompletedFinite, FS_Subset, FS_CardinalityType
  <2>3. Cardinality(AppliedAfter(v)) < t[2]
    BY <1>4 DEF Selected
  <2> QED
    BY <1>4, <2>2, <2>3 DEF Selected
<1>5. CASE t[1] \notin {"all", "steps"}
  <2>1. t[1] = "to" /\ t[2] \in Completed(events) /\ Selected(t) = AppliedAfter(t[2])
    BY <1>5 DEF Selected
  <2>2. LastOf(t[2]) \in Nat
    BY <2>1, LastOfType
  <2> QED
    BY <1>2, <2>1, <2>2, LaterRows
<1> QED
  BY <1>3, <1>4, <1>5

-----------------------------------------------------------------------------
(* What is unwound stands alone.                                           *)

\* What a rollback has yet to unwind shares no object with anything else that is applied: a
\* squash over it would have been selected with it, and refuses the rollback.
Alone(s) ==
  \A n \in Catalog :
    n.version \in Completed(events) /\ n.version # s.version => Objects(s) \cap Objects(n) = {}

StepsApart == \A o \in Operators : \A i \in DOMAIN steps[o] : Alone(steps[o][i])

LEMMA AlonePlans ==
  ASSUME TidyCatalog, SquashesStay, OpsTyped, Sound, SquashLast,
         NEW r, r \in Requests \cup {NoRequest}, ~RollbackRefused(r), NEW m \in Unwound(r)
  PROVE  Alone(m)
<1>0. /\ ScopesKept /\ Typed /\ RowsKnown /\ r.supplied \subseteq Catalog
      /\ r.target[1] = "steps" => r.target[2] \in Nat
  BY DEF TidyCatalog, OpsTyped, RollbackTypeOK, Sound, NoRequest
<1>1. /\ m \in Chosen(r) /\ m \in Catalog /\ m.down # "none" /\ m.version \in Selected(r.target)
  BY <1>0 DEF Unwound, Chosen
<1>2. /\ Selected(r.target) \subseteq Ids(r.supplied) /\ ~ChecksumDrift(r) /\ ~Irreversible(r)
  BY DEF RollbackRefused
<1>3. m.supersedes = {}
  BY <1>1 DEF SquashesStay
<1> SUFFICES ASSUME NEW n \in Catalog, n.version \in Completed(events), n.version # m.version,
                    Objects(m) \cap Objects(n) # {}
             PROVE  FALSE
  BY DEF Alone
<1>4. n.supersedes # {} /\ m.version \in n.supersedes
  BY <1>3 DEF Objects
<1>5. m.version \in Completed(events)
  BY <1>1 DEF Selected, AppliedAfter
<1>6. PICK e \in NetApplied(events) : e.version = m.version
  BY <1>5 DEF Completed
<1>7. PICK f \in NetApplied(events) : f.version = n.version
  BY DEF Completed
<1>8. e.kind # "repeatable"
  <2>1. e.checksum = m.checksum
    BY <1>1, <1>2, <1>6 DEF ChecksumDrift
  <2>2. PICK a \in Catalog : /\ a.version = e.version /\ a.checksum = e.checksum
                             /\ e.kind = "repeatable" => a.down = "none"
    BY <1>0 DEF RowsKnown, KnownRow
  <2>3. a = m
    BY <1>1, <1>6, <2>1, <2>2
  <2> QED
    BY <1>1, <2>2, <2>3
<1>9. PICK i \in DOMAIN events : IsLast(i) /\ events[i] = e /\ e.event = "applied"
  BY RowPosition
<1>10. PICK j \in DOMAIN events : IsLast(j) /\ events[j] = f /\ f.event = "applied"
  BY RowPosition
<1>11. i < j
  BY <1>4, <1>6, <1>7, <1>8, <1>9, <1>10 DEF SquashLast
<1>12. LastOf(m.version) = i /\ LastOf(n.version) = j /\ i \in Nat /\ j \in Nat
  BY <1>0, <1>6, <1>7, <1>9, <1>10, LastOfRow DEF Typed
<1>13. n.version \in Selected(r.target)
  BY <1>0, <1>1, <1>11, <1>12, SelectedAfter
<1>14. PICK q \in r.supplied : q.version = n.version
  BY <1>2, <1>13 DEF Ids
<1>15. q \in Chosen(r) /\ q.supersedes # {} /\ q.down = "none"
  BY <1>0, <1>4, <1>13, <1>14 DEF Chosen, ScopesKept, SquashesStay
<1> QED
  BY <1>2, <1>15 DEF Irreversible

\* A rollback's own step.
LEMMA AloneMoves ==
  ASSUME TidyCatalog, SquashesStay, OpsTyped, Sound, SquashLast, NEW o \in Operators,
         UnwindKept(o), \A i \in DOMAIN steps[o] : Alone(steps[o][i]), RollbackStep(o)
  PROVE  \A i \in DOMAIN steps'[o] : Alone(steps[o][i])'
<1>0. steps[o] \in Seq(Catalog) /\ events \in Seq(Event)
  BY DEF OpsTyped, RollbackTypeOK, Typed
<1>1. ASSUME steps'[o] = <<>> PROVE \A i \in DOMAIN steps'[o] : Alone(steps[o][i])'
  BY <1>1
<1>2. ASSUME UNCHANGED <<steps, events>> PROVE \A i \in DOMAIN steps'[o] : Alone(steps[o][i])'
  BY <1>2 DEF Alone, Objects
<1>3. CASE LockRollback(o) \/ MarkDown(o) \/ RunDown(o) \/ \E r \in Requests : AskRollback(o, r)
  BY <1>2, <1>3 DEF LockRollback, MarkDown, RunDown, AskRollback, journal, vars
<1>4. CASE RefuseRollback(o) \/ RefuseHalfReverted(o) \/ FinishRollback(o) \/ StopRollback(o)
  BY <1>1, <1>4, UnwindEnds DEF RefuseRollback, RefuseHalfReverted, FinishRollback, StopRollback
<1>5. CASE PlanRollback(o)
  <2>1. /\ ~RollbackRefused(request[o]) /\ UNCHANGED events
        /\ request[o] \in Requests \cup {NoRequest}
    BY <1>5 DEF PlanRollback, vars, journal, OpsTyped, RollbackTypeOK
  <2>2. PICK s \in ReverseOrders(request[o]) : steps' = [steps EXCEPT ![o] = s]
    BY <1>5 DEF PlanRollback
  <2>3. steps'[o] = s /\ s \in Seq(Unwound(request[o]))
    BY <2>1, <2>2, ReverseOrdersType DEF OpsTyped, RollbackTypeOK, NoRequest
  <2>4. \A i \in DOMAIN s : Alone(s[i])
    BY <2>1, <2>3, AlonePlans
  <2> QED
    BY <2>1, <2>3, <2>4 DEF Alone, Objects
<1>6. CASE RollbackOne(o) \/ FinalizeDown(o)
  <2>1. RecordRolledBack(o) /\ steps[o] # <<>>
    BY <1>6 DEF RollbackOne, FinalizeDown, Move, UnwindKept
  <2>2. steps'[o] = Tail(steps[o]) /\ events' = Append(events, RolledBackEvent(NextStep(o)))
    BY <2>1 DEF RecordRolledBack, OpsTyped, RollbackTypeOK
  <2>3. RolledBackEvent(NextStep(o)) \in Event /\ RolledBackEvent(NextStep(o)).event = "rolled_back"
    BY <2>1, NextStepType DEF RolledBackEvent, OpsTyped
  <2>4. Completed(events') \subseteq Completed(events)
    BY <1>0, <2>2, <2>3, CompletedUnwind
  <2>5. \A i \in DOMAIN Tail(steps[o]) : i + 1 \in DOMAIN steps[o] /\ Tail(steps[o])[i] = steps[o][i + 1]
    BY <1>0, <2>1
  <2> QED
    BY <2>2, <2>4, <2>5 DEF Alone, Objects
<1> QED
  BY <1>3, <1>4, <1>5, <1>6 DEF RollbackStep, AdvanceRollback

LEMMA StepsApartStep ==
  /\ TidyCatalog /\ SquashesStay /\ OpsTyped /\ Locked /\ UnwindsKept /\ Sound /\ SquashLast
  /\ StepsApart /\ [OperationsNext]_allVars
  => StepsApart'
<1> SUFFICES ASSUME TidyCatalog, SquashesStay, OpsTyped, Locked, UnwindsKept, Sound, SquashLast,
                    StepsApart, [OperationsNext]_allVars, NEW o \in Operators
             PROVE  \A i \in DOMAIN steps'[o] : Alone(steps[o][i])'
  BY DEF StepsApart
<1>1. UnwindKept(o) /\ \A i \in DOMAIN steps[o] : Alone(steps[o][i])
  BY DEF UnwindsKept, StepsApart
<1>2. CASE RollbackStep(o)
  BY <1>1, <1>2, AloneMoves
<1>3. CASE UNCHANGED RollbackOf(o) /\ (opc[o] \in RollbackHolding => UNCHANGED database)
  <2>1. UNCHANGED steps[o]
    BY <1>3 DEF RollbackOf
  <2>2. CASE opc[o] \in RollbackHolding
    BY <1>1, <1>3, <2>1, <2>2 DEF Alone, Objects, database, journal
  <2>3. CASE opc[o] \notin RollbackHolding
    <3>1. steps[o] = <<>>
      BY <1>1, <2>3 DEF UnwindKept, OpsTyped, RollbackTypeOK
    <3> QED
      BY <2>1, <3>1
  <2> QED
    BY <2>2, <2>3
<1> QED
  BY <1>2, <1>3, RollbackFrame

LEMMA StepsApartAlways == TidyCatalog /\ SquashesStay /\ OperationsSpec => []StepsApart
<1>. SUFFICES ASSUME TidyCatalog, SquashesStay PROVE OperationsSpec => []StepsApart
  OBVIOUS
<1>1. RollbackInit => StepsApart
  BY DEF RollbackInit, StepsApart
<1> QED
  BY <1>1, StepsApartStep, OpsTypeInvariant, LockedInvariant, UnwindsInvariant, SoundAlways,
     SquashLastAlways, PTL DEF OperationsSpec

-----------------------------------------------------------------------------
(* The bodies that are there.                                              *)

\* The bodies that the row of an artifact vouches for; a squash stands for those it supersedes.
Body(n) == IF n.supersedes = {} THEN {n.checksum} ELSE Checksums

\* Off MySQL what is net-applied is there, whatever marker is left beside it.
BodiesTrue ==
  Backend # "mysql" =>
    \A n \in Catalog : Journaled(n) => \A o \in Objects(n) : schema[o] \in Body(n)

\* It is enough to look at the rows of the version a step is about, and at the objects that
\* others share with it.
LEMMA BodiesKept ==
  ASSUME Typed, Typed', BodiesTrue, NEW m \in Catalog, Touches(m),
         \A n \in Catalog : Journaled(n) /\ n.version # m.version =>
           \A o \in Objects(n) \cap Objects(m) : schema'[o] \in Body(n),
         \A n \in Catalog : Journaled(n)' /\ n.version = m.version =>
           \A o \in Objects(n) : schema'[o] \in Body(n)
  PROVE  BodiesTrue'
<1> SUFFICES ASSUME Backend # "mysql", NEW n \in Catalog, Journaled(n)', n.version # m.version,
                    NEW o \in Objects(n)
             PROVE  schema'[o] \in Body(n)
  BY DEF BodiesTrue, Body, Objects
<1>1. Journaled(n) /\ o \in Versions
  <2>1. PICK e \in NetApplied(events') : e.version = n.version /\ e.checksum = n.checksum
    BY DEF Journaled
  <2>2. e \in Event
    BY <2>1, NetAppliedRow DEF Typed
  <2> QED
    BY <2>1, <2>2, TouchesRows, CatalogType DEF Journaled
<1>2. CASE o \in Objects(m)
  BY <1>1, <1>2
<1>3. CASE o \notin Objects(m)
  BY <1>1, <1>3 DEF Touches, BodiesTrue
<1> QED
  BY <1>2, <1>3

\* The artifact of a row just added is the one.
LEMMA OwnRow ==
  ASSUME Typed, Typed', NEW m \in Catalog, NEW k \in Kinds, events' = Append(events, AppliedEvent(m, k)),
         NEW n \in Catalog, n.version = m.version, Journaled(n)'
  PROVE  n = m
<1>1. PICK e \in NetApplied(events') : e.version = n.version /\ e.checksum = n.checksum
  BY DEF Journaled
<1>2. ShapeBefore(e.version)' = e.checksum
  BY <1>1, ShapeOfRowNext
<1>3. ShapeBefore(m.version)' = m.checksum
  BY AppliedRow
<1> QED
  BY <1>1, <1>2, <1>3

\* A marked `up` is of a version that is pending, and shares its objects with no other.
LEMMA TwoPhaseBodies ==
  ASSUME TidyCatalog, Typed, Typed', BodiesTrue, NEW m \in Catalog, TwoPhase(m), Touches(m), UNCHANGED events,
         m.version \in Completed(events) => \A o \in Objects(m) : schema'[o] = ShapeBefore(m.version)
  PROVE  BodiesTrue'
<1>0. ScopesKept /\ TwoPhaseAlone
  BY DEF TidyCatalog
<1>1. \A n \in Catalog : n.version # m.version => Objects(n) \cap Objects(m) = {}
  BY <1>0 DEF TwoPhaseAlone
<1>2. ASSUME NEW n \in Catalog, Journaled(n)', n.version = m.version, NEW o \in Objects(n)
      PROVE  schema'[o] \in Body(n)
  <2>1. PICK e \in NetApplied(events) : e.version = n.version /\ e.checksum = n.checksum
    BY <1>2 DEF Journaled
  <2>2. m.version \in Completed(events) /\ ShapeBefore(m.version) = n.checksum
    BY <1>2, <2>1, ShapeOfRow DEF Completed
  <2>3. o \in Objects(m)
    BY <1>0, <1>2, SameObjects
  <2>4. n.checksum \in Body(n)
    BY CatalogType DEF Body
  <2> QED
    BY <2>2, <2>3, <2>4
<1> QED
  BY <1>1, <1>2, BodiesKept

\* A deployer's row.
LEMMA LandBodies ==
  ASSUME TidyCatalog, Readable, Readable', BodiesTrue, NEW d \in Deployers, PlanKept(d), Apart(d),
         Building(d), NEW m \in todo[d],
         LandSatisfied(d, m) \/ CommitUp(d, m) \/ Finalize(d, m)
  PROVE  BodiesTrue'
<1>0. ScopesKept /\ TwoPhaseAlone /\ Typed /\ Typed'
  BY DEF TidyCatalog, Readable
<1>1. /\ m \in Catalog /\ Land(d, m) /\ KindOf(m) \in Kinds /\ Touches(m)
      /\ \A o \in Objects(m) : schema'[o] = m.checksum
  BY <1>0, LandShape, LandApply, CatalogType
<1>2. m.checksum \in Checksums /\ m.checksum \in Body(m)
  BY <1>1, CatalogType DEF Body
<1>3. events' = Append(events, AppliedEvent(m, KindOf(m)))
  BY <1>1 DEF Land
<1>4. \A n \in Catalog : Journaled(n)' /\ n.version = m.version => n = m
  BY <1>0, <1>1, <1>3, OwnRow
<1>5. ASSUME NEW n \in Catalog, Journaled(n), n.version # m.version, NEW o \in Objects(n) \cap Objects(m)
      PROVE  schema'[o] \in Body(n)
  <2>1. n.version \in Completed(events)
    BY <1>5 DEF Journaled, Completed
  <2>2. phase[d] = "repeatable" /\ m.supersedes = {}
    BY <1>0, <1>5, <2>1 DEF Apart, PlanKept, Typed
  <2>3. n.supersedes # {}
    BY <1>5, <2>2 DEF Objects
  <2> QED
    BY <1>1, <1>2, <1>5, <2>3 DEF Body
<1> QED
  BY <1>0, <1>1, <1>2, <1>4, <1>5, BodiesKept

\* The rest of a deploy's steps are of what is marked, or change nothing.
LEMMA UpBodies ==
  ASSUME TidyCatalog, Readable, Readable', BodiesTrue, Backend # "mysql", NEW d \in Deployers, PlanKept(d),
         Building(d), Stops(d) \/ \E m \in todo[d] : Arm(d, m) \/ RunUp(d, m)
  PROVE  BodiesTrue'
<1>0. Typed /\ Typed'
  BY DEF Readable
<1>1. UNCHANGED <<events, rbInflight>>
  BY DEF Stops, Arm, RunUp, journal
<1>2. ASSUME UNCHANGED schema PROVE BodiesTrue'
  BY <1>1, <1>2 DEF BodiesTrue, Journaled, Body, Objects
<1>3. ASSUME NEW m \in todo[d], TwoPhase(m), Touches(m) PROVE BodiesTrue'
  <2>1. m \in Catalog /\ ~m.repeatable
    BY <1>0, <1>3 DEF TwoPhase, Typed
  <2>2. m.version \notin Completed(events)
    BY <1>0, <2>1 DEF PlanKept, Typed
  <2> QED
    BY <1>0, <1>1, <1>3, <2>1, <2>2, TwoPhaseBodies
<1>4. ASSUME NEW m \in todo[d], Arm(d, m) \/ RunUp(d, m) PROVE TwoPhase(m) /\ Touches(m)
  <2>1. m.version \in Versions /\ inflight \in [Versions -> Checksums \cup {NoMarker}]
    BY <1>0, CatalogType DEF Typed
  <2> QED
    BY <1>4, <2>1 DEF Arm, RunUp, Touches, AfterUp, Recovered, Armed, journal
<1>5. CASE Stops(d)
  <2>1. PICK m \in todo[d] : IF TwoPhase(m) THEN schema' \in Interrupted(m) ELSE UNCHANGED schema
    BY <1>5 DEF Stops, StopsMidUp
  <2>2. TwoPhase(m) => Touches(m)
    BY <1>5, <2>1 DEF Stops, Touches, Interrupted, journal
  <2> QED
    BY <1>2, <1>3, <2>1, <2>2
<1> QED
  BY <1>3, <1>4, <1>5

\* What is unwound shares its objects with nothing that stays.
LEMMA UnwindBodies ==
  ASSUME TidyCatalog, OpsTyped, Readable, Readable', BodiesTrue, Backend # "mysql", StepsApart,
         NEW o \in Operators, UnwindKept(o), Unwinds(o) \/ HalfUnwinds(o)
  PROVE  BodiesTrue'
<1>1. RollbackOne(o) /\ steps[o] # <<>> /\ Typed /\ Typed'
  BY DEF Unwinds, HalfUnwinds, RollbackOne, MarkDown, RunDown, FinalizeDown, Move, UnwindKept, Readable
<1>2. PICK s \in Catalog : s = NextStep(o) /\ Objects(s) \subseteq Versions /\ s.version \in Versions
  BY <1>1, NextStepType, CatalogType DEF OpsTyped
<1>3. Alone(s)
  BY <1>1, <1>2 DEF StepsApart, NextStep, OpsTyped, RollbackTypeOK
<1>4. /\ events' = Append(events, RolledBackEvent(s)) /\ UNCHANGED <<inflight, rbInflight>>
      /\ \A v \in Versions \ Objects(s) : schema'[v] = schema[v]
  BY <1>1, <1>2 DEF RollbackOne, RecordRolledBack, Gone
<1>5. /\ RolledBackEvent(s) \in Event /\ RolledBackEvent(s).event = "rolled_back"
      /\ RolledBackEvent(s).version = s.version
  BY <1>2, CatalogType DEF RolledBackEvent, Event
<1>6. Touches(s)
  BY <1>4, <1>5 DEF Touches
<1>7. \A n \in Catalog : Journaled(n) /\ n.version # s.version => Objects(n) \cap Objects(s) = {}
  BY <1>3 DEF Alone, Journaled, Completed
<1>8. \A n \in Catalog : n.version = s.version => ~Journaled(n)'
  BY <1>1, <1>4, <1>5, NetAppliedUnwind DEF Journaled, Typed
<1> QED
  BY <1>1, <1>6, <1>7, <1>8, BodiesKept

\* A squash is recorded over objects that are all there.
LEMMA SquashBodies ==
  ASSUME TidyCatalog, Readable, Readable', RowsKnown, BodiesTrue, Backend # "mysql",
         NEW m \in Catalog, RecordSquash(m)
  PROVE  BodiesTrue'
<1>1. /\ m.supersedes # {} /\ m.supersedes \subseteq Completed(events) /\ UNCHANGED <<inflight, rbInflight, schema>>
      /\ events' = Append(events, AppliedEvent(m, "squash")) /\ "squash" \in Kinds
      /\ Typed /\ Typed' /\ SquashesFlat
  BY DEF RecordSquash, Kinds, Readable, TidyCatalog
<1>2. Touches(m)
  BY <1>1, AppliedRow DEF Touches
<1>3. ASSUME NEW v \in m.supersedes PROVE schema'[v] \in Checksums
  <2>1. PICK e \in NetApplied(events) : e.version = v
    BY <1>1 DEF Completed
  <2>2. PICK a \in Catalog : a.version = v /\ a.checksum = e.checksum
    BY <2>1 DEF RowsKnown, KnownRow
  <2>3. a.supersedes = {} /\ Journaled(a) /\ v \in Objects(a)
    BY <1>1, <2>1, <2>2 DEF SquashesFlat, Journaled, Objects
  <2>4. schema[v] = a.checksum
    BY <2>3 DEF BodiesTrue, Body
  <2> QED
    BY <1>1, <2>4, CatalogType
<1>4. \A n \in Catalog : Journaled(n)' /\ n.version = m.version => n = m
  BY <1>1, OwnRow
<1>5. \A o \in Objects(m) : schema'[o] \in Body(m)
  BY <1>1, <1>3 DEF Objects, Body
<1> QED
  BY <1>1, <1>2, <1>4, <1>5, BodiesKept DEF BodiesTrue

\* An adopted schema is the first entry, and is there.
LEMMA BaselineBodies ==
  ASSUME TidyCatalog, Readable, Readable', BodiesTrue, NEW m \in Catalog, Baseline(m)
  PROVE  BodiesTrue'
<1>1. /\ Completed(events) = {} /\ UNCHANGED <<inflight, rbInflight>> /\ Typed /\ Typed'
      /\ events' = Append(events, AppliedEvent(m, "baseline")) /\ "baseline" \in Kinds
      /\ Objects(m) \subseteq Versions
      /\ schema' = [v \in Versions |-> IF v \in Objects(m) THEN m.checksum ELSE schema[v]]
  BY CatalogType DEF Baseline, Kinds, Readable
<1>2. Touches(m)
  BY <1>1, AppliedRow DEF Touches
<1>3. \A n \in Catalog : ~Journaled(n)
  BY <1>1 DEF Journaled, Completed
<1>4. \A n \in Catalog : Journaled(n)' /\ n.version = m.version => n = m
  BY <1>1, OwnRow
<1>5. m.checksum \in Body(m)
  BY CatalogType DEF Body
<1> QED
  BY <1>1, <1>2, <1>3, <1>4, <1>5, BodiesKept

\* What an operator does.
LEMMA OperatorBodies ==
  ASSUME TidyCatalog, Readable, Readable', RowsKnown, BodiesTrue, Backend # "mysql",
         NEW m \in Catalog, OperatorStep(m)
  PROVE  BodiesTrue'
<1>1. CASE ClearForRetry(m)
  <2>1. /\ Recorded(m) /\ schema' = Restored(m) /\ UNCHANGED <<events, rbInflight>> /\ Typed /\ Typed'
        /\ inflight' = [inflight EXCEPT ![m.version] = NoMarker] /\ MarkersKnown
        /\ Objects(m) \subseteq Versions
    BY <1>1, CatalogType DEF ClearForRetry, Readable
  <2>2. TwoPhase(m)
    BY <2>1, RecordedKnown
  <2>3. Touches(m)
    BY <2>1 DEF Touches, Restored, Typed
  <2>4. \A o \in Objects(m) : schema'[o] = ShapeBefore(m.version)
    BY <2>1 DEF Restored
  <2> QED
    BY <2>1, <2>2, <2>3, <2>4, TwoPhaseBodies
<1>2. ~MarkApplied(m) /\ ~SettleHalfReverted(m)
  BY DEF MarkApplied, SettleHalfReverted, Readable, DownsMarked
<1> QED
  BY <1>1, <1>2, SquashBodies, BaselineBodies DEF OperatorStep

LEMMA BodiesStep ==
  /\ TidyCatalog /\ OpsTyped /\ OpsTyped' /\ PlansKept /\ UnwindsKept /\ Sound /\ Sound'
  /\ DownsMarked /\ DownsMarked' /\ StepsApart /\ BodiesTrue /\ [OperationsNext]_allVars
  => BodiesTrue'
<1> SUFFICES ASSUME TidyCatalog, OpsTyped, OpsTyped', PlansKept, UnwindsKept, Sound, Sound',
                    DownsMarked, DownsMarked', StepsApart, BodiesTrue, [OperationsNext]_allVars,
                    Backend # "mysql"
             PROVE  BodiesTrue'
  BY DEF BodiesTrue
<1>0. Readable /\ Readable' /\ RowsKnown
  BY DEF Readable, Sound, OpsTyped, RollbackTypeOK
<1>1. CASE UNCHANGED database
  BY <1>1 DEF BodiesTrue, Journaled, Body, Objects, database, journal
<1>2. ASSUME NEW d \in Deployers PROVE PlanKept(d) /\ Apart(d) /\ Building(d)
  BY DEF PlansKept, Sound, UpsKept, UpKept
<1>3. ASSUME NEW d \in Deployers, Stops(d) \/ \E m \in todo[d] : Writes(d, m) PROVE BodiesTrue'
  BY <1>0, <1>2, <1>3, LandBodies, UpBodies DEF Writes
<1>4. ASSUME NEW o \in Operators, Unwinds(o) \/ HalfUnwinds(o) PROVE BodiesTrue'
  BY <1>0, <1>4, UnwindBodies DEF UnwindsKept
<1>5. ASSUME NEW m \in Catalog, OperatorStep(m) PROVE BodiesTrue'
  BY <1>0, <1>5, OperatorBodies
<1> QED
  BY <1>1, <1>3, <1>4, <1>5, Changes

LEMMA DownsAlways == OperationsSpec => []DownsMarked
<1>1. RollbackInit => DownsMarked
  BY DEF RollbackInit, Init, DownsMarked
<1> QED
  BY <1>1, DownsMarkedStep, PTL DEF OperationsSpec

LEMMA BodiesAlways == TidyCatalog /\ SquashesStay /\ OperationsSpec => []BodiesTrue
<1>. SUFFICES ASSUME TidyCatalog, SquashesStay PROVE OperationsSpec => []BodiesTrue
  OBVIOUS
<1>1. RollbackInit => BodiesTrue
  <2> SUFFICES ASSUME RollbackInit PROVE BodiesTrue
    OBVIOUS
  <2>1. Completed(events) = {}
    BY CompletedEmpty DEF RollbackInit, Init
  <2> QED
    BY <2>1 DEF BodiesTrue, Journaled, Completed
<1> QED
  BY <1>1, BodiesStep, OpsTypeInvariant, PlansInvariant, UnwindsInvariant, SoundAlways, DownsAlways,
     StepsApartAlways, PTL DEF OperationsSpec

LEMMA LedgerAlways == TidyCatalog /\ HalfDownsUndone /\ OperationsSpec => []LedgerSound
<1>. SUFFICES ASSUME TidyCatalog, HalfDownsUndone PROVE OperationsSpec => []LedgerSound
  OBVIOUS
<1> QED
  BY LedgerSoundStep, LedgerSoundInit, OpsTypeInvariant, LockedInvariant, PlansInvariant,
     UnwindsInvariant, HistoryAlways, PTL DEF OperationsSpec, History

\* What the journal says is applied is there in the body that was journaled, through deploys,
\* rollbacks, squashes, baselines and recoveries, unless a marker says that it is being changed
\* (apply_one, rollback_locked and recover_inflight_ddl keep row, marker and objects in step).
THEOREM JournalNeverLies ==
  TidyCatalog /\ HalfDownsUndone /\ SquashesStay /\ OperationsSpec => []JournalIsTrue
<1>. SUFFICES ASSUME TidyCatalog, HalfDownsUndone, SquashesStay PROVE OperationsSpec => []JournalIsTrue
  OBVIOUS
<1>1. OpsTyped /\ LedgerSound /\ BodiesTrue => JournalIsTrue
  <2> SUFFICES ASSUME OpsTyped, LedgerSound, BodiesTrue,
                      NEW e \in NetApplied(events), NEW m \in Catalog,
                      m.version = e.version, m.checksum = e.checksum,
                      inflight[m.version] = NoMarker, m.version \notin rbInflight,
                      NEW v \in Objects(m)
               PROVE  schema[v] \in Body(m)
    BY DEF JournalIsTrue, Body
  <2>1. Journaled(m) /\ ~InDoubt(m) /\ m.checksum \in Body(m)
    BY CatalogType DEF Journaled, InDoubt, Body
  <2>2. CASE Backend = "mysql"
    <3>1. Believed[v] = m.checksum
      BY <2>1, <2>2 DEF LedgerSound, RowsTrue
    <3>2. Believed[v] = schema[v]
      BY <2>1, BelievedObject DEF TidyCatalog, LedgerSound, Sound, OpsTyped, RollbackTypeOK
    <3> QED
      BY <2>1, <3>1, <3>2
  <2>3. CASE Backend # "mysql"
    BY <2>1, <2>3 DEF BodiesTrue
  <2> QED
    BY <2>2, <2>3
<1> QED
  BY <1>1, OpsTypeInvariant, LedgerAlways, BodiesAlways, PTL

-----------------------------------------------------------------------------
(* What a deploy has found settled.                                        *)

\* On MySQL the marker of a once-only version is gone once it is journaled.
SettledUnmarked ==
  Backend = "mysql" =>
    \A e \in NetApplied(events) : e.kind # "repeatable" => inflight[e.version] = NoMarker

LEMMA RowVersion ==
  ASSUME Typed, NEW e \in NetApplied(events)
  PROVE  e.version \in Versions
<1>1. e \in Event
  BY NetAppliedRow DEF Typed
<1> QED
  BY <1>1 DEF Event

\* A row that comes with its marker's end leaves no other marked.
LEMMA UnmarkedRow ==
  ASSUME Typed, SettledUnmarked, NEW m \in Catalog, NEW k \in Kinds,
         events' = Append(events, AppliedEvent(m, k)),
         inflight' = [inflight EXCEPT ![m.version] = NoMarker]
  PROVE  SettledUnmarked'
<1> DEFINE row == AppliedEvent(m, k)
<1>1. row \in Event /\ row.event = "applied" /\ row.version = m.version
  BY CatalogType DEF AppliedEvent, Event
<1>2. NetApplied(events') = {x \in NetApplied(events) : x.version # row.version} \cup {row}
  BY <1>1, NetAppliedAppend DEF Typed
<1>3. \A e \in NetApplied(events) : e.version \in Versions
  BY RowVersion
<1> HIDE DEF row
<1>4. inflight'[m.version] = NoMarker /\ \A v \in Versions \ {m.version} : inflight'[v] = inflight[v]
  BY CatalogType DEF Typed
<1> QED
  BY <1>1, <1>2, <1>3, <1>4 DEF SettledUnmarked

\* A marker is armed for what is pending, or repeatable by the journal.
LEMMA UnmarkedArm ==
  ASSUME Typed, SettledUnmarked, NEW d \in Deployers, PlanKept(d), NEW m \in todo[d], Arm(d, m)
  PROVE  SettledUnmarked'
<1>1. /\ UNCHANGED events /\ inflight' = Armed(m) /\ pc[d] = "stepping" /\ m \in supplied[d]
  BY DEF Arm, Runs, Admitted, PlanKept
<1>2. ASSUME NEW e \in NetApplied(events), e.kind # "repeatable" PROVE e.version # m.version
  BY <1>1, <1>2 DEF PlanKept, Completed, Typed
<1>3. \A e \in NetApplied(events) : e.version \in Versions
  BY RowVersion
<1> QED
  BY <1>1, <1>2, <1>3 DEF SettledUnmarked, Armed, Typed

LEMMA SettledUnmarkedStep ==
  OpsTyped /\ PlansKept /\ UnwindsKept /\ SettledUnmarked /\ [OperationsNext]_allVars => SettledUnmarked'
<1> SUFFICES ASSUME OpsTyped, PlansKept, UnwindsKept, SettledUnmarked, [OperationsNext]_allVars,
                    Backend = "mysql"
             PROVE  SettledUnmarked'
  BY DEF SettledUnmarked
<1>0. Typed
  BY DEF OpsTyped, RollbackTypeOK
<1>1. ASSUME UNCHANGED <<events, inflight>> PROVE SettledUnmarked'
  BY <1>1 DEF SettledUnmarked
<1>2. ASSUME NEW d \in Deployers, NEW m \in todo[d], Writes(d, m) PROVE SettledUnmarked'
  <2>1. m \in Catalog /\ KindOf(m) \in Kinds /\ TwoPhase(m) /\ PlanKept(d)
    BY <1>0, CatalogType DEF Typed, TwoPhase, PlansKept
  <2>2. CASE LandSatisfied(d, m) \/ CommitUp(d, m) \/ Finalize(d, m)
    BY <1>0, <2>1, <2>2, UnmarkedRow DEF LandSatisfied, CommitUp, Finalize, Land
  <2>3. CASE Arm(d, m)
    BY <1>0, <2>1, <2>3, UnmarkedArm
  <2>4. CASE RunUp(d, m)
    BY <1>1, <2>4 DEF RunUp, journal
  <2> QED
    BY <1>2, <2>2, <2>3, <2>4 DEF Writes
<1>3. ASSUME NEW o \in Operators, Unwinds(o) \/ HalfUnwinds(o) PROVE SettledUnmarked'
  <2>1. UNCHANGED inflight /\ (UNCHANGED events \/ (RecordRolledBack(o) /\ steps[o] # <<>>))
    BY <1>3 DEF Unwinds, HalfUnwinds, RollbackOne, MarkDown, RunDown, FinalizeDown, Move, journal,
                RecordRolledBack, UnwindsKept, UnwindKept
  <2>2. ASSUME RecordRolledBack(o), steps[o] # <<>> PROVE NetApplied(events') \subseteq NetApplied(events)
    <3>1. RolledBackEvent(NextStep(o)) \in Event /\ RolledBackEvent(NextStep(o)).event = "rolled_back"
      BY <2>2, NextStepType DEF RolledBackEvent, OpsTyped
    <3>2. events' = Append(events, RolledBackEvent(NextStep(o)))
      BY <2>2 DEF RecordRolledBack
    <3> QED
      BY <1>0, <3>1, <3>2, NetAppliedUnwind DEF Typed
  <2> QED
    BY <2>1, <2>2 DEF SettledUnmarked
<1>4. ASSUME NEW m \in Catalog, OperatorStep(m) PROVE SettledUnmarked'
  <2>1. ~RecordSquash(m) /\ ~Baseline(m)
    BY DEF RecordSquash, Baseline
  <2>2. CASE MarkApplied(m)
    BY <1>0, <2>2, UnmarkedRow, CatalogType DEF MarkApplied
  <2>3. CASE ClearForRetry(m)
    <3>1. \A e \in NetApplied(events) : e.version \in Versions
      BY <1>0, RowVersion
    <3> QED
      BY <1>0, <2>3, <3>1 DEF ClearForRetry, SettledUnmarked, Typed
  <2>4. CASE SettleHalfReverted(m)
    BY <1>1, <2>4 DEF SettleHalfReverted
  <2> QED
    BY <1>4, <2>1, <2>2, <2>3, <2>4 DEF OperatorStep
<1> QED
  BY <1>1, <1>2, <1>3, <1>4, Changes DEF database, journal, Stops

\* What a deploy was handed that is settled is journaled as once-only, in its body, and no `down`
\* of it was interrupted.
SupplyTrue(d) ==
  pc[d] \in {"stepping", "up", "finalize", "ok"} =>
    \A m \in Versioned(supplied[d]) :
      /\ m.version \notin rbInflight
      /\ \A e \in NetApplied(events) : e.version = m.version =>
           e.checksum = m.checksum /\ e.kind # "repeatable"

SuppliesTrue == \A d \in Deployers : SupplyTrue(d)

LEMMA SupplyPlans ==
  ASSUME Typed, NEW d \in Deployers, Plan(d)
  PROVE  SupplyTrue(d)'
<1>1. UNCHANGED <<events, rbInflight, supplied>> /\ ~Refused(supplied[d])
  BY DEF Plan, journal
<1>2. ~HalfReverted(supplied[d]) /\ ~Drifted(supplied[d])
  BY <1>1 DEF Refused
<1>3. ASSUME NEW m \in Versioned(supplied[d])
      PROVE  /\ m.version \notin rbInflight
             /\ \A e \in NetApplied(events) : e.version = m.version =>
                  e.checksum = m.checksum /\ e.kind # "repeatable"
  <2>1. m \in supplied[d] /\ ~m.repeatable
    BY DEF Versioned
  <2>2. m.version \notin rbInflight
    BY <1>2, <2>1 DEF HalfReverted, Ids
  <2>3. ASSUME NEW e \in NetApplied(events), e.version = m.version
        PROVE  e.checksum = m.checksum /\ e.kind # "repeatable"
    BY <1>2, <2>1, <2>3, Zenon DEF Drifted
  <2> QED
    BY <2>2, <2>3
<1> QED
  BY <1>1, <1>3 DEF SupplyTrue, Versioned

\* A row that the deploy adds is of its own.
LEMMA SupplyLands ==
  ASSUME Typed, NEW d \in Deployers, PlanKept(d), SupplyTrue(d),
         pc[d] \in {"stepping", "up", "finalize"}, NEW m \in todo[d], Land(d, m)
  PROVE  SupplyTrue(d)'
<1> DEFINE row == AppliedEvent(m, KindOf(m))
<1>1. /\ m \in supplied[d] /\ m \in Catalog /\ UNCHANGED <<rbInflight, supplied>>
      /\ events' = Append(events, row)
      /\ row \in Event /\ row.event = "applied" /\ row.version = m.version
      /\ row.checksum = m.checksum /\ row.kind = KindOf(m)
  BY CatalogType DEF Land, PlanKept, Typed, AppliedEvent
<1> HIDE DEF row
<1>2. NetApplied(events') = {x \in NetApplied(events) : x.version # row.version} \cup {row}
  BY <1>1, NetAppliedAppend DEF Typed
<1>3. ASSUME NEW n \in Versioned(supplied[d]), n.version = m.version
      PROVE  n = m /\ KindOf(m) # "repeatable"
  <2>1. n = m
    BY <1>1, <1>3 DEF PlanKept, Versioned
  <2> QED
    BY <2>1 DEF KindOf, Versioned
<1> QED
  BY <1>1, <1>2, <1>3 DEF SupplyTrue, Versioned

LEMMA SupplyMoves ==
  ASSUME Typed, NEW d \in Deployers, PlanKept(d), SupplyTrue(d), DeployerStep(d)
  PROVE  SupplyTrue(d)'
<1>1. ASSUME pc'[d] \in {"idle", "waiting", "planning", "failed"} PROVE SupplyTrue(d)'
  BY <1>1 DEF SupplyTrue
<1>2. ASSUME UNCHANGED <<events, rbInflight, supplied>>, pc[d] \in {"stepping", "up", "finalize"}
      PROVE  SupplyTrue(d)'
  BY <1>2 DEF SupplyTrue, Versioned
<1>3. CASE AcquireLock(d) \/ \E ms \in Manifests, grant \in Grants : Submit(d, ms, grant)
  BY <1>1, <1>3 DEF AcquireLock, Submit, Goto, Typed
<1>4. CASE Plan(d)
  BY <1>4, SupplyPlans
<1>5. CASE PlanRepeatables(d) \/ Finish(d)
  BY <1>2, <1>5 DEF PlanRepeatables, Finish, Goto, journal, local
<1>6. ASSUME NEW m \in todo[d],
             Skip(d, m) \/ SkipRepeatable(d, m) \/ Begin(d, m) \/ Arm(d, m) \/ RunUp(d, m)
      PROVE  SupplyTrue(d)'
  BY <1>2, <1>6 DEF Skip, SkipRepeatable, Begin, Arm, RunUp, Goto, journal, local
<1>7. ASSUME NEW m \in todo[d], LandSatisfied(d, m) \/ CommitUp(d, m) \/ Finalize(d, m)
      PROVE  SupplyTrue(d)'
  BY <1>7, SupplyLands DEF LandSatisfied, CommitUp, Finalize, Goto, Admitted
<1> QED
  BY <1>1, <1>3, <1>4, <1>5, <1>6, <1>7, DeployerMoves DEF Writes

LEMMA SuppliesTrueStep ==
  OpsTyped /\ Locked /\ PlansKept /\ SuppliesTrue /\ [OperationsNext]_allVars => SuppliesTrue'
<1> SUFFICES ASSUME OpsTyped, Locked, PlansKept, SuppliesTrue, [OperationsNext]_allVars,
                    NEW d \in Deployers
             PROVE  SupplyTrue(d)'
  BY DEF SuppliesTrue
<1>1. Typed /\ PlanKept(d) /\ SupplyTrue(d)
  BY DEF OpsTyped, RollbackTypeOK, PlansKept, SuppliesTrue
<1>2. CASE DeployerStep(d)
  BY <1>1, <1>2, SupplyMoves
<1>3. CASE UNCHANGED DeployOf(d) /\ (pc[d] \in Holding => UNCHANGED database)
  BY <1>1, <1>3 DEF SupplyTrue, Versioned, DeployOf, Holding, database, journal
<1> QED
  BY <1>2, <1>3, DeployerFrame

LEMMA SettledAlways == OperationsSpec => [](SettledUnmarked /\ SuppliesTrue)
<1>1. RollbackInit => SettledUnmarked /\ SuppliesTrue
  <2> SUFFICES ASSUME RollbackInit PROVE SettledUnmarked /\ SuppliesTrue
    OBVIOUS
  <2>1. \A v \in Completed(events) : FALSE
    BY CompletedEmpty DEF RollbackInit, Init
  <2>2. SettledUnmarked
    BY <2>1 DEF SettledUnmarked, Completed
  <2>3. \A d \in Deployers : pc[d] = "idle"
    BY DEF RollbackInit, Init
  <2> QED
    BY <2>2, <2>3 DEF SuppliesTrue, SupplyTrue
<1> QED
  BY <1>1, SettledUnmarkedStep, SuppliesTrueStep, OpsTypeInvariant, LockedInvariant, PlansInvariant,
     UnwindsInvariant, PTL DEF OperationsSpec

\* A deploy that ends well reports as skipped no settled version whose objects are gone or torn:
\* an interrupted `down` stops it first (unresolved_rollback_markers, compare_applied_to_set).
THEOREM SkipsAreBuilt ==
  TidyCatalog /\ HalfDownsUndone /\ SquashesStay /\ OperationsSpec => []SkippedIsBuilt
<1>. SUFFICES ASSUME TidyCatalog, HalfDownsUndone, SquashesStay PROVE OperationsSpec => []SkippedIsBuilt
  OBVIOUS
<1>1. OpsTyped /\ LedgerSound /\ BodiesTrue /\ SettledUnmarked /\ SuppliesTrue => SkippedIsBuilt
  <2> SUFFICES ASSUME OpsTyped, LedgerSound, BodiesTrue, SettledUnmarked, SuppliesTrue,
                      NEW d \in Deployers, pc[d] = "ok", NEW m \in Versioned(supplied[d]),
                      m.version \in Completed(events), NEW v \in Objects(m)
               PROVE  schema[v] \in Checksums
    BY DEF SkippedIsBuilt
  <2>1. m \in Catalog /\ m.checksum \in Checksums
    BY CatalogType DEF OpsTyped, RollbackTypeOK, Typed, Versioned
  <2>2. PICK e \in NetApplied(events) : e.version = m.version
    BY DEF Completed
  <2>3. m.version \notin rbInflight /\ e.checksum = m.checksum /\ e.kind # "repeatable"
    BY <2>2 DEF SuppliesTrue, SupplyTrue
  <2>4. Journaled(m)
    BY <2>2, <2>3 DEF Journaled
  <2>5. CASE Backend = "mysql"
    <3>1. ~InDoubt(m)
      BY <2>2, <2>3, <2>5 DEF SettledUnmarked, InDoubt
    <3>2. Believed[v] = m.checksum
      BY <2>1, <2>4, <2>5 DEF LedgerSound, RowsTrue
    <3>3. Believed[v] = schema[v]
      BY <2>1, <3>1, BelievedObject DEF TidyCatalog, LedgerSound, Sound, OpsTyped, RollbackTypeOK
    <3> QED
      BY <2>1, <3>2, <3>3
  <2>6. CASE Backend # "mysql"
    BY <2>1, <2>4, <2>6 DEF BodiesTrue, Body
  <2> QED
    BY <2>5, <2>6
<1> QED
  BY <1>1, OpsTypeInvariant, LedgerAlways, BodiesAlways, SettledAlways, PTL

-----------------------------------------------------------------------------
(* What a deploy reports as skipped has no marker.                         *)

\* The marker of a version is gone once it is journaled.
Cleared == \A v \in Versions : inflight[v] # NoMarker => v \notin Completed(events)

\* Nothing marks a routine, or a schema that is adopted.
LEMMA NeverMarked ==
  ASSUME MarkersKnown, NEW m \in Catalog,
         \A n \in Catalog : n.version = m.version => ~TwoPhase(n)
  PROVE  inflight[m.version] = NoMarker
  BY CatalogType DEF MarkersKnown

LEMMA ClearedRow ==
  ASSUME Typed, Cleared, NEW m \in Catalog, NEW k \in Kinds, events' = Append(events, AppliedEvent(m, k)),
         \/ UNCHANGED inflight /\ inflight[m.version] = NoMarker
         \/ inflight' = [inflight EXCEPT ![m.version] = NoMarker]
  PROVE  Cleared'
<1>1. AppliedEvent(m, k) \in Event /\ AppliedEvent(m, k).event = "applied"
      /\ AppliedEvent(m, k).version = m.version /\ m.version \in Versions
  BY CatalogType DEF AppliedEvent, Event
<1>2. Completed(events') = Completed(events) \cup {m.version}
  BY <1>1, CompletedAppend DEF Typed
<1>3. inflight'[m.version] = NoMarker /\ \A v \in Versions \ {m.version} : inflight'[v] = inflight[v]
  BY <1>1 DEF Typed
<1> QED
  BY <1>1, <1>2, <1>3 DEF Cleared

\* A version that a deployer lands in one transaction was not marked: its marker would have
\* been compared.
LEMMA LandsUnmarked ==
  ASSUME RoutinesUnmarked, Typed, MarkersKnown, NEW d \in Deployers, PlanKept(d), UpKept(d),
         NEW m \in todo[d], ~TwoPhase(m),
         LandSatisfied(d, m) \/ CommitUp(d, m) \/ Finalize(d, m)
  PROVE  inflight[m.version] = NoMarker
<1>0. m \in Catalog
  BY DEF Typed
<1>1. CASE m.repeatable
  BY <1>0, <1>1, NeverMarked DEF RoutinesUnmarked
<1>2. CASE ~m.repeatable
  <2>1. phase[d] = "versioned"
    BY <1>2 DEF PlanKept, Typed
  <2>2. CASE CommitUp(d, m) \/ Finalize(d, m)
    BY <2>1, <2>2 DEF CommitUp, Finalize, Goto, UpKept, Building
  <2>3. CASE LandSatisfied(d, m)
    BY <1>0, <2>1, <2>3, MarkerAgreed, RecordedKnown DEF LandSatisfied, Admitted, Evaluated, UpKept
  <2> QED
    BY <2>2, <2>3
<1> QED
  BY <1>1, <1>2

LEMMA ClearedStep ==
  /\ TidyCatalog /\ RoutinesUnmarked /\ BaselinesUnmarked /\ OpsTyped /\ PlansKept /\ UnwindsKept
  /\ Sound /\ DownsMarked /\ Cleared /\ [OperationsNext]_allVars
  => Cleared'
<1> SUFFICES ASSUME TidyCatalog, RoutinesUnmarked, BaselinesUnmarked, OpsTyped, PlansKept, UnwindsKept,
                    Sound, DownsMarked, Cleared, [OperationsNext]_allVars
             PROVE  Cleared'
  OBVIOUS
<1>0. Typed /\ Readable /\ MarkersKnown /\ RowsKnown
  BY DEF OpsTyped, RollbackTypeOK, Readable, Sound
<1>1. ASSUME UNCHANGED <<events, inflight>> PROVE Cleared'
  BY <1>1 DEF Cleared
<1>2. ASSUME NEW d \in Deployers, NEW m \in todo[d], Writes(d, m) PROVE Cleared'
  <2>1. m \in Catalog /\ KindOf(m) \in Kinds /\ PlanKept(d) /\ UpKept(d)
    BY <1>0, CatalogType DEF Typed, PlansKept, Sound, UpsKept
  <2>2. CASE LandSatisfied(d, m) \/ CommitUp(d, m) \/ Finalize(d, m)
    <3>1. Land(d, m)
      BY <2>2 DEF LandSatisfied, CommitUp, Finalize
    <3>2. ~TwoPhase(m) => inflight[m.version] = NoMarker
      BY <1>0, <2>1, <2>2, LandsUnmarked
    <3> QED
      BY <1>0, <2>1, <3>1, <3>2, ClearedRow DEF Land
  <2>3. CASE Arm(d, m)
    <3>1. ~m.repeatable
      BY <2>1, <2>3 DEF Arm, RoutinesUnmarked
    <3>2. m.version \notin Completed(events) /\ UNCHANGED events /\ inflight' = Armed(m)
      BY <1>0, <2>1, <2>3, <3>1 DEF PlanKept, Typed, Arm
    <3> QED
      BY <1>0, <3>2 DEF Armed, Typed, Cleared
  <2>4. CASE RunUp(d, m)
    BY <1>1, <2>4 DEF RunUp, journal
  <2> QED
    BY <1>2, <2>2, <2>3, <2>4 DEF Writes
<1>3. ASSUME NEW o \in Operators, Unwinds(o) \/ HalfUnwinds(o) PROVE Cleared'
  <2>1. UNCHANGED inflight /\ (UNCHANGED events \/ (RecordRolledBack(o) /\ steps[o] # <<>>))
    BY <1>3 DEF Unwinds, HalfUnwinds, RollbackOne, MarkDown, RunDown, FinalizeDown, Move, journal,
                RecordRolledBack, UnwindsKept, UnwindKept
  <2>2. ASSUME RecordRolledBack(o), steps[o] # <<>> PROVE Completed(events') \subseteq Completed(events)
    <3>1. RolledBackEvent(NextStep(o)) \in Event /\ RolledBackEvent(NextStep(o)).event = "rolled_back"
      BY <2>2, NextStepType DEF RolledBackEvent, OpsTyped
    <3>2. events' = Append(events, RolledBackEvent(NextStep(o)))
      BY <2>2 DEF RecordRolledBack
    <3> QED
      BY <1>0, <3>1, <3>2, CompletedUnwind DEF Typed
  <2> QED
    BY <2>1, <2>2 DEF Cleared
<1>4. ASSUME NEW m \in Catalog, OperatorStep(m) PROVE Cleared'
  <2>1. CASE RecordSquash(m)
    <3>1. inflight[m.version] = NoMarker
      BY <1>0, <2>1, AdoptedCertain DEF RecordSquash, InDoubt
    <3> QED
      BY <1>0, <2>1, <3>1, ClearedRow DEF RecordSquash, Kinds
  <2>2. CASE Baseline(m)
    <3>1. inflight[m.version] = NoMarker
      BY <1>0, <2>2, NeverMarked DEF Baseline, BaselinesUnmarked
    <3> QED
      BY <1>0, <2>2, <3>1, ClearedRow DEF Baseline, Kinds
  <2>3. CASE MarkApplied(m)
    BY <1>0, <2>3, ClearedRow, CatalogType DEF MarkApplied
  <2>4. CASE ClearForRetry(m)
    BY <1>0, <2>4 DEF ClearForRetry, Cleared, Typed
  <2>5. CASE SettleHalfReverted(m)
    BY <1>1, <2>5 DEF SettleHalfReverted
  <2> QED
    BY <1>4, <2>1, <2>2, <2>3, <2>4, <2>5 DEF OperatorStep
<1> QED
  BY <1>1, <1>2, <1>3, <1>4, Changes DEF database, journal, Stops

LEMMA ClearedAlways ==
  TidyCatalog /\ RoutinesUnmarked /\ BaselinesUnmarked /\ OperationsSpec => []Cleared
<1>. SUFFICES ASSUME TidyCatalog, RoutinesUnmarked, BaselinesUnmarked PROVE OperationsSpec => []Cleared
  OBVIOUS
<1>1. RollbackInit => Cleared
  BY DEF RollbackInit, Init, Cleared
<1> QED
  BY <1>1, ClearedStep, OpsTypeInvariant, PlansInvariant, UnwindsInvariant, SoundAlways, DownsAlways, PTL
     DEF OperationsSpec

\* What a deploy has reported is not marked, and in the versioned phase not still to be visited.
Reported(d) ==
  pc[d] \in {"stepping", "up", "finalize", "ok"} =>
    /\ \A v \in outcome[d] : inflight[v] = NoMarker
    /\ phase[d] = "versioned" => outcome[d] \cap Ids(todo[d]) = {}

AllReported == \A d \in Deployers : Reported(d)

\* What a squash covers runs in one phase.
LEMMA CoveredUnmarked ==
  ASSUME TidyCatalog, MarkersKnown, NEW n \in Catalog, NEW v \in n.supersedes
  PROVE  inflight[v] = NoMarker
<1> SUFFICES ASSUME inflight[v] # NoMarker PROVE FALSE
  OBVIOUS
<1>0. ScopesKept /\ SquashesFlat /\ TwoPhaseAlone
  BY DEF TidyCatalog
<1>1. v \in Versions
  BY CatalogType
<1>2. PICK a \in Catalog : a.version = v /\ TwoPhase(a)
  BY <1>1 DEF MarkersKnown
<1>3. a.supersedes = {} /\ v \in Objects(a) /\ v \in Objects(n)
  BY <1>0, <1>2 DEF SquashesFlat, Objects
<1>4. n.version = a.version
  BY <1>0, <1>2, <1>3 DEF TwoPhaseAlone
<1> QED
  BY <1>0, <1>3, <1>4 DEF ScopesKept

\* What is settled when a deploy plans is not marked.
LEMMA PlanReports ==
  ASSUME TidyCatalog, Typed, RowsKnown, MarkersKnown, EdgesKept, Cleared,
         NEW d \in Deployers, PlanKept(d), Plan(d)
  PROVE  Reported(d)'
<1> DEFINE ms == Versioned(supplied[d])
<1>1. /\ todo'[d] = Pending(ms) /\ outcome'[d] = Ids(ms \ Pending(ms)) /\ UNCHANGED inflight
      /\ ms \subseteq supplied[d] /\ ms \subseteq Catalog
  BY DEF Plan, Typed, journal, Versioned
<1>2. \A m, n \in ms : m.version = n.version => m = n
  BY <1>1 DEF PlanKept
<1>3. Ids(ms \ Pending(ms)) \cap Ids(Pending(ms)) = {}
  BY <1>2 DEF Ids, Pending
<1>4. ASSUME NEW m \in ms, m \notin Pending(ms) PROVE inflight[m.version] = NoMarker
  <2>1. CASE m.version \in Completed(events)
    BY <1>1, <2>1, CatalogType DEF Cleared
  <2>2. CASE \E n \in ms : m.version \in n.supersedes
    BY <1>1, <2>2, CoveredUnmarked
  <2>3. CASE m.version \in Superseded(events, edges)
    <3>1. PICK p \in edges : p[2] = m.version /\ \E e \in NetApplied(events) : e.version = p[1]
      BY <2>3 DEF Superseded
    <3>2. PICK n \in Catalog : n.version = p[1]
      BY <3>1 DEF RowsKnown, KnownRow
    <3>3. m.version \in n.supersedes
      BY <3>1, <3>2 DEF EdgesKept
    <3> QED
      BY <3>3, CoveredUnmarked
  <2> QED
    BY <1>4, <2>1, <2>2, <2>3 DEF Pending, Covered
<1>5. \A v \in Ids(ms \ Pending(ms)) : inflight[v] = NoMarker
  BY <1>4 DEF Ids
<1> QED
  BY <1>1, <1>3, <1>5 DEF Reported

\* What is skipped is not marked: an armed marker outranks every route to a skip.
LEMMA SkipReports ==
  ASSUME RoutinesUnmarked, Typed, MarkersKnown, NEW d \in Deployers, PlanKept(d), Snapshot(d), Reported(d),
         NEW m \in todo[d], Skip(d, m) \/ SkipRepeatable(d, m)
  PROVE  Reported(d)'
<1>1. /\ m \in Catalog /\ pc[d] = "stepping" /\ todo'[d] = todo[d] \ {m}
      /\ outcome'[d] = outcome[d] \cup {m.version} /\ UNCHANGED <<inflight, phase>>
  BY DEF Skip, SkipRepeatable, Typed, journal
<1>2. inflight[m.version] = NoMarker
  <2>1. CASE Skip(d, m)
    BY <2>1, MarkerAgreed DEF Skip, Skippable, DependencySkipped
  <2>2. CASE SkipRepeatable(d, m)
    <3>1. m.repeatable
      BY <2>2 DEF SkipRepeatable, PlanKept
    <3> QED
      BY <1>1, <3>1, NeverMarked DEF RoutinesUnmarked
  <2> QED
    BY <2>1, <2>2
<1>3. m.version \notin Ids(todo[d] \ {m})
  BY OneOfVersion DEF Ids
<1>4. Ids(todo[d] \ {m}) \subseteq Ids(todo[d])
  BY DEF Ids
<1>5. \A v \in outcome[d] \cup {m.version} : inflight[v] = NoMarker
  BY <1>1, <1>2 DEF Reported
<1>6. ASSUME phase[d] = "versioned"
      PROVE  (outcome[d] \cup {m.version}) \cap Ids(todo[d] \ {m}) = {}
  <2>1. outcome[d] \cap Ids(todo[d]) = {}
    BY <1>1, <1>6 DEF Reported
  <2>2. ASSUME NEW v \in outcome[d] \cup {m.version}, v \in Ids(todo[d] \ {m}) PROVE FALSE
    <3>1. v \in Ids(todo[d]) /\ v # m.version
      BY <1>3, <1>4, <2>2
    <3> QED
      BY <2>1, <2>2, <3>1
  <2> QED
    BY <2>2
<1> QED
  BY <1>1, <1>5, <1>6 DEF Reported

LEMMA ReportMoves ==
  ASSUME TidyCatalog, RoutinesUnmarked, Typed, RowsKnown, MarkersKnown, EdgesKept, Cleared,
         NEW d \in Deployers, PlanKept(d), Snapshot(d), Reported(d), DeployerStep(d)
  PROVE  Reported(d)'
<1>1. ASSUME pc'[d] \in {"idle", "waiting", "planning", "failed"} PROVE Reported(d)'
  BY <1>1 DEF Reported
<1>2. ASSUME UNCHANGED <<inflight, outcome, todo>>, UNCHANGED phase \/ phase'[d] = "repeatable",
             pc[d] \in {"stepping", "up", "finalize"}
      PROVE  Reported(d)'
  BY <1>2 DEF Reported
<1>3. CASE AcquireLock(d) \/ \E ms \in Manifests, grant \in Grants : Submit(d, ms, grant)
  BY <1>1, <1>3 DEF AcquireLock, Submit, Goto, Typed
<1>4. CASE Plan(d)
  BY <1>4, PlanReports
<1>5. CASE PlanRepeatables(d)
  BY <1>5 DEF PlanRepeatables, Reported, Typed, journal
<1>6. CASE Finish(d)
  BY <1>2, <1>6 DEF Finish, Goto, journal, local
<1>7. ASSUME NEW m \in todo[d], Begin(d, m) \/ RunUp(d, m)
      PROVE  Reported(d)'
  BY <1>2, <1>7 DEF Begin, RunUp, Goto, Runs, Admitted, journal, local
<1>8. ASSUME NEW m \in todo[d], Skip(d, m) \/ SkipRepeatable(d, m) PROVE Reported(d)'
  BY <1>8, SkipReports
<1>9. ASSUME NEW m \in todo[d], Arm(d, m) PROVE Reported(d)'
  <2>1. /\ m \in Catalog /\ pc[d] = "stepping" /\ inflight' = Armed(m) /\ UNCHANGED <<todo, outcome, phase>>
    BY <1>9 DEF Arm, Goto, Typed, local
  <2>2. phase[d] = "versioned"
    BY <1>9, <2>1 DEF Arm, RoutinesUnmarked, PlanKept, Typed
  <2>3. m.version \notin outcome[d]
    BY <2>1, <2>2 DEF Reported, Ids
  <2> QED
    BY <2>1, <2>3 DEF Reported, Armed, Typed
<1>10. ASSUME NEW m \in todo[d], LandSatisfied(d, m) \/ CommitUp(d, m) \/ Finalize(d, m)
       PROVE  Reported(d)'
  <2>1. Land(d, m) /\ pc[d] \in {"stepping", "up", "finalize"}
    BY <1>10 DEF LandSatisfied, CommitUp, Finalize, Goto, Admitted
  <2>2. /\ todo'[d] \subseteq todo[d] /\ UNCHANGED <<outcome, phase>>
        /\ \A v \in Versions : inflight[v] = NoMarker => inflight'[v] = NoMarker
    BY <2>1 DEF Land, Typed
  <2>3. outcome[d] \subseteq Versions /\ Ids(todo'[d]) \subseteq Ids(todo[d])
    BY <2>2 DEF Typed, Ids
  <2> QED
    BY <2>1, <2>2, <2>3 DEF Reported
<1> QED
  BY <1>1, <1>3, <1>4, <1>5, <1>6, <1>7, <1>8, <1>9, <1>10, DeployerMoves DEF Writes

LEMMA ReportedStep ==
  /\ TidyCatalog /\ RoutinesUnmarked /\ OpsTyped /\ Locked /\ PlansKept /\ Sound /\ EdgesKept /\ Cleared
  /\ AllReported /\ [OperationsNext]_allVars
  => AllReported'
<1> SUFFICES ASSUME TidyCatalog, RoutinesUnmarked, OpsTyped, Locked, PlansKept, Sound, EdgesKept, Cleared,
                    AllReported, [OperationsNext]_allVars, NEW d \in Deployers
             PROVE  Reported(d)'
  BY DEF AllReported
<1>1. Typed /\ PlanKept(d) /\ Snapshot(d) /\ Reported(d) /\ RowsKnown /\ MarkersKnown
  BY DEF OpsTyped, RollbackTypeOK, PlansKept, Sound, UpsKept, UpKept, AllReported
<1>2. CASE DeployerStep(d)
  BY <1>1, <1>2, ReportMoves
<1>3. CASE UNCHANGED DeployOf(d) /\ (pc[d] \in Holding => UNCHANGED database)
  BY <1>1, <1>3 DEF Reported, DeployOf, Holding, database, journal
<1> QED
  BY <1>2, <1>3, DeployerFrame

\* A deploy that ends well reports as skipped no version whose marker is armed, whatever its
\* preconditions and squashes say (evaluate_precondition and the skips of execute_pending).
THEOREM NoSkipOverMarker ==
  TidyCatalog /\ RoutinesUnmarked /\ BaselinesUnmarked /\ OperationsSpec => []NoSkipWhileArmed
<1>. SUFFICES ASSUME TidyCatalog, RoutinesUnmarked, BaselinesUnmarked
              PROVE  OperationsSpec => []NoSkipWhileArmed
  OBVIOUS
<1>0. ScopesKept
  BY DEF TidyCatalog
<1>1. RollbackInit => AllReported
  BY DEF RollbackInit, Init, AllReported, Reported
<1>2. AllReported => NoSkipWhileArmed
  BY DEF AllReported, Reported, NoSkipWhileArmed
<1> QED
  BY <1>0, <1>1, <1>2, ReportedStep, OpsTypeInvariant, LockedInvariant, PlansInvariant, SoundAlways,
     EdgesAlways, ClearedAlways, PTL DEF OperationsSpec

-----------------------------------------------------------------------------
(* What is applied has what it depends on.                                 *)

\* Without squashes a catalog is tidy, and nothing is superseded.
LEMMA PlainIsTidy == SquashFree => TidyCatalog /\ SquashesStay
  BY DEF SquashFree, TidyCatalog, ScopesKept, SquashesFlat, TwoPhaseAlone, BaselinesPlain, SquashesStay,
         Objects

LEMMA NoneSuperseded ==
  ASSUME SquashFree, RowsKnown
  PROVE  Superseded(events, edges) = {}
  BY DEF SquashFree, RowsKnown, KnownRow, Superseded

\* How the journal moves without squashes and off MySQL.
LEMMA PlainMoves ==
  ASSUME SquashFree, Backend # "mysql", OpsTyped, UnwindsKept, [OperationsNext]_allVars
  PROVE  \/ UNCHANGED events
         \/ \E d \in Deployers : \E m \in todo[d] :
              Land(d, m) /\ First(m, todo[d]) /\ pc[d] \in {"stepping", "up", "finalize"}
         \/ \E m \in Adoptable :
              Completed(events) = {} /\ events' = Append(events, AppliedEvent(m, "baseline"))
         \/ \E o \in Operators : steps[o] # <<>> /\ RecordRolledBack(o)
<1>1. ASSUME NEW d \in Deployers, NEW m \in todo[d], Writes(d, m)
      PROVE  \/ UNCHANGED events
             \/ Land(d, m) /\ First(m, todo[d]) /\ pc[d] \in {"stepping", "up", "finalize"}
  BY <1>1 DEF Writes, LandSatisfied, Arm, CommitUp, RunUp, Finalize, Admitted, Evaluated, Goto, journal
<1>2. ASSUME NEW o \in Operators, Unwinds(o) \/ HalfUnwinds(o)
      PROVE  UNCHANGED events \/ (steps[o] # <<>> /\ RecordRolledBack(o))
  BY <1>2 DEF Unwinds, HalfUnwinds, RollbackOne, MarkDown, RunDown, FinalizeDown, Move, journal,
              UnwindsKept, UnwindKept
<1>3. ASSUME NEW m \in Catalog, OperatorStep(m)
      PROVE  \/ UNCHANGED events
             \/ /\ m \in Adoptable /\ Completed(events) = {}
                /\ events' = Append(events, AppliedEvent(m, "baseline"))
  BY <1>3 DEF OperatorStep, RecordSquash, Baseline, MarkApplied, ClearForRetry, SettleHalfReverted, SquashFree
<1>4. UNCHANGED database => UNCHANGED events
  BY DEF database, journal
<1> QED
  BY <1>1, <1>2, <1>3, <1>4, Changes DEF Stops, journal

\* What the row of a recorded unwind is.
LEMMA UnwindRow ==
  ASSUME OpsTyped, UnwindsKept, NEW o \in Operators, steps[o] # <<>>, RecordRolledBack(o)
  PROVE  /\ NextStep(o) \in Catalog /\ Journaled(NextStep(o)) /\ NextStep(o).down = "txn"
         /\ RolledBackEvent(NextStep(o)) \in Event
         /\ RolledBackEvent(NextStep(o)).event = "rolled_back"
         /\ RolledBackEvent(NextStep(o)).version = NextStep(o).version
         /\ events' = Append(events, RolledBackEvent(NextStep(o)))
         /\ steps'[o] = Tail(steps[o])
<1>1. /\ NextStep(o) \in Catalog /\ NextStep(o) = steps[o][1] /\ 1 \in DOMAIN steps[o]
      /\ RolledBackEvent(NextStep(o)) \in Event
  BY NextStepType DEF OpsTyped
<1>2. Journaled(NextStep(o)) /\ NextStep(o).down = "txn"
  BY <1>1 DEF UnwindsKept, UnwindKept
<1> QED
  BY <1>1, <1>2 DEF RolledBackEvent, RecordRolledBack, OpsTyped, RollbackTypeOK

\* A version that was ever applied as a routine is applied as one: routines are not unwound.
RoutinesStay ==
  \A i \in DOMAIN events : events[i].event = "applied" /\ events[i].kind = "repeatable" =>
    \E e \in NetApplied(events) : e.version = events[i].version /\ e.kind = "repeatable"

LEMMA RoutinesStayStep ==
  /\ SquashFree /\ Backend # "mysql" /\ OpsTyped /\ PlansKept /\ UnwindsKept /\ RowsKnown
  /\ RoutinesStay /\ [OperationsNext]_allVars
  => RoutinesStay'
<1> SUFFICES ASSUME SquashFree, Backend # "mysql", OpsTyped, PlansKept, UnwindsKept, RowsKnown,
                    RoutinesStay, [OperationsNext]_allVars
             PROVE  RoutinesStay'
  OBVIOUS
<1>0. Typed /\ events \in Seq(Event)
  BY DEF OpsTyped, RollbackTypeOK, Typed
<1>1. CASE UNCHANGED events
  BY <1>1 DEF RoutinesStay
<1>2. ASSUME NEW e \in Event, events' = Append(events, e), e.event = "applied",
             e.kind = "repeatable" \/ e.version \notin Completed(events)
      PROVE  RoutinesStay'
  <2>1. NetApplied(events') = {x \in NetApplied(events) : x.version # e.version} \cup {e}
    BY <1>0, <1>2, NetAppliedAppend
  <2>2. /\ Len(events) \in Nat /\ DOMAIN events' = 1..(Len(events) + 1) /\ DOMAIN events = 1..Len(events)
        /\ events'[Len(events) + 1] = e /\ \A i \in 1..Len(events) : events'[i] = events[i]
    BY <1>0, <1>2, EventsAppend
  <2>3. ASSUME NEW i \in DOMAIN events', events'[i].event = "applied", events'[i].kind = "repeatable"
        PROVE  \E x \in NetApplied(events') : x.version = events'[i].version /\ x.kind = "repeatable"
    <3>1. CASE events'[i].version = e.version /\ e.kind = "repeatable"
      BY <2>1, <3>1
    <3>2. CASE i \in DOMAIN events /\ events'[i].version # e.version
      <4>1. PICK x \in NetApplied(events) : x.version = events[i].version /\ x.kind = "repeatable"
        BY <2>2, <2>3, <3>2 DEF RoutinesStay
      <4> QED
        BY <2>1, <2>2, <3>2, <4>1
    <3>3. CASE i \in DOMAIN events /\ events'[i].version = e.version /\ e.kind # "repeatable"
      <4>1. e.version \in Completed(events)
        BY <2>2, <2>3, <3>3 DEF RoutinesStay, Completed
      <4> QED
        BY <1>2, <3>3, <4>1
    <3>4. CASE i = Len(events) + 1
      BY <2>1, <2>2, <2>3, <3>4
    <3> QED
      BY <2>2, <3>1, <3>2, <3>3, <3>4
  <2> QED
    BY <2>3 DEF RoutinesStay
<1>3. ASSUME NEW d \in Deployers, NEW m \in todo[d], Land(d, m) PROVE RoutinesStay'
  <2>1. PICK e \in Event : Applies(e)
    BY <1>0, <1>3, LandApplies DEF PlansKept
  <2> QED
    BY <1>2, <2>1 DEF Applies
<1>4. ASSUME NEW m \in Adoptable, Completed(events) = {}, events' = Append(events, AppliedEvent(m, "baseline"))
      PROVE  RoutinesStay'
  <2>1. AppliedEvent(m, "baseline") \in Event /\ AppliedEvent(m, "baseline").event = "applied"
    BY CatalogType DEF AppliedEvent, Event, Kinds
  <2> QED
    BY <1>2, <1>4, <2>1
<1>5. ASSUME NEW o \in Operators, steps[o] # <<>>, RecordRolledBack(o) PROVE RoutinesStay'
  <2> DEFINE row == RolledBackEvent(NextStep(o))
  <2>1. /\ NextStep(o) \in Catalog /\ Journaled(NextStep(o)) /\ NextStep(o).down = "txn"
        /\ row \in Event /\ row.event = "rolled_back" /\ row.version = NextStep(o).version
        /\ events' = Append(events, row)
    BY <1>5, UnwindRow
  <2> HIDE DEF row
  <2>2. PICK f \in NetApplied(events) : f.version = row.version /\ f.checksum = NextStep(o).checksum
    BY <2>1 DEF Journaled
  <2>3. PICK a \in Catalog : /\ a.version = f.version /\ a.checksum = f.checksum
                             /\ f.kind = "repeatable" => a.down = "none"
    BY DEF RowsKnown, KnownRow
  <2>4. a = NextStep(o)
    BY <2>1, <2>2, <2>3
  <2>5. f.kind # "repeatable"
    BY <2>1, <2>3, <2>4
  <2>6. \A x \in NetApplied(events) : x.version = row.version => x = f
    BY <1>0, <2>2, NetAppliedRow
  <2>7. NetApplied(events') = {x \in NetApplied(events) : x.version # row.version}
    BY <1>0, <2>1, NetAppliedUnwind
  <2>8. /\ Len(events) \in Nat /\ DOMAIN events' = 1..(Len(events) + 1) /\ DOMAIN events = 1..Len(events)
        /\ events'[Len(events) + 1] = row /\ \A i \in 1..Len(events) : events'[i] = events[i]
    BY <1>0, <2>1, EventsAppend
  <2>9. ASSUME NEW i \in DOMAIN events', events'[i].event = "applied", events'[i].kind = "repeatable"
        PROVE  \E x \in NetApplied(events') : x.version = events'[i].version /\ x.kind = "repeatable"
    <3>1. i \in DOMAIN events /\ events'[i] = events[i]
      BY <2>1, <2>8, <2>9
    <3>2. PICK x \in NetApplied(events) : x.version = events[i].version /\ x.kind = "repeatable"
      BY <2>9, <3>1 DEF RoutinesStay
    <3> QED
      BY <2>5, <2>6, <2>7, <3>1, <3>2
  <2> QED
    BY <2>9 DEF RoutinesStay
<1> QED
  BY <1>1, <1>3, <1>4, <1>5, PlainMoves

\* What a deploy has yet to visit depends on what it has yet to visit or on what is applied;
\* nothing depends on what it has skipped.
DepsReady(d) ==
  /\ pc[d] \in {"stepping", "up", "finalize"} => \A m \in todo[d] :
       m.deps \subseteq Ids(todo[d]) \cup Completed(events)
  /\ \A v \in skipped[d] : \A n \in Catalog : v \notin n.deps

AllReady == \A d \in Deployers : DepsReady(d)

\* An unchanged routine is applied: its row is there.
LEMMA UnchangedApplied ==
  ASSUME RoutinesStay, NEW m, Unchanged(m)
  PROVE  m.version \in Completed(events)
  BY DEF Unchanged, LatestRepeatable, RoutinesStay, Completed

\* What leaves the plan is applied, or nothing depends on it.
LEMMA ReadyLeaves ==
  ASSUME NEW d \in Deployers, DepsReady(d), pc[d] \in {"stepping", "up", "finalize"},
         NEW m \in todo[d], todo'[d] = todo[d] \ {m}, todo[d] \subseteq Catalog,
         Completed(events) \subseteq Completed(events'),
         m.version \in Completed(events') \/ \A n \in Catalog : m.version \notin n.deps
  PROVE  \A n \in todo'[d] : n.deps \subseteq Ids(todo'[d]) \cup Completed(events')
<1> SUFFICES ASSUME NEW n \in todo'[d], NEW v \in n.deps
             PROVE  v \in Ids(todo'[d]) \cup Completed(events')
  OBVIOUS
<1>1. n \in Catalog /\ v \in Ids(todo[d]) \cup Completed(events)
  BY DEF DepsReady
<1>2. ASSUME v \in Ids(todo[d]), v # m.version PROVE v \in Ids(todo'[d])
  BY <1>2 DEF Ids
<1> QED
  BY <1>1, <1>2

\* What a precondition skips is a leaf, and no dependency of anything was skipped.
LEMMA SkippedLeaf ==
  ASSUME SkipsAreLeaves, Typed, NEW d \in Deployers, DepsReady(d), NEW m \in todo[d], Skip(d, m)
  PROVE  \A n \in Catalog : m.version \notin n.deps
<1>1. m \in Catalog
  BY DEF Typed
<1>2. m.deps \cap skipped[d] = {}
  BY <1>1 DEF DepsReady
<1>3. "skip" \in m.verdicts
  BY <1>2 DEF Skip, Skippable, DependencySkipped
<1> QED
  BY <1>1, <1>3 DEF SkipsAreLeaves

LEMMA ReadyPlans ==
  ASSUME SquashFree, Typed, RowsKnown, NEW d \in Deployers, DepsReady(d), Plan(d) \/ PlanRepeatables(d)
  PROVE  DepsReady(d)'
<1>0. Superseded(events, edges) = {}
  BY NoneSuperseded
<1>1. CASE Plan(d)
  <2> DEFINE ms == Versioned(supplied[d])
  <2>1. /\ todo'[d] = Pending(ms) /\ UNCHANGED <<events, skipped>> /\ ms \subseteq Catalog
        /\ ~Unorderable(Pending(ms), Completed(events) \cup Covered(ms))
    BY <1>1 DEF Plan, Typed, journal, Versioned, Refused
  <2>2. Covered(ms) = {}
    BY <1>0, <2>1 DEF Covered, SquashFree
  <2>3. \A m \in Pending(ms) : m.deps \subseteq Ids(Pending(ms)) \cup Completed(events)
    BY <2>1, <2>2 DEF Unorderable
  <2> QED
    BY <2>1, <2>3 DEF DepsReady
<1>2. CASE PlanRepeatables(d)
  <2> DEFINE reps == Repeatables(supplied[d])
  <2>1. /\ todo'[d] = reps /\ UNCHANGED <<events, skipped>>
        /\ ~Unorderable(reps, Completed(events) \cup Superseded(events, edges))
    BY <1>2 DEF PlanRepeatables, Typed, journal, RepeatablesRefused
  <2>2. \A m \in reps : m.deps \subseteq Ids(reps) \cup Completed(events)
    BY <1>0, <2>1 DEF Unorderable
  <2> QED
    BY <2>1, <2>2 DEF DepsReady
<1> QED
  BY <1>1, <1>2

LEMMA ReadyMoves ==
  ASSUME PlainCatalog, Typed, RowsKnown, RoutinesStay, NEW d \in Deployers, PlanKept(d), DepsReady(d),
         DeployerStep(d)
  PROVE  DepsReady(d)'
<1>0. todo[d] \subseteq Catalog /\ SquashFree /\ SkipsAreLeaves
  BY DEF Typed, PlainCatalog
<1>1. ASSUME pc'[d] \in {"idle", "waiting", "planning", "ok", "failed"},
             UNCHANGED skipped[d] \/ skipped'[d] = {}
      PROVE  DepsReady(d)'
  BY <1>1 DEF DepsReady
<1>2. ASSUME UNCHANGED <<events, todo, skipped>>, pc[d] \in {"stepping", "up", "finalize"}
      PROVE  DepsReady(d)'
  BY <1>2 DEF DepsReady
<1>3. CASE AcquireLock(d) \/ Finish(d) \/ \E ms \in Manifests, grant \in Grants : Submit(d, ms, grant)
  BY <1>1, <1>3 DEF AcquireLock, Submit, Finish, Goto, Typed, local
<1>4. CASE Plan(d) \/ PlanRepeatables(d)
  BY <1>0, <1>4, ReadyPlans
<1>5. ASSUME \/ LocalsReset(d) /\ pc'[d] = "idle"
             \/ LocalsKept(d) /\ pc'[d] = "failed"
      PROVE  DepsReady(d)'
  BY <1>1, <1>5 DEF LocalsReset, LocalsKept, LocalsOf
<1>6. ASSUME NEW m \in todo[d], Begin(d, m) \/ Arm(d, m) \/ RunUp(d, m) PROVE DepsReady(d)'
  BY <1>2, <1>6 DEF Begin, Arm, RunUp, Goto, journal, local
<1>7. ASSUME NEW m \in todo[d], Skip(d, m) PROVE DepsReady(d)'
  <2>1. /\ pc[d] = "stepping" /\ todo'[d] = todo[d] \ {m} /\ skipped'[d] = skipped[d] \cup {m.version}
        /\ UNCHANGED events
    BY <1>7 DEF Skip, Typed, journal
  <2>2. \A n \in Catalog : m.version \notin n.deps
    BY <1>0, <1>7, SkippedLeaf
  <2>3. \A n \in todo'[d] : n.deps \subseteq Ids(todo'[d]) \cup Completed(events')
    BY <1>0, <2>1, <2>2, ReadyLeaves
  <2>4. \A v \in skipped'[d] : \A n \in Catalog : v \notin n.deps
    BY <2>1, <2>2 DEF DepsReady
  <2> QED
    BY <2>3, <2>4 DEF DepsReady
<1>8. ASSUME NEW m \in todo[d], SkipRepeatable(d, m) PROVE DepsReady(d)'
  <2>1. /\ pc[d] = "stepping" /\ todo'[d] = todo[d] \ {m} /\ UNCHANGED <<events, skipped>>
        /\ Unchanged(m) \/ "skip" \in m.verdicts
    BY <1>8 DEF SkipRepeatable, Typed, journal
  <2>2. m.version \in Completed(events') \/ \A n \in Catalog : m.version \notin n.deps
    BY <1>0, <2>1, UnchangedApplied DEF SkipsAreLeaves
  <2>3. \A n \in todo'[d] : n.deps \subseteq Ids(todo'[d]) \cup Completed(events')
    BY <1>0, <2>1, <2>2, ReadyLeaves
  <2> QED
    BY <2>1, <2>3 DEF DepsReady
<1>9. ASSUME NEW m \in todo[d], LandSatisfied(d, m) \/ CommitUp(d, m) \/ Finalize(d, m) PROVE DepsReady(d)'
  <2>1. /\ pc[d] \in {"stepping", "up", "finalize"} /\ Land(d, m)
    BY <1>9 DEF LandSatisfied, CommitUp, Finalize, Goto, Admitted
  <2>2. todo'[d] = todo[d] \ {m} /\ UNCHANGED skipped
    BY <2>1 DEF Land, Typed
  <2>3. Completed(events') = Completed(events) \cup {m.version}
    BY <2>1, LandCompletes
  <2>4. \A n \in todo'[d] : n.deps \subseteq Ids(todo'[d]) \cup Completed(events')
    BY <1>0, <2>1, <2>2, <2>3, ReadyLeaves
  <2> QED
    BY <2>2, <2>4 DEF DepsReady
<1> QED
  BY <1>3, <1>4, <1>5, <1>6, <1>7, <1>8, <1>9, DeployerMoves DEF Writes

LEMMA AllReadyStep ==
  /\ PlainCatalog /\ OpsTyped /\ Locked /\ PlansKept /\ RowsKnown /\ RoutinesStay /\ AllReady
  /\ [OperationsNext]_allVars
  => AllReady'
<1> SUFFICES ASSUME PlainCatalog, OpsTyped, Locked, PlansKept, RowsKnown, RoutinesStay, AllReady,
                    [OperationsNext]_allVars, NEW d \in Deployers
             PROVE  DepsReady(d)'
  BY DEF AllReady
<1>1. Typed /\ PlanKept(d) /\ DepsReady(d)
  BY DEF OpsTyped, RollbackTypeOK, PlansKept, AllReady
<1>2. CASE DeployerStep(d)
  BY <1>1, <1>2, ReadyMoves
<1>3. CASE UNCHANGED DeployOf(d) /\ (pc[d] \in Holding => UNCHANGED database)
  BY <1>1, <1>3 DEF DepsReady, DeployOf, Holding, database, journal
<1> QED
  BY <1>2, <1>3, DeployerFrame

\* What is applied, in the body that was journaled, has what it depends on, and was applied
\* after it.
BuiltOnApplied == \A m \in Catalog : Journaled(m) => m.deps \subseteq Completed(events)

DepsBefore ==
  \A i, j \in DOMAIN events, m \in Catalog :
    /\ IsLast(i) /\ events[i].event = "applied" /\ events[i].kind # "repeatable"
    /\ IsLast(j) /\ events[j].event = "applied"
    /\ events[j].version = m.version /\ events[j].checksum = m.checksum
    /\ events[i].version \in m.deps
    => i < j

\* Whatever depends on a step of a rollback is unwound before it.
Unneeded(o) ==
  \A i \in DOMAIN steps[o] : \A m \in Catalog :
    Journaled(m) /\ steps[o][i].version \in m.deps =>
      \E j \in 1..(i - 1) : steps[o][j].version = m.version

StepsUnneeded == \A o \in Operators : Unneeded(o)

\* What a deployer is at has what it depends on.
LEMMA FirstReady ==
  ASSUME NEW d \in Deployers, DepsReady(d), pc[d] \in {"stepping", "up", "finalize"},
         NEW m \in todo[d], First(m, todo[d])
  PROVE  m.deps \subseteq Completed(events) /\ m.version \notin m.deps
<1>1. m.deps \cap Ids(todo[d]) = {} /\ m.version \in Ids(todo[d])
  BY DEF First, Ready, Ids
<1>2. m.deps \subseteq Ids(todo[d]) \cup Completed(events)
  BY DEF DepsReady
<1> QED
  BY <1>1, <1>2

\* A row of what has its dependencies, and was pending unless it is a routine's.
LEMMA BuiltRow ==
  ASSUME Typed, Typed', BuiltOnApplied, DepsBefore, NEW m \in Catalog, NEW k \in Kinds,
         events' = Append(events, AppliedEvent(m, k)),
         m.deps \subseteq Completed(events), m.version \notin m.deps,
         k = "repeatable" \/ m.version \notin Completed(events)
  PROVE  BuiltOnApplied' /\ DepsBefore'
<1> DEFINE row == AppliedEvent(m, k)
<1>1. /\ row \in Event /\ row.event = "applied" /\ row.version = m.version /\ row.checksum = m.checksum
      /\ row.kind = k /\ events' = Append(events, row) /\ events \in Seq(Event)
  BY CatalogType DEF AppliedEvent, Event, Typed
<1>2. \A n \in Catalog : n.version = m.version /\ Journaled(n)' => n = m
  BY OwnRow
<1> HIDE DEF row
<1>3. /\ NetApplied(events') = {x \in NetApplied(events) : x.version # row.version} \cup {row}
      /\ Completed(events') = Completed(events) \cup {m.version}
  BY <1>1, NetAppliedAppend, CompletedAppend
<1>4. /\ Len(events) \in Nat /\ DOMAIN events' = 1..(Len(events) + 1) /\ DOMAIN events = 1..Len(events)
      /\ events'[Len(events) + 1] = row /\ \A i \in DOMAIN events : events'[i] = events[i]
  BY <1>1, EventsAppend
<1>5. ASSUME NEW n \in Catalog, Journaled(n)' PROVE n.deps \subseteq Completed(events')
  <2>1. CASE n.version = m.version
    BY <1>2, <1>3, <1>5, <2>1
  <2>2. CASE n.version # m.version
    <3>1. Journaled(n)
      BY <1>1, <1>3, <1>5, <2>2 DEF Journaled
    <3> QED
      BY <1>3, <3>1 DEF BuiltOnApplied
  <2> QED
    BY <2>1, <2>2
<1>6. ASSUME NEW i \in DOMAIN events', NEW j \in DOMAIN events', NEW n \in Catalog,
             IsLast(i)', events'[i].event = "applied", events'[i].kind # "repeatable",
             IsLast(j)', events'[j].event = "applied",
             events'[j].version = n.version, events'[j].checksum = n.checksum,
             events'[i].version \in n.deps
      PROVE  i < j
  <2>1. \A x \in DOMAIN events : IsLast(x)' => IsLast(x)
    BY <1>4 DEF IsLast
  <2>2. CASE i \in DOMAIN events /\ j \in DOMAIN events
    BY <1>4, <1>6, <2>1, <2>2 DEF DepsBefore
  <2>3. CASE i \in DOMAIN events /\ j = Len(events) + 1
    BY <1>4, <2>3
  <2>4. CASE i = Len(events) + 1 /\ j \in DOMAIN events
    <3>1. events[j] \in NetApplied(events)
      BY <1>4, <1>6, <2>1, <2>4, LastRow
    <3>2. Journaled(n)
      BY <1>4, <1>6, <2>4, <3>1 DEF Journaled
    <3>3. m.version \in Completed(events) /\ k # "repeatable"
      BY <1>1, <1>4, <1>6, <2>4, <3>2 DEF BuiltOnApplied
    <3> QED
      BY <3>3
  <2>5. CASE i = Len(events) + 1 /\ j = Len(events) + 1
    <3>1. n = m
      BY <1>1, <1>4, <1>6, <2>5
    <3> QED
      BY <1>1, <1>4, <1>6, <2>5, <3>1
  <2> QED
    BY <1>4, <2>2, <2>3, <2>4, <2>5
<1>7. BuiltOnApplied'
  BY <1>5 DEF BuiltOnApplied
<1>8. DepsBefore'
  BY <1>6 DEF DepsBefore
<1> QED
  BY <1>7, <1>8

\* What a rollback records as undone, nothing applied depends on.
LEMMA BuiltUnwind ==
  ASSUME OpsTyped, UnwindsKept, BuiltOnApplied, DepsBefore, StepsUnneeded,
         NEW o \in Operators, steps[o] # <<>>, RecordRolledBack(o)
  PROVE  BuiltOnApplied' /\ DepsBefore'
<1> DEFINE row == RolledBackEvent(NextStep(o))
<1>1. /\ row \in Event /\ row.event = "rolled_back" /\ row.version = NextStep(o).version
      /\ events' = Append(events, row) /\ events \in Seq(Event)
  BY UnwindRow DEF OpsTyped, RollbackTypeOK, Typed
<1>2. NextStep(o) = steps[o][1] /\ 1 \in DOMAIN steps[o]
  BY NextStepType DEF OpsTyped
<1> HIDE DEF row
<1>3. /\ NetApplied(events') = {x \in NetApplied(events) : x.version # row.version}
      /\ Completed(events') = Completed(events) \ {row.version}
  BY <1>1, NetAppliedUnwind, CompletedUnwind
<1>4. /\ Len(events) \in Nat /\ DOMAIN events' = 1..(Len(events) + 1) /\ DOMAIN events = 1..Len(events)
      /\ events'[Len(events) + 1] = row /\ \A i \in DOMAIN events : events'[i] = events[i]
  BY <1>1, EventsAppend
<1>5. ASSUME NEW n \in Catalog, Journaled(n)' PROVE n.deps \subseteq Completed(events')
  <2>1. Journaled(n)
    BY <1>3, <1>5 DEF Journaled
  <2>2. row.version \notin n.deps
    <3>1. 1..(1 - 1) = {}
      OBVIOUS
    <3> QED
      BY <1>1, <1>2, <2>1, <3>1 DEF StepsUnneeded, Unneeded
  <2> QED
    BY <1>3, <2>1, <2>2 DEF BuiltOnApplied
<1>6. ASSUME NEW i \in DOMAIN events', NEW j \in DOMAIN events', NEW n \in Catalog,
             IsLast(i)', events'[i].event = "applied", events'[i].kind # "repeatable",
             IsLast(j)', events'[j].event = "applied",
             events'[j].version = n.version, events'[j].checksum = n.checksum,
             events'[i].version \in n.deps
      PROVE  i < j
  <2>1. \A x \in DOMAIN events : IsLast(x)' => IsLast(x)
    BY <1>4 DEF IsLast
  <2>2. i \in DOMAIN events /\ j \in DOMAIN events
    BY <1>1, <1>4, <1>6
  <2> QED
    BY <1>4, <1>6, <2>1, <2>2 DEF DepsBefore
<1>7. BuiltOnApplied'
  BY <1>5 DEF BuiltOnApplied
<1>8. DepsBefore'
  BY <1>6 DEF DepsBefore
<1> QED
  BY <1>7, <1>8

LEMMA BuiltStep ==
  /\ Backend # "mysql" /\ PlainCatalog /\ OpsTyped /\ OpsTyped' /\ PlansKept /\ UnwindsKept /\ AllReady
  /\ BuiltOnApplied /\ DepsBefore /\ StepsUnneeded /\ [OperationsNext]_allVars
  => BuiltOnApplied' /\ DepsBefore'
<1> SUFFICES ASSUME Backend # "mysql", PlainCatalog, OpsTyped, OpsTyped', PlansKept, UnwindsKept, AllReady,
                    BuiltOnApplied, DepsBefore, StepsUnneeded, [OperationsNext]_allVars
             PROVE  BuiltOnApplied' /\ DepsBefore'
  OBVIOUS
<1>0. Typed /\ Typed' /\ SquashFree /\ BaselinesFirst
  BY DEF OpsTyped, RollbackTypeOK, PlainCatalog
<1>1. CASE UNCHANGED events
  BY <1>1 DEF BuiltOnApplied, DepsBefore, Journaled, IsLast
<1>2. ASSUME NEW d \in Deployers, NEW m \in todo[d], Land(d, m), First(m, todo[d]),
             pc[d] \in {"stepping", "up", "finalize"}
      PROVE  BuiltOnApplied' /\ DepsBefore'
  <2>1. m \in Catalog /\ KindOf(m) \in Kinds /\ PlanKept(d) /\ DepsReady(d)
    BY <1>0, CatalogType DEF Typed, PlansKept, AllReady
  <2>2. m.deps \subseteq Completed(events) /\ m.version \notin m.deps
    BY <1>2, <2>1, FirstReady
  <2>3. KindOf(m) = "repeatable" \/ m.version \notin Completed(events)
    BY <1>0, <2>1 DEF PlanKept, KindOf, Typed
  <2>4. events' = Append(events, AppliedEvent(m, KindOf(m)))
    BY <1>2 DEF Land
  <2> QED
    BY <1>0, <2>1, <2>2, <2>3, <2>4, BuiltRow
<1>3. ASSUME NEW m \in Adoptable, Completed(events) = {}, events' = Append(events, AppliedEvent(m, "baseline"))
      PROVE  BuiltOnApplied' /\ DepsBefore'
  <2>1. m \in Catalog /\ m.deps = {} /\ "baseline" \in Kinds
    BY <1>0 DEF BaselinesFirst, Kinds
  <2> QED
    BY <1>0, <1>3, <2>1, BuiltRow
<1>4. ASSUME NEW o \in Operators, steps[o] # <<>>, RecordRolledBack(o) PROVE BuiltOnApplied' /\ DepsBefore'
  BY <1>4, BuiltUnwind
<1> QED
  BY <1>0, <1>1, <1>2, <1>3, <1>4, PlainMoves

\* The order of a rollback takes in all that it unwinds, and nothing before its dependents.
LEMMA ReversedOrder ==
  ASSUME NEW r, r.supplied \subseteq Catalog, NEW s \in ReverseOrders(r),
         NEW i \in DOMAIN s, NEW m \in Unwound(r), s[i].version \in m.deps
  PROVE  \E j \in 1..(i - 1) : s[j] = m
<1> DEFINE ms == Unwound(r)
           c == Cardinality(ms)
<1>1. IsFiniteSet(ms) /\ c \in Nat
  BY FS_Subset, FS_CardinalityType DEF Unwound, Chosen
<1>2. PICK t \in SetToSeqs(ms) : s = Reverse(t) /\ RunOrder(t)
  BY DEF ReverseOrders
<1>3. t \in [1..c -> ms] /\ \A a, b \in 1..c : a # b => t[a] # t[b]
  BY <1>2 DEF SetToSeqs
<1>4. Len(t) = c /\ DOMAIN t = 1..c
  BY <1>1, <1>3
<1>5. s = [k \in 1..c |-> t[(c - k) + 1]]
  BY <1>2, <1>4 DEF Reverse
<1>6. PICK a \in 1..c : t[a] = m
  <2>1. t \in Injection(1..c, ms)
    BY <1>3 DEF Injection, IsInjective
  <2>2. IsFiniteSet(1..c) /\ Cardinality(1..c) = c
    BY <1>1, FS_Interval
  <2>3. t \in Surjection(1..c, ms)
    BY <1>1, <2>1, <2>2, FS_Injection
  <2> QED
    BY <2>3 DEF Surjection
<1> HIDE DEF c, ms
<1>7. i \in 1..c /\ (c - i) + 1 \in 1..c /\ s[i] = t[(c - i) + 1]
  BY <1>1, <1>5
<1>8. t[a] \in Ready({t[b] : b \in a..Len(t)})
  BY <1>2, <1>4, <1>6 DEF RunOrder, First
<1>9. \A b \in a..c : t[b].version \notin m.deps
  BY <1>4, <1>6, <1>8 DEF Ready, Ids
<1>10. (c - i) + 1 < a
  BY <1>1, <1>6, <1>7, <1>9
<1>11. (c - a) + 1 \in 1..(i - 1) /\ s[(c - a) + 1] = t[a]
  <2>1. (c - a) + 1 \in 1..(i - 1) /\ (c - a) + 1 \in 1..c /\ (c - ((c - a) + 1)) + 1 = a
    BY <1>1, <1>6, <1>7, <1>10
  <2> QED
    BY <1>5, <2>1
<1> QED
  BY <1>6, <1>11

\* What is planned to be unwound is unwound after all that depends on it: what was applied
\* after it has been selected with it, and what is kept refuses the plan.
LEMMA UnneededPlans ==
  ASSUME Typed, RowsKnown, DepsBefore, NEW r, r.supplied \subseteq Catalog,
         r.target[1] = "steps" => r.target[2] \in Nat, ~RollbackRefused(r),
         NEW x \in Unwound(r), NEW m \in Catalog, Journaled(m), x.version \in m.deps
  PROVE  m \in Unwound(r)
<1>1. x \in Chosen(r) /\ x \in Catalog /\ x.down # "none" /\ x.version \in Selected(r.target)
  BY DEF Unwound, Chosen
<1>2. /\ Selected(r.target) \subseteq Ids(r.supplied) /\ ~ChecksumDrift(r) /\ ~KeptDependsOnRolledBack(r)
      /\ Selected(r.target) \subseteq Completed(events)
  BY DEF RollbackRefused, Selected, AppliedAfter
<1>3. PICK e \in NetApplied(events) : e.version = x.version
  BY <1>1, <1>2 DEF Completed
<1>4. PICK f \in NetApplied(events) : f.version = m.version /\ f.checksum = m.checksum
  BY DEF Journaled
<1>5. e.kind # "repeatable"
  <2>1. e.checksum = x.checksum
    BY <1>1, <1>2, <1>3 DEF ChecksumDrift
  <2>2. PICK a \in Catalog : /\ a.version = e.version /\ a.checksum = e.checksum
                             /\ e.kind = "repeatable" => a.down = "none"
    BY DEF RowsKnown, KnownRow
  <2>3. a = x
    BY <1>1, <1>3, <2>1, <2>2
  <2> QED
    BY <1>1, <2>2, <2>3
<1>6. PICK i \in DOMAIN events : IsLast(i) /\ events[i] = e /\ e.event = "applied"
  BY RowPosition
<1>7. PICK j \in DOMAIN events : IsLast(j) /\ events[j] = f /\ f.event = "applied"
  BY RowPosition
<1>8. i < j
  BY <1>3, <1>4, <1>5, <1>6, <1>7 DEF DepsBefore
<1>9. LastOf(x.version) = i /\ LastOf(m.version) = j /\ i \in Nat /\ j \in Nat
  BY <1>3, <1>4, <1>6, <1>7, LastOfRow DEF Typed
<1>10. m.version \in Completed(events)
  BY <1>4 DEF Completed
<1>11. m.version \in Selected(r.target)
  BY <1>1, <1>8, <1>9, <1>10, SelectedAfter
<1>12. PICK q \in r.supplied : q.version = m.version
  BY <1>2, <1>11 DEF Ids
<1>13. \A u \in Chosen(r) : u.version = m.version => u = m
  <2> SUFFICES ASSUME NEW u \in Chosen(r), u.version = m.version PROVE u = m
    OBVIOUS
  <2>1. u.checksum = f.checksum /\ u \in Catalog
    BY <1>2, <1>4 DEF ChecksumDrift, Chosen
  <2> QED
    BY <1>4, <2>1
<1>14. q \in Chosen(r) /\ q = m
  BY <1>11, <1>12, <1>13 DEF Chosen
<1>15. ASSUME m \notin Unwound(r) PROVE FALSE
  <2>1. m.version \notin Ids(Unwound(r))
    BY <1>13, <1>15 DEF Ids, Unwound
  <2>2. x.version \in Ids(Unwound(r))
    BY DEF Ids
  <2> QED
    BY <1>2, <1>10, <1>12, <1>14, <2>1, <2>2 DEF KeptDependsOnRolledBack
<1> QED
  BY <1>15

\* A step that is recorded leaves the others in their order.
LEMMA UnneededRecords ==
  ASSUME OpsTyped, UnwindsKept, NEW o \in Operators, Unneeded(o), steps[o] # <<>>, RecordRolledBack(o)
  PROVE  Unneeded(o)'
<1> DEFINE s == steps[o]
           row == RolledBackEvent(NextStep(o))
<1>1. /\ row \in Event /\ row.event = "rolled_back" /\ row.version = NextStep(o).version
      /\ events' = Append(events, row) /\ events \in Seq(Event) /\ steps'[o] = Tail(s)
  BY UnwindRow DEF OpsTyped, RollbackTypeOK, Typed
<1>2. NextStep(o) = s[1]
  BY NextStepType DEF OpsTyped
<1> HIDE DEF row
<1>3. NetApplied(events') = {x \in NetApplied(events) : x.version # row.version}
  BY <1>1, NetAppliedUnwind
<1>4. /\ s \in Seq(Catalog) /\ Len(s) \in Nat /\ Len(s) > 0 /\ DOMAIN s = 1..Len(s)
      /\ DOMAIN Tail(s) = 1..(Len(s) - 1) /\ \A i \in DOMAIN Tail(s) : Tail(s)[i] = s[i + 1]
  BY DEF OpsTyped, RollbackTypeOK
<1>5. ASSUME NEW i \in DOMAIN Tail(s), NEW m \in Catalog, Journaled(m)', Tail(s)[i].version \in m.deps
      PROVE  \E j \in 1..(i - 1) : Tail(s)[j].version = m.version
  <2>1. Journaled(m) /\ m.version # s[1].version
    BY <1>1, <1>2, <1>3, <1>5 DEF Journaled
  <2>2. i \in Nat /\ i + 1 \in DOMAIN s /\ Tail(s)[i] = s[i + 1] /\ i <= Len(s) - 1 /\ (i + 1) - 1 = i
    BY <1>4
  <2>3. PICK j \in 1..((i + 1) - 1) : s[j].version = m.version
    BY <1>5, <2>1, <2>2 DEF Unneeded
  <2>4. j - 1 \in 1..(i - 1) /\ j - 1 \in DOMAIN Tail(s) /\ (j - 1) + 1 = j
    BY <1>4, <2>1, <2>2, <2>3
  <2>5. Tail(s)[j - 1] = s[j]
    BY <1>4, <2>4
  <2> QED
    BY <2>3, <2>4, <2>5
<1> QED
  BY <1>1, <1>5 DEF Unneeded

LEMMA UnneededMoves ==
  ASSUME OpsTyped, UnwindsKept, RowsKnown, DepsBefore, NEW o \in Operators, Unneeded(o), RollbackStep(o)
  PROVE  Unneeded(o)'
<1>0. Typed
  BY DEF OpsTyped, RollbackTypeOK
<1>1. ASSUME steps'[o] = <<>> PROVE Unneeded(o)'
  BY <1>1 DEF Unneeded
<1>2. ASSUME UNCHANGED <<steps, events>> PROVE Unneeded(o)'
  BY <1>2 DEF Unneeded, Journaled
<1>3. CASE LockRollback(o) \/ MarkDown(o) \/ RunDown(o) \/ \E r \in Requests : AskRollback(o, r)
  BY <1>2, <1>3 DEF LockRollback, MarkDown, RunDown, AskRollback, journal, vars
<1>4. CASE RefuseRollback(o) \/ RefuseHalfReverted(o) \/ FinishRollback(o) \/ StopRollback(o)
  BY <1>1, <1>4, UnwindEnds DEF RefuseRollback, RefuseHalfReverted, FinishRollback, StopRollback
<1>5. CASE PlanRollback(o)
  <2>1. /\ ~RollbackRefused(request[o]) /\ UNCHANGED events
        /\ request[o] \in Requests \cup {NoRequest}
    BY <1>5 DEF PlanRollback, vars, journal, OpsTyped, RollbackTypeOK
  <2>2. /\ request[o].supplied \subseteq Catalog
        /\ request[o].target[1] = "steps" => request[o].target[2] \in Nat
    BY <2>1 DEF NoRequest
  <2>3. PICK s \in ReverseOrders(request[o]) : steps' = [steps EXCEPT ![o] = s]
    BY <1>5 DEF PlanRollback
  <2>4. steps'[o] = s /\ s \in Seq(Unwound(request[o]))
    BY <2>2, <2>3, ReverseOrdersType DEF OpsTyped, RollbackTypeOK
  <2>5. ASSUME NEW i \in DOMAIN s, NEW m \in Catalog, Journaled(m), s[i].version \in m.deps
        PROVE  \E j \in 1..(i - 1) : s[j].version = m.version
    <3>1. s[i] \in Unwound(request[o])
      BY <2>4
    <3>2. m \in Unwound(request[o])
      BY <1>0, <2>1, <2>2, <2>5, <3>1, UnneededPlans
    <3> QED
      BY <2>2, <2>3, <2>5, <3>2, ReversedOrder
  <2> QED
    BY <2>1, <2>4, <2>5 DEF Unneeded, Journaled
<1>6. CASE RollbackOne(o) \/ FinalizeDown(o)
  <2>1. RecordRolledBack(o) /\ steps[o] # <<>>
    BY <1>6 DEF RollbackOne, FinalizeDown, Move, UnwindsKept, UnwindKept
  <2> QED
    BY <2>1, UnneededRecords
<1> QED
  BY <1>3, <1>4, <1>5, <1>6 DEF RollbackStep, AdvanceRollback

LEMMA UnneededStep ==
  /\ OpsTyped /\ Locked /\ UnwindsKept /\ RowsKnown /\ DepsBefore /\ StepsUnneeded
  /\ [OperationsNext]_allVars
  => StepsUnneeded'
<1> SUFFICES ASSUME OpsTyped, Locked, UnwindsKept, RowsKnown, DepsBefore, StepsUnneeded,
                    [OperationsNext]_allVars, NEW o \in Operators
             PROVE  Unneeded(o)'
  BY DEF StepsUnneeded
<1>1. UnwindKept(o) /\ Unneeded(o)
  BY DEF UnwindsKept, StepsUnneeded
<1>2. CASE RollbackStep(o)
  BY <1>1, <1>2, UnneededMoves
<1>3. CASE UNCHANGED RollbackOf(o) /\ (opc[o] \in RollbackHolding => UNCHANGED database)
  <2>1. UNCHANGED steps[o]
    BY <1>3 DEF RollbackOf
  <2>2. CASE opc[o] \in RollbackHolding
    BY <1>1, <1>3, <2>1, <2>2 DEF Unneeded, Journaled, database, journal
  <2>3. CASE opc[o] \notin RollbackHolding
    <3>1. steps[o] = <<>>
      BY <1>1, <2>3 DEF UnwindKept, OpsTyped, RollbackTypeOK
    <3> QED
      BY <2>1, <3>1 DEF Unneeded
  <2> QED
    BY <2>2, <2>3
<1> QED
  BY <1>2, <1>3, RollbackFrame

\* What deploys run, what is applied and what rollbacks unwind, together.
Supported == RoutinesStay /\ AllReady /\ BuiltOnApplied /\ DepsBefore /\ StepsUnneeded

LEMMA SupportedAlways ==
  Backend # "mysql" /\ PlainCatalog /\ OperationsSpec => []Supported
<1>. SUFFICES ASSUME Backend # "mysql", PlainCatalog PROVE OperationsSpec => []Supported
  OBVIOUS
<1>0. SquashFree /\ TidyCatalog
  BY PlainIsTidy DEF PlainCatalog
<1>1. RollbackInit => Supported
  <2> SUFFICES ASSUME RollbackInit PROVE Supported
    OBVIOUS
  <2>1. Completed(events) = {} /\ DOMAIN events = {}
    BY CompletedEmpty DEF RollbackInit, Init
  <2>2. RoutinesStay /\ DepsBefore
    BY <2>1 DEF RoutinesStay, DepsBefore
  <2>3. BuiltOnApplied
    BY <2>1 DEF BuiltOnApplied, Journaled, Completed
  <2>4. AllReady
    BY DEF RollbackInit, Init, AllReady, DepsReady
  <2>5. StepsUnneeded
    BY DEF RollbackInit, StepsUnneeded, Unneeded
  <2> QED
    BY <2>2, <2>3, <2>4, <2>5 DEF Supported
<1>2. /\ OpsTyped /\ OpsTyped' /\ Locked /\ PlansKept /\ UnwindsKept /\ Sound /\ Supported
      /\ [OperationsNext]_allVars
      => Supported'
  BY <1>0, RoutinesStayStep, AllReadyStep, BuiltStep, UnneededStep DEF Supported, Sound
<1> QED
  BY <1>0, <1>1, <1>2, OpsTypeInvariant, LockedInvariant, PlansInvariant, UnwindsInvariant, SoundAlways, PTL
     DEF OperationsSpec

\* Without squashes, off MySQL and where nothing depends on what a precondition may skip, no
\* deploy, rollback, crash or baseline leaves something applied without what it depends on
\* (gate 6 of plan_rollback and its reverse order, the order of apply_locked).
THEOREM NothingIsLeftDangling ==
  Backend # "mysql" /\ PlainCatalog /\ OperationsSpec => []NothingDangles
<1>1. Supported => NothingDangles
  BY DEF Supported, BuiltOnApplied, NothingDangles, Journaled
<1> QED
  BY <1>1, SupportedAlways, PTL

\* Nor does any `up` run before what it depends on is there: what rollbacks took away since is
\* built again first (Kahn's order over what the journal, not the plan, has as applied).
THEOREM DependenciesComeFirst ==
  Backend # "mysql" /\ PlainCatalog /\ OperationsSpec => DependenciesBuilt
<1>. SUFFICES ASSUME Backend # "mysql", PlainCatalog PROVE OperationsSpec => DependenciesBuilt
  OBVIOUS
<1>0. SquashFree /\ TidyCatalog /\ SquashesStay
  BY PlainIsTidy DEF PlainCatalog
<1>1. ASSUME OpsTyped, Sound, BodiesTrue, Supported,
             NEW d \in Deployers, NEW m \in todo[d], UpStep(d, m),
             NEW n \in Catalog, n.version \in m.deps, NEW o \in Objects(n)
      PROVE  schema[o] \in Checksums
  <2>1. m.deps \subseteq Completed(events)
    BY <1>1, FirstReady DEF UpStep, Supported, AllReady
  <2>2. PICK e \in NetApplied(events) : e.version = n.version
    BY <1>1, <2>1 DEF Completed
  <2>3. PICK a \in Catalog : a.version = e.version /\ a.checksum = e.checksum
    BY <1>1 DEF Sound, RowsKnown, KnownRow
  <2>4. Journaled(a) /\ a.supersedes = {} /\ o \in Objects(a)
    BY <1>0, <1>1, <2>2, <2>3 DEF Journaled, SquashFree, Objects
  <2>5. schema[o] = a.checksum
    BY <1>1, <2>4 DEF BodiesTrue, Body
  <2> QED
    BY <2>5, CatalogType
<1>2. OpsTyped /\ Sound /\ BodiesTrue /\ Supported =>
        [\A d \in Deployers : \A m \in todo[d] : UpStep(d, m) =>
           \A n \in Catalog : n.version \in m.deps =>
             \A o \in Objects(n) : schema[o] \in Checksums]_vars
  BY <1>1
<1> QED
  BY <1>0, <1>2, SupportedAlways, OpsTypeInvariant, SoundAlways, BodiesAlways, PTL DEF DependenciesBuilt
=============================================================================
