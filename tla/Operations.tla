----------------------------- MODULE Operations -----------------------------
(***************************************************************************)
(* What an operator does to a managed database beside deploying and        *)
(* rolling back: squash() records a squash over history that has already   *)
(* run, recover_inflight_ddl or a DELETE settles the marker of an          *)
(* interrupted `up`, a DELETE settles the marker of an interrupted `down`, *)
(* and baseline() adopts a schema that was made elsewhere.                 *)
(*                                                                         *)
(* squash(), baseline() and recover_inflight_ddl hold the project lock     *)
(* around one journal transaction, so each is one step that finds the lock *)
(* free.  The DELETEs are typed by hand, as the documentation has it when  *)
(* nothing else runs; the hands that restore, finish or make a shape first *)
(* are part of the step.                                                   *)
(***************************************************************************)
EXTENDS Rollback

CONSTANTS
  Repairs,   \* what is done about a half-reverted version: subset of {"undo", "finish"}
  Adoptable  \* the migrations that may describe a schema made elsewhere

ASSUME RepairsAssumption == Repairs \subseteq {"undo", "finish"}
ASSUME AdoptableAssumption == Adoptable \subseteq Catalog

-----------------------------------------------------------------------------
\* The squash is journaled with its edges, its `up` is not run (PostgreSQL only).
RecordSquash(m) ==
  /\ Backend = "postgres"
  /\ m.supersedes # {} /\ m.clean
  /\ lock = NoOwner
  /\ m.version \notin Completed(events) /\ m.supersedes \subseteq Completed(events)
  /\ events' = Append(events, AppliedEvent(m, "squash"))
  /\ edges' = edges \cup {<<m.version, v>> : v \in m.supersedes}
  /\ UNCHANGED <<inflight, rbInflight, schema, lock, crashes, pc, local>>

\* The schema that m describes has been made by hand; m is journaled and its `up` is not
\* run. MySQL has no baseline.
Baseline(m) ==
  /\ Backend # "mysql"
  /\ Len(events) < MaxEvents
  /\ m \in Adoptable /\ m.clean
  /\ lock = NoOwner
  /\ Completed(events) = {}
  /\ schema' = [v \in Versions |-> IF v \in Objects(m) THEN m.checksum ELSE schema[v]]
  /\ events' = Append(events, AppliedEvent(m, "baseline"))
  /\ UNCHANGED <<inflight, rbInflight, edges, lock, crashes, pc, local>>

Restored(m) ==
  [v \in Versions |-> IF v \in Objects(m) THEN ShapeBefore(m.version) ELSE schema[v]]

\* Mutant: the marker's checksum is not compared with the supplied migration's.
AnyRecorded(m) == inflight[m.version] # NoMarker

Recorded(m) == inflight[m.version] = m.checksum

\* MarkAppliedAfterVerification: the operator has seen the complete new shape of what
\* the marker names.
MarkApplied(m) ==
  /\ Backend = "mysql"
  /\ lock = NoOwner
  /\ Recorded(m)
  /\ \A v \in Objects(m) : schema[v] = inflight[m.version]
  /\ events' = Append(events, AppliedEvent(m, KindOf(m)))
  /\ edges' = edges \cup {<<m.version, v>> : v \in m.supersedes}
  /\ inflight' = [inflight EXCEPT ![m.version] = NoMarker]
  /\ UNCHANGED <<rbInflight, schema, lock, crashes, pc, local>>

\* ClearForRetryAfterRollback, or the DELETE: the operator has put the old shape back.
ClearForRetry(m) ==
  /\ lock = NoOwner
  /\ Recorded(m)
  /\ schema' = Restored(m)
  /\ inflight' = [inflight EXCEPT ![m.version] = NoMarker]
  /\ UNCHANGED <<events, rbInflight, edges, lock, crashes, pc, local>>

\* The partial revert is undone or finished, then its marker is deleted.
SettleHalfReverted(m) ==
  /\ lock = NoOwner
  /\ m.version \in rbInflight
  /\ \E e \in NetApplied(events) : e.version = m.version /\ e.checksum = m.checksum
  /\ \/ "undo" \in Repairs /\ schema' = Restored(m)
     \/ "finish" \in Repairs /\ schema' = Gone(m)
  /\ rbInflight' = rbInflight \ {m.version}
  /\ UNCHANGED <<events, inflight, edges, lock, crashes, pc, local>>

OperatorStep(m) ==
  /\ \/ RecordSquash(m)
     \/ Baseline(m)
     \/ MarkApplied(m)
     \/ ClearForRetry(m)
     \/ SettleHalfReverted(m)
  /\ UNCHANGED unwinding

OperationsNext == RollbackNext \/ \E m \in Catalog : OperatorStep(m)

OperationsSpec == RollbackInit /\ [][OperationsNext]_allVars

-----------------------------------------------------------------------------
(* What a project's catalog is like where what is proved of its objects    *)
(* asks for it. Nothing in the code enforces it.                           *)

\* An edited squash keeps the versions it supersedes: recorded edges are never deleted.
ScopesKept == \A m, n \in Catalog : m.version = n.version => m.supersedes = n.supersedes

\* A squash does not supersede a squash.
SquashesFlat == \A m, n \in Catalog : n.version \in m.supersedes => n.supersedes = {}

\* What runs in two phases shares its objects with no other version: a squash stands for
\* transactional history.
TwoPhaseAlone ==
  \A m, n \in Catalog : TwoPhase(m) /\ Objects(m) \cap Objects(n) # {} => n.version = m.version

\* A schema that is adopted is not described by a squash.
BaselinesPlain == \A m \in Adoptable : m.supersedes = {}

TidyCatalog == ScopesKept /\ SquashesFlat /\ TwoPhaseAlone /\ BaselinesPlain

\* An interrupted `down` is undone, never finished by hand.
HalfDownsUndone == "finish" \notin Repairs

\* A squash has no reverse.
SquashesStay == \A m \in Catalog : m.supersedes # {} => m.down = "none"

\* A routine's version never has a marker (no routines, then, on MySQL), and neither has that
\* of a schema that is adopted.
RoutinesUnmarked == \A m, n \in Catalog : m.repeatable /\ n.version = m.version => ~TwoPhase(n)
BaselinesUnmarked ==
  Backend # "mysql" => \A m \in Adoptable, n \in Catalog : n.version = m.version => ~TwoPhase(n)

\* No squashes; nothing depends on what a precondition may skip; what is adopted depends on
\* nothing.
SquashFree == \A m \in Catalog : m.supersedes = {}
SkipsAreLeaves == \A m, n \in Catalog : "skip" \in m.verdicts => m.version \notin n.deps
BaselinesFirst == \A m \in Adoptable : m.deps = {}

PlainCatalog == SquashFree /\ SkipsAreLeaves /\ BaselinesFirst
=============================================================================
