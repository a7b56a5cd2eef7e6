------------------------------- MODULE Ledger -------------------------------
(***************************************************************************)
(* What the executor, rollback and their recoveries promise together: a    *)
(* database in which every migration is applied, adopted or unwound in one *)
(* step, journal row and objects together, whoever dies in the middle of   *)
(* the real thing.                                                         *)
(***************************************************************************)
EXTENDS Journal

CONSTANT Catalog    \* the migration artifacts

VARIABLES
  record,  \* the journal's events
  built    \* the body of each version's objects

ledger == <<record, built>>

Nothing == "absent"

Builds(m) == IF m.supersedes = {} THEN {m.version} ELSE m.supersedes

As(m) == IF m.repeatable THEN "repeatable" ELSE IF m.supersedes = {} THEN "apply" ELSE "squash"

Become(m, body) == built' = [v \in Versions |-> IF v \in Builds(m) THEN body ELSE built[v]]

Init == record = <<>> /\ built = [v \in Versions |-> Nothing]

\* A once-only migration is applied while it is pending, and then its objects have its
\* body.
Apply(m) ==
  /\ m.repeatable \/ m.version \notin Completed(record)
  /\ record' = Append(record, AppliedEvent(m, As(m)))
  /\ Become(m, m.checksum)

\* A squash is recorded over a history that is all applied.
Adopt(m) ==
  /\ m.supersedes # {} /\ m.supersedes \subseteq Completed(record)
  /\ m.version \notin Completed(record)
  /\ record' = Append(record, AppliedEvent(m, "squash"))
  /\ UNCHANGED built

\* A schema that was there before the ledger becomes its first entry.
Inherit(m) ==
  /\ Completed(record) = {}
  /\ record' = Append(record, AppliedEvent(m, "baseline"))
  /\ Become(m, m.checksum)

\* What was applied is unwound in the body that was applied.
Unwind(m) ==
  /\ \E e \in NetApplied(record) : e.version = m.version /\ e.checksum = m.checksum
  /\ record' = Append(record, RolledBackEvent(m))
  /\ Become(m, Nothing)

Next == \E m \in Catalog : Apply(m) \/ Adopt(m) \/ Inherit(m) \/ Unwind(m)

Spec == Init /\ [][Next]_ledger
=============================================================================
