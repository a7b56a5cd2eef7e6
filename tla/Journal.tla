------------------------------ MODULE Journal ------------------------------
(***************************************************************************)
(* The append-only migration journal (schema_migrations and its side       *)
(* tables) as a value, and the queries every verb asks of it.  A journal   *)
(* is the sequence of its events; the position of an event in the sequence *)
(* is the code's event_seq.                                                *)
(***************************************************************************)
EXTENDS Naturals, Sequences

CONSTANTS
  Versions,     \* the migration ids in play, as naturals: id order is < (UUIDv7)
  Checksums,    \* the checksums a migration file can have
  NoMarker      \* "no row in schema_migrations_inflight for this version"

ASSUME VersionsAssumption == Versions \subseteq Nat
ASSUME NoMarkerAssumption == NoMarker \notin Checksums

Kinds == {"apply", "baseline", "squash", "repeatable"}

\* A 'rolled_back' row carries no kind.
Event == [version : Versions, event : {"applied"}, kind : Kinds, checksum : Checksums]
         \cup
         [version : Versions, event : {"rolled_back"}, kind : {"none"}, checksum : Checksums]

\* The last event of each version, in event_seq order.
Latest(ev) ==
  {ev[i] : i \in {j \in DOMAIN ev :
     \A k \in DOMAIN ev : k > j => ev[k].version # ev[j].version}}

\* The versions whose last event is 'applied': the rows applied() returns in
\* phase 'completed', each with its kind and checksum.
NetApplied(ev) == {e \in Latest(ev) : e.event = "applied"}

Completed(ev) == {e.version : e \in NetApplied(ev)}

\* The rows applied() returns in phase 'started': a marker shows only while its
\* version is not net-applied.
Started(ev, inflight) ==
  {v \in DOMAIN inflight : inflight[v] # NoMarker} \ Completed(ev)

\* Mutant: the edges are not read.
NothingSuperseded(ev, edges) == {}

\* The versions covered by a squash whose last event is 'applied'.
Superseded(ev, edges) ==
  {p[2] : p \in {q \in edges :
     \E e \in NetApplied(ev) : e.version = q[1] /\ e.kind = "squash"}}

\* The re-run oracle of the repeatable phase: the last 'repeatable' row of each
\* version, whatever other kinds of row follow it.
LatestRepeatable(ev) ==
  LET rows == {i \in DOMAIN ev : ev[i].event = "applied" /\ ev[i].kind = "repeatable"} IN
  {ev[i] : i \in {j \in rows : \A k \in rows : k > j => ev[k].version # ev[j].version}}

\* A journal row for a migration m, of the given kind.
AppliedEvent(m, kind) ==
  [version |-> m.version, event |-> "applied", kind |-> kind, checksum |-> m.checksum]

RolledBackEvent(m) ==
  [version |-> m.version, event |-> "rolled_back", kind |-> "none", checksum |-> m.checksum]
=============================================================================
