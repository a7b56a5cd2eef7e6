------------------------------ MODULE Rollback ------------------------------
(***************************************************************************)
(* Rollback of applied migrations, beside the deploys of Deploy: the plan  *)
(* (what a target selects, the refusals, the reverse order) and its        *)
(* execution, which is one transaction per migration on PostgreSQL and     *)
(* SQLite, and on MySQL a marker, an auto-committed `down` and a           *)
(* finalising transaction.  A `down` removes what its `up` built.          *)
(*                                                                         *)
(* A request's reverse SQL is textual (`m.down`); structured inverses and  *)
(* outstanding online renames are not modelled.                            *)
(***************************************************************************)
EXTENDS Deploy, SequencesExt

CONSTANTS
  Operators,    \* processes that roll back
  Requests      \* what they may ask for

\* A target is <<"all">>, <<"steps", n>> or <<"to", version>>; `force` stands for
\* force with backup_acknowledged.
Request ==
  [supplied : SUBSET Catalog, target : Seq(Nat \cup {"all", "steps", "to"}),
   force : BOOLEAN, approved : BOOLEAN]

ASSUME RequestsAssumption ==
  \A r \in Requests :
    r.supplied \subseteq Catalog /\ (r.target[1] = "steps" => r.target[2] \in Nat)
ASSUME OperatorsAssumption == Operators \cap Deployers = {} /\ NoOwner \notin Operators

VARIABLES
  opc,          \* where each operator's rollback is
  request,      \* what it was asked for
  steps         \* RollbackPlan.steps: what is left to unwind, in order

unwinding == <<opc, request, steps>>
allVars == <<vars, unwinding>>

NoRequest == [supplied |-> {}, target |-> <<"all">>, force |-> FALSE, approved |-> FALSE]

RollbackHolding == {"planning", "stepping", "down", "finalize"}

-----------------------------------------------------------------------------
(* The plan.                                                               *)

\* The net-applied versions whose event_seq is above that of v.
AppliedAfter(v) ==
  LET seq[u \in Completed(events)] ==
        CHOOSE i \in DOMAIN events :
          events[i].version = u /\ \A j \in DOMAIN events : events[j].version = u => j <= i
  IN  {u \in Completed(events) : seq[u] > seq[v]}

Selected(target) ==
  CASE target[1] = "all" -> Completed(events)
    [] target[1] = "steps" ->
         {v \in Completed(events) : Cardinality(AppliedAfter(v)) < target[2]}
    [] target[1] = "to" /\ target[2] \in Completed(events) -> AppliedAfter(target[2])
    [] OTHER -> {}

Chosen(r) == {m \in r.supplied : m.version \in Selected(r.target)}

\* What will be unwound: the chosen migrations but the irreversible ones, which
\* force skips.
Unwound(r) == {m \in Chosen(r) : m.down # "none"}

\* Mutant: the journaled checksum is not compared.
AnyBody(r) == FALSE

ChecksumDrift(r) ==
  \E m \in Chosen(r), e \in NetApplied(events) :
    e.version = m.version /\ e.checksum # m.checksum

\* Mutant: force skips a squash too.
ForceSkipsAll(r) == \E m \in Chosen(r) : m.down = "none" /\ ~r.force

\* Neither a squash nor, without force, anything else irreversible is skipped.
Irreversible(r) == \E m \in Chosen(r) : m.down = "none" /\ (m.supersedes # {} \/ ~r.force)

\* Mutant: what force skips is not counted among what stays.
KeptUnselected(r) ==
  \E m \in r.supplied :
    /\ m.version \in Completed(events) \ Selected(r.target)
    /\ m.deps \cap Ids(Unwound(r)) # {}

\* Something that stays applied depends on something that is torn down.
KeptDependsOnRolledBack(r) ==
  \E m \in r.supplied :
    /\ m.version \in Completed(events) \ Ids(Unwound(r))
    /\ m.deps \cap Ids(Unwound(r)) # {}

RollbackRefused(r) ==
  \/ ~r.approved
  \/ r.target[1] = "to" /\ r.target[2] \notin Completed(events)
  \/ ~(Selected(r.target) \subseteq Ids(r.supplied))
  \/ ChecksumDrift(r)
  \/ Irreversible(r)
  \/ \E m \in Unwound(r) : ~m.txn \/ m.down = "denied"
  \/ KeptDependsOnRolledBack(r)

\* A sequence in the order apply would have run its elements in.
RunOrder(s) == \A i \in DOMAIN s : First(s[i], {s[j] : j \in i..Len(s)})

ReverseOrders(r) == {Reverse(s) : s \in {t \in SetToSeqs(Unwound(r)) : RunOrder(t)}}

\* What the ordering accepts as a dependency outside the steps.
RollbackUnorderable(r) == Unorderable(Unwound(r), Completed(events))

-----------------------------------------------------------------------------
RollbackInit ==
  /\ Init
  /\ opc = [o \in Operators |-> "idle"]
  /\ request = [o \in Operators |-> NoRequest]
  /\ steps = [o \in Operators |-> <<>>]

Move(o, from, to) ==
  /\ opc[o] = from
  /\ opc' = [opc EXCEPT ![o] = to]

\* A rollback that is over, well or not, gives the lock back and forgets.
EndRollback(o) ==
  /\ opc' = [opc EXCEPT ![o] = "idle"]
  /\ request' = [request EXCEPT ![o] = NoRequest]
  /\ steps' = [steps EXCEPT ![o] = <<>>]
  /\ lock' = IF lock = o THEN NoOwner ELSE lock
  /\ UNCHANGED <<pc, local>>

AskRollback(o, r) ==
  /\ Move(o, "idle", "waiting")
  /\ request' = [request EXCEPT ![o] = r]
  /\ UNCHANGED <<vars, steps>>

LockRollback(o) ==
  /\ lock = NoOwner
  /\ lock' = o
  /\ Move(o, "waiting", "planning")
  /\ UNCHANGED <<journal, schema, crashes, pc, local, request, steps>>

PlanRollback(o) ==
  /\ Move(o, "planning", "stepping")
  /\ ~RollbackRefused(request[o]) /\ ~RollbackUnorderable(request[o])
  /\ \E s \in ReverseOrders(request[o]) : steps' = [steps EXCEPT ![o] = s]
  /\ UNCHANGED <<vars, request>>

RefuseRollback(o) ==
  /\ opc[o] = "planning"
  /\ RollbackRefused(request[o]) \/ RollbackUnorderable(request[o])
  /\ EndRollback(o)
  /\ UNCHANGED <<journal, schema, crashes>>

NextStep(o) == Head(steps[o])

Gone(m) == [v \in Versions |-> IF v \in Objects(m) THEN Absent ELSE schema[v]]

\* The event that takes a version back to pending.
RecordRolledBack(o) ==
  /\ events' = Append(events, RolledBackEvent(NextStep(o)))
  /\ steps' = [steps EXCEPT ![o] = Tail(@)]
  /\ UNCHANGED <<inflight, edges, lock, crashes, pc, local, request>>

\* Mutant: the `down` is committed before its event.
CommitDownFirst(o) ==
  /\ Backend # "mysql"
  /\ steps[o] # <<>>
  /\ Move(o, "stepping", "finalize")
  /\ schema' = Gone(NextStep(o))
  /\ UNCHANGED <<journal, lock, crashes, pc, local, request, steps>>

\* One transaction: the `down` and its event (not MySQL).
RollbackOne(o) ==
  /\ Backend # "mysql"
  /\ opc[o] = "stepping" /\ steps[o] # <<>>
  /\ schema' = Gone(NextStep(o))
  /\ RecordRolledBack(o)
  /\ UNCHANGED <<rbInflight, opc>>

\* MySQL: a marker of an earlier interrupted `down` stops the rollback.
RefuseHalfReverted(o) ==
  /\ Backend = "mysql"
  /\ opc[o] = "stepping" /\ steps[o] # <<>>
  /\ NextStep(o).version \in rbInflight
  /\ EndRollback(o)
  /\ UNCHANGED <<journal, schema, crashes>>

MarkDown(o) ==
  /\ Backend = "mysql"
  /\ steps[o] # <<>> /\ NextStep(o).version \notin rbInflight
  /\ Move(o, "stepping", "down")
  /\ rbInflight' = rbInflight \cup {NextStep(o).version}
  /\ UNCHANGED <<events, inflight, edges, schema, lock, crashes, pc, local, request, steps>>

RunDown(o) ==
  /\ Move(o, "down", "finalize")
  /\ schema' = Gone(NextStep(o))
  /\ UNCHANGED <<journal, lock, crashes, pc, local, request, steps>>

FinalizeDown(o) ==
  /\ Move(o, "finalize", "stepping")
  /\ RecordRolledBack(o)
  /\ rbInflight' = rbInflight \ {NextStep(o).version}
  /\ UNCHANGED schema

FinishRollback(o) ==
  /\ opc[o] = "stepping" /\ steps[o] = <<>>
  /\ EndRollback(o)
  /\ UNCHANGED <<journal, schema, crashes>>

\* An auto-committed `down` that stopped somewhere.
HalfDown(m) ==
  {[v \in Versions |-> IF v \in Objects(m) THEN part[v] ELSE schema[v]] :
     part \in {f \in [Objects(m) -> Live] :
                 \A v \in Objects(m) : f[v] \in {schema[v], Torn, Absent}}}

\* A statement fails or the process dies: an open transaction leaves nothing.
StopRollback(o) ==
  /\ Mishap
  /\ opc[o] \in RollbackHolding \cup {"waiting"}
  /\ IF opc[o] = "down" THEN schema' \in HalfDown(NextStep(o)) ELSE UNCHANGED schema
  /\ EndRollback(o)
  /\ UNCHANGED journal

AdvanceRollback(o) ==
  \/ PlanRollback(o)
  \/ RefuseRollback(o)
  \/ RollbackOne(o)
  \/ RefuseHalfReverted(o)
  \/ MarkDown(o)
  \/ RunDown(o)
  \/ FinalizeDown(o)
  \/ FinishRollback(o)

RollbackNext ==
  \/ DeployNext /\ UNCHANGED unwinding
  \/ \E o \in Operators :
       \/ \E r \in Requests : AskRollback(o, r)
       \/ LockRollback(o)
       \/ AdvanceRollback(o)
       \/ StopRollback(o)

RollbackSpec == RollbackInit /\ [][RollbackNext]_allVars
-----------------------------------------------------------------------------
(* Properties.                                                             *)

RollbackTypeOK ==
  /\ Typed
  /\ lock \in Deployers \cup Operators \cup {NoOwner}
  /\ opc \in [Operators -> {"idle", "waiting"} \cup RollbackHolding]
  /\ request \in [Operators -> Requests \cup {NoRequest}]
  /\ steps \in [Operators -> Seq(Catalog)]

\* A rolled_back event undoes the applied event before it, body for body: an edited
\* artifact is never unwound in place of the one that ran (plan_rollback gate 4, which
\* keeps rollback from laundering the drift gate), and nothing is unwound twice.
UndoesWhatRan ==
  \A j \in DOMAIN events : events[j].event = "rolled_back" =>
    \E i \in 1..(j - 1) :
      /\ events[i].version = events[j].version
      /\ events[i].event = "applied" /\ events[i].checksum = events[j].checksum
      /\ \A k \in (i + 1)..(j - 1) : events[k].version # events[j].version

\* Nothing applied is left without what it depends on, at any step of an unwind,
\* whatever is forced, edited or left out of the supplied set (plan_rollback gate 6 and
\* the reverse order).
NothingDangles ==
  \A e \in NetApplied(events), m \in Catalog :
    m.version = e.version /\ m.checksum = e.checksum =>
      m.deps \subseteq Completed(events) \cup Superseded(events, edges)

\* What the journal says is applied is there, in the body that was journaled (a squash
\* may stand for the bodies it supersedes), unless a marker of either kind says that
\* it is being changed.
JournalIsTrue ==
  \A e \in NetApplied(events), m \in Catalog :
    /\ m.version = e.version /\ m.checksum = e.checksum
    /\ inflight[m.version] = NoMarker /\ m.version \notin rbInflight
    => \A v \in Objects(m) :
         schema[v] \in IF m.supersedes = {} THEN {m.checksum} ELSE Checksums

\* A deploy that ends well reports a settled once-only version as skipped only if what
\* it built is there (operations.md: "it does not report the version as a clean
\* `skipped` migration").
SkippedIsBuilt ==
  \A d \in Deployers : pc[d] = "ok" =>
    \A m \in Versioned(supplied[d]) : m.version \in outcome[d] \cap Completed(events) =>
      \A v \in Objects(m) : schema[v] \in Checksums
=============================================================================
