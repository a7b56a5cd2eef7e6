----------------------------- MODULE Contracts -----------------------------
(***************************************************************************)
(* PostgreSQL online renames across deploys (engine.rs).  A plan with a    *)
(* rename adds the new column, the dual-write trigger and a backfill (E1,  *)
(* E2, E3) and records an obligation, its pending contract.  Until a host  *)
(* deploys the contract (C1, C2) or an operator resolves the obligation,   *)
(* other plans must keep off the table and dependents must wait.           *)
(*                                                                         *)
(* Abstractions.  The values of the two columns are `unfilled`, the `same` *)
(* or `diverged`.  The backfill is one step (Backfill has its batches), an *)
(* ordinary plan is one step (Deploy has its own).  Approval is given.  A  *)
(* statement that fails ends the plan and gives the lock back.             *)
(***************************************************************************)
EXTENDS Naturals, FiniteSets

CONSTANTS
  Runners,    \* processes that deploy plans or resolve contracts
  NoRunner,   \* nobody holds the project lock
  Renames,    \* online renames; each has columns of its own
  Ddls,       \* plans of ordinary DDL
  Tables,
  Unknown,    \* TOUCHES_UNKNOWN: a table that lowering could not name
  NoPlan,
  TableOf,    \* the table of a rename
  Touches,    \* the tables of an ordinary plan
  Needs,      \* the renames an ordinary plan depends on
  Direct      \* renames authored by version, not lowered from a migration's IR

ASSUME NoRunnerAssumption == NoRunner \notin Runners
ASSUME TablesAssumption == TableOf \in [Renames -> Tables] /\ Unknown \notin Tables
ASSUME DdlsAssumption ==
  /\ Touches \in [Ddls -> SUBSET (Tables \cup {Unknown})]
  /\ Needs \in [Ddls -> SUBSET Renames]
  /\ Ddls \cap Renames = {}
ASSUME DirectAssumption == Direct \subseteq Renames

VARIABLES
  expanded,  \* how many of E1, E2, E3 are journaled
  done,      \* which contract steps are journaled
  cols,      \* the columns of the rename that exist
  values,    \* how their values relate
  mirror,    \* the dual-write trigger exists and is enabled
  contract,  \* what schema_pending_contracts says of the rename
  landed,    \* ordinary plans that have run
  handed,    \* renames whose contract steps a host has been given
  lock,      \* who holds the project lock
  pc, plan,  \* where a runner is in which plan
  seen       \* the contracts a runner read as its plan began

schema == <<cols, values, mirror>>
records == <<expanded, done, contract, landed>>
local == <<lock, pc, plan, seen>>
vars == <<schema, records, handed, local>>

PlanKinds == {"rename", "contract", "applied", "aborted"}
Plans == [kind : PlanKinds, of : Renames] \cup [kind : {"ddl"}, of : Ddls]
Outcomes == {"applied", "aborted"}

Outstanding == {r \in Renames : contract[r] = "pending"}

(***************************************************************************)
(* The gates of apply_plan_locked, over the contracts `known` at its start.*)
(***************************************************************************)
Touched(q) == IF q.kind = "ddl" THEN Touches[q.of] ELSE {TableOf[q.of]}

\* C2 depends on E1. That is the plan's version in a rename authored directly; one lowered
\* from IR has a plan version that is none of its steps'.
DependsOn(q) ==
  IF q.kind = "ddl" THEN Needs[q.of]
  ELSE IF q.kind = "contract" THEN Direct \cap {q.of} ELSE {}

\* Mutant: every plan with a rename may expand over an outstanding one.
ExemptRename(q, r) == q.kind = "rename" \/ (q.kind # "ddl" /\ q.of = r)

\* The contract's own deploy, the rename deployed again and the resolution.
Exempt(q, r) == q.kind # "ddl" /\ q.of = r

TouchesPending(q, known) ==
  \E r \in Renames :
    /\ known[r] = "pending" /\ ~Exempt(q, r)
    /\ TableOf[r] \in Touched(q) \/ Unknown \in Touched(q)

\* Mutant: an aborted rename satisfies its dependents.
NeedsPending(q, known) ==
  \E r \in DependsOn(q) : known[r] = "pending" /\ ~Exempt(q, r)

NeedsUnsettled(q, known) ==
  \E r \in DependsOn(q) :
    known[r] = "aborted" \/ (known[r] = "pending" /\ ~Exempt(q, r))

\* Which way a plan settles its rename's contract: a contract plan does so only while the
\* obligation is outstanding (recognizes_contract_apply).
Settles(q, known) ==
  IF q.kind \in Outcomes THEN q.kind
  ELSE IF q.kind = "contract" /\ known[q.of] = "pending" THEN "applied" ELSE "nothing"

Step(outcome) == IF outcome = "applied" THEN "apply" ELSE "abort"

Started(r, outcome) ==
  done[r] \cap (IF outcome = "applied" THEN {"apply", "C1", "C2"} ELSE {"abort"}) # {}

\* Mutant: the atomic cleanup is not looked for.
FinishedByParts(r, outcome) == outcome = "applied" /\ {"C1", "C2"} \subseteq done[r]

Finished(r, outcome) ==
  Step(outcome) \in done[r] \/ (outcome = "applied" /\ {"C1", "C2"} \subseteq done[r])

\* Both columns, equal in every row, and, before any cleanup, the trigger.
ShapeHolds(r) ==
  /\ cols[r] = {"from", "to"} /\ values[r] = "same"
  /\ mirror[r] \/ \E outcome \in Outcomes : Started(r, outcome)

Opposite(outcome) == IF outcome = "applied" THEN "aborted" ELSE "applied"

\* A resolution asks for an outstanding obligation that was not begun the other way.
Resolvable(q, known) ==
  q.kind \in Outcomes => known[q.of] = "pending" /\ ~Started(q.of, Opposite(q.kind))

Refused(q, known) ==
  \/ ~Resolvable(q, known)
  \/ TouchesPending(q, known)
  \/ NeedsUnsettled(q, known)
  \/ LET outcome == Settles(q, known)
     IN outcome # "nothing" /\ ~Finished(q.of, outcome) /\ ~ShapeHolds(q.of)

-----------------------------------------------------------------------------
Init ==
  /\ expanded = [r \in Renames |-> 0]
  /\ done = [r \in Renames |-> {}]
  /\ cols = [r \in Renames |-> {"from"}]
  /\ values = [r \in Renames |-> "unfilled"]
  /\ mirror = [r \in Renames |-> FALSE]
  /\ contract = [r \in Renames |-> "none"]
  /\ landed = {} /\ handed = {}
  /\ lock = NoRunner
  /\ pc = [p \in Runners |-> "idle"]
  /\ plan = [p \in Runners |-> NoPlan]
  /\ seen = [p \in Runners |-> contract]

Goto(p, there) == pc' = [pc EXCEPT ![p] = there]

\* A plan ends, whatever its result: the lock is given back.
Ends(p) ==
  /\ lock' = IF lock = p THEN NoRunner ELSE lock
  /\ Goto(p, "idle")
  /\ plan' = [plan EXCEPT ![p] = NoPlan]
  /\ UNCHANGED seen

\* Mutant: the project lock is not waited for.
TakeLock(p, q) ==
  /\ pc[p] = "idle"
  /\ q.kind = "contract" => q.of \in handed
  /\ lock' = p
  /\ plan' = [plan EXCEPT ![p] = q]
  /\ Goto(p, "read")
  /\ UNCHANGED <<schema, records, handed, seen>>

\* apply_plan, resolve_pending_contract: the project lock is held for the whole plan.
Begin(p, q) ==
  /\ pc[p] = "idle" /\ lock = NoRunner
  /\ q.kind = "contract" => q.of \in handed
  /\ lock' = p
  /\ plan' = [plan EXCEPT ![p] = q]
  /\ Goto(p, "read")
  /\ UNCHANGED <<schema, records, handed, seen>>

\* The read-back of the obligations.
Admit(p) ==
  /\ pc[p] = "read" /\ ~Refused(plan[p], contract)
  /\ seen' = [seen EXCEPT ![p] = contract]
  /\ Goto(p, "run")
  /\ UNCHANGED <<schema, records, handed, lock, plan>>

Refuse(p) ==
  /\ pc[p] = "read" /\ Refused(plan[p], contract)
  /\ Ends(p)
  /\ UNCHANGED <<schema, records, handed>>

-----------------------------------------------------------------------------
Runs(p, kind) == pc[p] = "run" /\ plan[p].kind = kind

RunDdl(p) ==
  /\ Runs(p, "ddl")
  /\ landed' = landed \cup {plan[p].of}
  /\ Goto(p, "end")
  /\ UNCHANGED <<schema, expanded, done, contract, handed, lock, plan, seen>>

\* Mutant: E3 does not ask the journal whether it has run.
ExpandAgain(p, r) ==
  /\ Runs(p, "rename") /\ plan[p].of = r
  /\ expanded' = [expanded EXCEPT ![r] = @ + 1]
  /\ IF expanded[r] < 3 THEN Goto(p, "run") ELSE Goto(p, "record")
  /\ UNCHANGED <<schema, done, contract, landed, handed, lock, plan, seen>>

\* The backfill refuses a table with an enabled trigger that is not the rename's own
\* (reject_trigger_interactions), or without that one.
Quiet(r) ==
  {s \in Renames : TableOf[s] = TableOf[r] /\ mirror[s]} = {r}

\* run_online: E1, E2 and E3 commit one by one; what is journaled is skipped.
Expand(p, r) ==
  /\ Runs(p, "rename") /\ plan[p].of = r /\ expanded[r] < 3
  /\ expanded[r] = 2 => Quiet(r)
  /\ expanded' = [expanded EXCEPT ![r] = @ + 1]
  /\ CASE expanded[r] = 0 -> /\ cols' = [cols EXCEPT ![r] = {"from", "to"}]
                             /\ UNCHANGED <<values, mirror>>
       [] expanded[r] = 1 -> /\ mirror' = [mirror EXCEPT ![r] = TRUE]
                             /\ UNCHANGED <<cols, values>>
       [] expanded[r] = 2 -> /\ values' = [values EXCEPT ![r] = IF @ = "unfilled" THEN "same" ELSE @]
                             /\ UNCHANGED <<cols, mirror>>
  /\ UNCHANGED <<done, contract, landed, handed, local>>

ExpandFails(p, r) ==
  /\ Runs(p, "rename") /\ plan[p].of = r
  /\ expanded[r] = 2 /\ ~Quiet(r)
  /\ Ends(p)
  /\ UNCHANGED <<schema, records, handed>>

Expanded(p) ==
  /\ Runs(p, "rename") /\ expanded[plan[p].of] = 3
  /\ Goto(p, "record")
  /\ UNCHANGED <<schema, records, handed, lock, plan, seen>>

\* record_pending_contract_with_recovery, a commit after E3's: a version that was
\* outstanding as the plan began is not recorded again, and one that is resolved never is.
Record(p) ==
  LET r == plan[p].of
      opens == seen[p][r] # "pending" /\ contract[r] \notin Outcomes
  IN /\ pc[p] = "record"
     /\ contract' = IF opens THEN [contract EXCEPT ![r] = "pending"] ELSE contract
     /\ handed' = IF opens \/ seen[p][r] = "pending" THEN handed \cup {r} ELSE handed
     /\ Goto(p, "end")
     /\ UNCHANGED <<schema, expanded, done, landed, lock, plan, seen>>

Keeps(outcome) == IF outcome = "applied" THEN {"to"} ELSE {"from"}

\* Mutant: the cleanup trusts the shape that was read before it.
Unchecked(r) == TRUE

\* ADD CONSTRAINT ... CHECK (from = to), VALIDATE: under the table's lock.
Checked(r) == cols[r] = {"from", "to"} /\ values[r] = "same"

\* Mutant: the obligation is resolved before its cleanup runs.
SettleFirst(p) ==
  /\ pc[p] = "run" /\ Settles(plan[p], seen[p]) # "nothing"
  /\ contract' = [contract EXCEPT ![plan[p].of] = Settles(plan[p], seen[p])]
  /\ UNCHANGED <<schema, expanded, done, landed, handed, local>>

\* The atomic cleanup: the check, C1, C2 (or their abort counterparts) and the journal row
\* are one transaction. A cleanup that has finished is skipped.
CleanUp(p) ==
  LET r == plan[p].of
      outcome == Settles(plan[p], seen[p])
  IN /\ pc[p] = "run" /\ outcome # "nothing"
     /\ IF Finished(r, outcome)
        THEN UNCHANGED <<cols, mirror, done>>
        ELSE /\ Checked(r)
             /\ cols' = [cols EXCEPT ![r] = Keeps(outcome)]
             /\ mirror' = [mirror EXCEPT ![r] = FALSE]
             /\ done' = [done EXCEPT ![r] = @ \cup {Step(outcome)}]
     /\ Goto(p, "settle")
     /\ UNCHANGED <<values, expanded, contract, landed, handed, lock, plan, seen>>

CleanUpFails(p) ==
  LET r == plan[p].of
      outcome == Settles(plan[p], seen[p])
  IN /\ pc[p] = "run" /\ outcome # "nothing"
     /\ ~Finished(r, outcome) /\ ~Checked(r)
     /\ Ends(p)
     /\ UNCHANGED <<schema, records, handed>>

\* resolve_pending_contract, a commit after the cleanup's.
Settle(p) ==
  /\ pc[p] = "settle"
  /\ contract' = [contract EXCEPT ![plan[p].of] = Settles(plan[p], seen[p])]
  /\ Goto(p, "end")
  /\ UNCHANGED <<schema, expanded, done, landed, handed, lock, plan, seen>>

LateContract(p, r) == Runs(p, "contract") /\ plan[p].of = r /\ seen[p][r] # "pending"

\* A contract plan whose obligation is not outstanding is ordinary DDL: C1 ...
RunC1(p, r) ==
  /\ LateContract(p, r) /\ "C1" \notin done[r]
  /\ mirror' = [mirror EXCEPT ![r] = FALSE]
  /\ done' = [done EXCEPT ![r] = @ \cup {"C1"}]
  /\ UNCHANGED <<cols, values, expanded, contract, landed, handed, local>>

\* ... and C2, which fails when the column has gone.
RunC2(p, r) ==
  /\ LateContract(p, r) /\ "C1" \in done[r] /\ "C2" \notin done[r]
  /\ "from" \in cols[r]
  /\ cols' = [cols EXCEPT ![r] = @ \ {"from"}]
  /\ done' = [done EXCEPT ![r] = @ \cup {"C2"}]
  /\ UNCHANGED <<values, mirror, expanded, contract, landed, handed, local>>

LateContractEnds(p, r) ==
  /\ LateContract(p, r) /\ "C1" \in done[r]
  /\ "C2" \in done[r] \/ "from" \notin cols[r]
  /\ Ends(p)
  /\ UNCHANGED <<schema, records, handed>>

Finish(p) ==
  /\ pc[p] = "end"
  /\ Ends(p)
  /\ UNCHANGED <<schema, records, handed>>

\* The process dies: its session, and the lock with it, is gone.
Crash(p) ==
  /\ pc[p] # "idle"
  /\ Ends(p)
  /\ UNCHANGED <<schema, records, handed>>

-----------------------------------------------------------------------------
(***************************************************************************)
(* Outside the program: somebody disables or restores the trigger, the     *)
(* application writes past it, somebody repairs the values.                *)
(***************************************************************************)
SwitchMirror(r) ==
  /\ expanded[r] >= 2 /\ cols[r] = {"from", "to"}
  /\ mirror' = [mirror EXCEPT ![r] = ~@]
  /\ UNCHANGED <<cols, values, records, handed, local>>

AppWrites(r) ==
  /\ cols[r] = {"from", "to"} /\ ~mirror[r]
  /\ values' = [values EXCEPT ![r] = "diverged"]
  /\ UNCHANGED <<cols, mirror, records, handed, local>>

Repair(r) ==
  /\ cols[r] = {"from", "to"} /\ values[r] = "diverged"
  /\ values' = [values EXCEPT ![r] = "same"]
  /\ UNCHANGED <<cols, mirror, records, handed, local>>

-----------------------------------------------------------------------------
Advance(p) ==
  \/ \E q \in Plans : Begin(p, q)
  \/ Admit(p) \/ Refuse(p)
  \/ RunDdl(p)
  \/ \E r \in Renames : Expand(p, r) \/ ExpandFails(p, r)
  \/ Expanded(p) \/ Record(p)
  \/ CleanUp(p) \/ CleanUpFails(p) \/ Settle(p)
  \/ \E r \in Renames : RunC1(p, r) \/ RunC2(p, r) \/ LateContractEnds(p, r)
  \/ Finish(p)

Outside == \E r \in Renames : SwitchMirror(r) \/ AppWrites(r) \/ Repair(r)

Next == (\E p \in Runners : Advance(p) \/ Crash(p)) \/ Outside

Spec == Init /\ [][Next]_vars

-----------------------------------------------------------------------------
(***************************************************************************)
(* Properties.                                                             *)
(***************************************************************************)
\* Every variable keeps its type.
ContractsTypeOK ==
  /\ expanded \in [Renames -> 0..3]
  /\ done \in [Renames -> SUBSET {"apply", "abort", "C1", "C2"}]
  /\ cols \in [Renames -> SUBSET {"from", "to"}]
  /\ values \in [Renames -> {"unfilled", "same", "diverged"}]
  /\ mirror \in [Renames -> BOOLEAN]
  /\ contract \in [Renames -> {"none", "pending", "applied", "aborted"}]
  /\ landed \subseteq Ddls /\ handed \subseteq Renames
  /\ lock \in Runners \cup {NoRunner}
  /\ pc \in [Runners -> {"idle", "read", "run", "record", "settle", "end"}]
  /\ plan \in [Runners -> Plans \cup {NoPlan}]
  /\ seen \in [Runners -> [Renames -> {"none", "pending", "applied", "aborted"}]]

SettledAs(r) ==
  /\ contract[r] = "applied" => cols[r] = {"to"}
  /\ contract[r] = "aborted" => cols[r] = {"from"}

\* "The original rename identity is terminal": applied keeps the new column, aborted the
\* old one, and nothing that is deployed later takes it away.
Terminal == \A r \in Renames : SettledAs(r)

\* Terminal, for a rename authored directly; and no rename's cleanup runs both ways,
\* whoever dies between a cleanup and its record and whoever resolves it next.
OneOutcome ==
  /\ \A r \in Direct : SettledAs(r)
  /\ \A r \in Renames : ~({"apply", "abort"} \subseteq done[r])

\* One table never has two outstanding renames: each would refuse the plans and the
\* resolution of the other, for ever.
OneOutstanding ==
  \A r, s \in Outstanding : TableOf[r] = TableOf[s] => r = s

\* A column is dropped from under the application only while the other one holds the same
\* values, however late the application wrote (atomic_pending_resolution_migration).
NothingLost ==
  [][\A r \in Renames :
       cols[r] = {"from", "to"} /\ cols'[r] # cols[r] => values[r] = "same"]_vars

\* No plan runs over a table with an outstanding rename, or over tables nobody can name
\* while any is outstanding (the read-back, and the lock it is made under).
Interlock ==
  [][\A d \in landed' \ landed, r \in Outstanding :
       TableOf[r] \notin Touches[d] /\ Unknown \notin Touches[d]]_vars

\* A plan that depends on a rename does not run while the rename is outstanding, and never
\* after it was aborted.
DependentsWait ==
  [][\A d \in landed' \ landed :
       \A r \in Needs[d] : contract[r] \notin {"pending", "aborted"}]_vars

\* A cleanup that has committed can be recorded: whatever became of the columns, the
\* trigger or the table's other renames since, the resolution is admitted again.
Recordable ==
  \A r \in Outstanding, outcome \in Outcomes :
    Step(outcome) \in done[r] => ~Refused([kind |-> outcome, of |-> r], contract)
=============================================================================
