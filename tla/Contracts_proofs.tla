-------------------------- MODULE Contracts_proofs --------------------------
(***************************************************************************)
(* What holds of every behaviour of Contracts, for every set of renames,   *)
(* plans, tables and runners.                                              *)
(***************************************************************************)
EXTENDS Contracts, TLAPS

USE NoRunnerAssumption, TablesAssumption, DdlsAssumption, DirectAssumption

-----------------------------------------------------------------------------
(* The inductive invariant.                                                *)

Both == {"from", "to"}

\* Whoever is past the lock holds it.
Exclusive == \A p \in Runners : pc[p] # "idle" => lock = p

\* A runner has a plan as long as it runs, and a contract plan only what it was handed.
Given ==
  \A p \in Runners : pc[p] # "idle" =>
    /\ plan[p] \in Plans
    /\ plan[p].kind = "contract" => plan[p].of \in handed

\* What a runner read as its plan began is still so while it changes nothing, and what
\* the gates asked of it.
Current ==
  \A p \in Runners : pc[p] \in {"run", "record", "settle"} =>
    /\ seen[p] = contract
    /\ ~TouchesPending(plan[p], contract)
    /\ ~NeedsUnsettled(plan[p], contract)
    /\ plan[p].kind \in Outcomes => contract[plan[p].of] = "pending"

\* An obligation is recorded of a finished expand half, ...
Recording ==
  \A p \in Runners : pc[p] = "record" =>
    plan[p].kind = "rename" /\ expanded[plan[p].of] = 3

\* ... and settled the way its cleanup ran.
Settling ==
  \A p \in Runners : pc[p] = "settle" =>
    /\ Settles(plan[p], seen[p]) # "nothing"
    /\ Step(Settles(plan[p], seen[p])) \in done[plan[p].of]

\* How far a rename has come, by its contract.
Unrecorded(r) == done[r] = {} /\ r \notin handed

Awaiting(r) ==
  \/ done[r] = {}
  \/ done[r] = {"apply"} /\ cols[r] = {"to"}
  \/ done[r] = {"abort"} /\ cols[r] = {"from"}

Terminated(r) ==
  /\ cols[r] # Both
  /\ ~({"apply", "abort"} \subseteq done[r])
  /\ r \in Direct => SettledAs(r)

Life ==
  \A r \in Renames :
    /\ contract[r] = "none" => Unrecorded(r)
    /\ contract[r] = "pending" => Awaiting(r)
    /\ contract[r] \in Outcomes => Terminated(r)
    /\ contract[r] # "none" => expanded[r] = 3

Control == ContractsTypeOK /\ Exclusive /\ Given /\ Recording /\ Settling

IInv == Control /\ Current /\ Life /\ OneOutstanding

-----------------------------------------------------------------------------
(* Plans and runners.                                                      *)

\* A plan that is not ordinary DDL is of a rename.
LEMMA PlanOf ==
  ASSUME NEW q \in Plans
  PROVE  /\ q.kind \in PlanKinds \cup {"ddl"}
         /\ q.kind # "ddl" => q.of \in Renames
         /\ q.kind = "ddl" => q.of \in Ddls
  BY DEF Plans, PlanKinds

\* What a plan settles is the contract of a rename, and is outstanding.
LEMMA SettlesPending ==
  ASSUME NEW q \in Plans, NEW known, Settles(q, known) # "nothing",
         q.kind \in Outcomes => known[q.of] = "pending"
  PROVE  /\ Settles(q, known) \in Outcomes
         /\ q.of \in Renames
         /\ known[q.of] = "pending"
<1>1. q.kind # "ddl"
  BY DEF Settles, Outcomes
<1>2. q.of \in Renames
  BY <1>1, PlanOf
<1> QED
  BY <1>2 DEF Settles, Outcomes

\* Two runners are not both past the lock.
LEMMA Alone ==
  ASSUME Exclusive, NEW p \in Runners, NEW o \in Runners, pc[p] # "idle", pc[o] # "idle"
  PROVE  o = p
  BY DEF Exclusive

\* A function updated at a point keeps its type.
LEMMA Updated ==
  ASSUME NEW S, NEW T, NEW f \in [S -> T], NEW x, NEW y \in T
  PROVE  [f EXCEPT ![x] = y] \in [S -> T]
  OBVIOUS

-----------------------------------------------------------------------------
(* Control.                                                                *)

LEMMA EndsControl ==
  ASSUME Control, NEW p \in Runners, Ends(p), UNCHANGED <<schema, records, handed>>
  PROVE  Control'
<1>1. ContractsTypeOK'
  BY DEF Control, ContractsTypeOK, Ends, Goto, schema, records
<1>2. \A o \in Runners : pc'[o] # "idle" => pc'[o] = pc[o] /\ plan'[o] = plan[o] /\ o # p
  BY DEF Control, ContractsTypeOK, Ends, Goto
<1>3. Exclusive'
  BY <1>2 DEF Control, Exclusive, Ends, Goto
<1>4. Given'
  BY <1>2 DEF Control, Given
<1>5. Recording' /\ Settling'
  BY <1>2 DEF Control, Recording, Settling, Ends, schema, records, Settles, Step
<1> QED
  BY <1>1, <1>3, <1>4, <1>5 DEF Control

\* A runner alone is past the lock, in a step that keeps it there.
LEMMA AloneControl ==
  ASSUME Control, NEW p \in Runners, pc[p] # "idle",
         UNCHANGED <<lock, plan>>, handed \subseteq handed',
         NEW to, pc' = [pc EXCEPT ![p] = to]
  PROVE  /\ Exclusive' /\ Given'
         /\ \A o \in Runners : pc'[o] # "idle" => o = p
<1>1. pc' \in [Runners -> {pc[o] : o \in Runners} \cup {to}]
  BY DEF Control, ContractsTypeOK
<1>2. \A o \in Runners : pc'[o] # "idle" => o = p
  BY Alone DEF Control, ContractsTypeOK
<1>3. Exclusive'
  BY <1>2, Alone DEF Control, Exclusive
<1>4. Given'
  BY <1>2 DEF Control, Given
<1> QED
  BY <1>2, <1>3, <1>4

\* One expand step: a column, the trigger, or the copy.
LEMMA ExpandSteps ==
  ASSUME ContractsTypeOK, NEW p \in Runners, NEW r \in Renames, Expand(p, r)
  PROVE  /\ expanded' \in [Renames -> 0..3]
         /\ \A s \in Renames : expanded[s] = 3 => expanded'[s] = 3
         /\ \/ UNCHANGED cols
            \/ expanded[r] = 0 /\ cols' = [cols EXCEPT ![r] = Both]
         /\ UNCHANGED mirror \/ mirror' = [mirror EXCEPT ![r] = TRUE]
         /\ \/ UNCHANGED values
            \/ values' = [values EXCEPT ![r] = IF @ = "unfilled" THEN "same" ELSE @]
<1>1. expanded[r] \in 0..3 /\ expanded[r] < 3
  BY DEF ContractsTypeOK, Expand
<1>2. expanded[r] \in {0, 1, 2}
  BY <1>1
<1>3. expanded' = [expanded EXCEPT ![r] = @ + 1]
  BY DEF Expand
<1>4. /\ expanded' \in [Renames -> 0..3]
      /\ \A s \in Renames : expanded[s] = 3 => expanded'[s] = 3
  BY <1>2, <1>3 DEF ContractsTypeOK
<1>5. CASE expanded[r] = 0
  BY <1>4, <1>5 DEF Expand, Both
<1>6. CASE expanded[r] = 1
  BY <1>4, <1>6 DEF Expand
<1>7. CASE expanded[r] = 2
  BY <1>4, <1>7 DEF Expand
<1> QED
  BY <1>2, <1>5, <1>6, <1>7

LEMMA ExpandType ==
  ASSUME ContractsTypeOK, NEW p \in Runners, NEW r \in Renames, Expand(p, r)
  PROVE  ContractsTypeOK'
<1>1. expanded' \in [Renames -> 0..3]
  BY ExpandSteps
<1>2. cols' \in [Renames -> SUBSET {"from", "to"}]
  <2>1. Both \in SUBSET {"from", "to"} /\ cols \in [Renames -> SUBSET {"from", "to"}]
    BY DEF Both, ContractsTypeOK
  <2>2. [cols EXCEPT ![r] = Both] \in [Renames -> SUBSET {"from", "to"}]
    BY <2>1, Updated
  <2> QED
    BY <2>1, <2>2, ExpandSteps
<1>3. mirror' \in [Renames -> BOOLEAN]
  BY ExpandSteps DEF ContractsTypeOK
<1>4. values' \in [Renames -> {"unfilled", "same", "diverged"}]
  <2>1. CASE UNCHANGED values
    BY <2>1 DEF ContractsTypeOK
  <2>2. CASE values' = [values EXCEPT ![r] = IF @ = "unfilled" THEN "same" ELSE @]
    BY <2>2 DEF ContractsTypeOK
  <2> QED
    BY <2>1, <2>2, ExpandSteps
<1> QED
  BY <1>1, <1>2, <1>3, <1>4 DEF ContractsTypeOK, Expand, local

\* One step of the runner past the lock.
LEMMA RunnerControl ==
  ASSUME Control, Current, Life, NEW p \in Runners, Advance(p)
  PROVE  Control'
<1>1. ASSUME NEW q \in Plans, Begin(p, q) PROVE Control'
  <2>1. ContractsTypeOK'
    BY <1>1 DEF Control, ContractsTypeOK, Begin, Goto, schema, records
  <2>2. \A o \in Runners : o # p => pc'[o] = pc[o] /\ plan'[o] = plan[o]
    BY <1>1 DEF Control, ContractsTypeOK, Begin, Goto
  <2>3. pc'[p] = "read" /\ plan'[p] = q
    BY <1>1 DEF Control, ContractsTypeOK, Begin, Goto
  <2>4. \A o \in Runners : pc[o] = "idle"
    BY <1>1 DEF Control, Exclusive, Begin
  <2>5. Exclusive' /\ Given'
    BY <1>1, <2>2, <2>3, <2>4 DEF Exclusive, Given, Begin
  <2>6. Recording' /\ Settling'
    BY <2>2, <2>3, <2>4 DEF Recording, Settling
  <2> QED
    BY <2>1, <2>5, <2>6 DEF Control
<1>2. CASE Admit(p)
  <2>1. ContractsTypeOK'
    BY <1>2 DEF Control, ContractsTypeOK, Admit, Goto, schema, records
  <2>2. Exclusive' /\ Given' /\ \A o \in Runners : pc'[o] # "idle" => o = p
    BY <1>2, AloneControl DEF Admit, Goto
  <2>3. pc'[p] = "run"
    BY <1>2 DEF Control, ContractsTypeOK, Admit, Goto
  <2> QED
    BY <2>1, <2>2, <2>3 DEF Control, Recording, Settling
<1>3. CASE Refuse(p)
  BY <1>3, EndsControl DEF Refuse
<1>4. CASE RunDdl(p)
  <2>1. pc[p] = "run" /\ plan[p] \in Plans /\ plan[p].of \in Ddls
    BY <1>4, PlanOf DEF Control, Given, RunDdl, Runs
  <2>2. ContractsTypeOK'
    BY <1>4, <2>1 DEF Control, ContractsTypeOK, RunDdl, Goto, schema
  <2>3. Exclusive' /\ Given' /\ \A o \in Runners : pc'[o] # "idle" => o = p
    BY <1>4, <2>1, AloneControl DEF RunDdl, Goto
  <2>4. pc'[p] = "end"
    BY <1>4 DEF Control, ContractsTypeOK, RunDdl, Goto
  <2> QED
    BY <2>2, <2>3, <2>4 DEF Control, Recording, Settling
<1>5. ASSUME NEW r \in Renames, Expand(p, r) PROVE Control'
  <2>1. pc[p] = "run" /\ \A o \in Runners : pc[o] # "idle" => o = p
    BY <1>5, Alone DEF Control, Expand, Runs
  <2>2. ContractsTypeOK'
    BY <1>5, ExpandType DEF Control
  <2> QED
    BY <1>5, <2>1, <2>2 DEF Control, Exclusive, Given, Recording, Settling, Expand, local
<1>6. ASSUME NEW r \in Renames, ExpandFails(p, r) PROVE Control'
  BY <1>6, EndsControl DEF ExpandFails
<1>7. CASE Expanded(p)
  <2>1. pc[p] = "run" /\ plan[p].kind = "rename" /\ expanded[plan[p].of] = 3
    BY <1>7 DEF Expanded, Runs
  <2>2. ContractsTypeOK'
    BY <1>7 DEF Control, ContractsTypeOK, Expanded, Goto, schema, records
  <2>3. Exclusive' /\ Given' /\ \A o \in Runners : pc'[o] # "idle" => o = p
    BY <1>7, <2>1, AloneControl DEF Expanded, Goto
  <2>4. pc'[p] = "record" /\ UNCHANGED <<plan, expanded>>
    BY <1>7 DEF Control, ContractsTypeOK, Expanded, Goto, records
  <2> QED
    BY <2>1, <2>2, <2>3, <2>4 DEF Control, Recording, Settling
<1>8. CASE Record(p)
  <2>1. pc[p] = "record" /\ plan[p] \in Plans /\ plan[p].of \in Renames
    BY <1>8, PlanOf DEF Control, Given, Recording, Record
  <2>2. ContractsTypeOK'
    BY <1>8, <2>1 DEF Control, ContractsTypeOK, Record, Goto, schema
  <2>3. Exclusive' /\ Given' /\ \A o \in Runners : pc'[o] # "idle" => o = p
    BY <1>8, <2>1, AloneControl DEF Record, Goto
  <2>4. pc'[p] = "end"
    BY <1>8 DEF Control, ContractsTypeOK, Record, Goto
  <2> QED
    BY <2>2, <2>3, <2>4 DEF Control, Recording, Settling
<1>9. CASE CleanUp(p)
  <2> DEFINE r == plan[p].of
             outcome == Settles(plan[p], seen[p])
  <2>1. pc[p] = "run" /\ plan[p] \in Plans /\ outcome # "nothing"
    BY <1>9 DEF Control, Given, CleanUp
  <2>2. outcome \in Outcomes /\ r \in Renames /\ contract[r] = "pending"
    BY <2>1, SettlesPending DEF Current
  <2>3. Exclusive' /\ Given' /\ \A o \in Runners : pc'[o] # "idle" => o = p
    BY <1>9, <2>1, AloneControl DEF CleanUp, Goto
  <2>4. /\ pc' = [pc EXCEPT ![p] = "settle"]
        /\ UNCHANGED <<values, expanded, contract, landed, handed, lock, plan, seen>>
        /\ \/ UNCHANGED <<cols, mirror, done>> /\ Finished(r, outcome)
           \/ /\ cols' = [cols EXCEPT ![r] = Keeps(outcome)]
              /\ mirror' = [mirror EXCEPT ![r] = FALSE]
              /\ done' = [done EXCEPT ![r] = @ \cup {Step(outcome)}]
    BY <1>9 DEF CleanUp, Goto
  <2>5. Step(outcome) \in {"apply", "abort"} /\ Keeps(outcome) \subseteq {"from", "to"}
    BY DEF Step, Keeps
  <2>6. ContractsTypeOK'
    <3>1. done' \in [Renames -> SUBSET {"apply", "abort", "C1", "C2"}]
      <4>1. done[r] \cup {Step(outcome)} \in SUBSET {"apply", "abort", "C1", "C2"}
        BY <2>2, <2>5 DEF Control, ContractsTypeOK
      <4>2. done \in [Renames -> SUBSET {"apply", "abort", "C1", "C2"}]
        BY DEF Control, ContractsTypeOK
      <4>3. [done EXCEPT ![r] = done[r] \cup {Step(outcome)}]
              \in [Renames -> SUBSET {"apply", "abort", "C1", "C2"}]
        BY <4>1, <4>2, Updated
      <4> QED
        BY <2>4, <4>2, <4>3
    <3>2. cols' \in [Renames -> SUBSET {"from", "to"}] /\ mirror' \in [Renames -> BOOLEAN]
      <4>1. /\ cols \in [Renames -> SUBSET {"from", "to"}]
            /\ mirror \in [Renames -> BOOLEAN]
            /\ Keeps(outcome) \in SUBSET {"from", "to"}
        BY <2>5 DEF Control, ContractsTypeOK
      <4>2. /\ [cols EXCEPT ![r] = Keeps(outcome)] \in [Renames -> SUBSET {"from", "to"}]
            /\ [mirror EXCEPT ![r] = FALSE] \in [Renames -> BOOLEAN]
        BY <4>1, Updated
      <4> QED
        BY <2>4, <4>1, <4>2
    <3>3. pc' \in [Runners -> {"idle", "read", "run", "record", "settle", "end"}]
      BY <2>4 DEF Control, ContractsTypeOK
    <3>4. UNCHANGED handed
      BY <1>9 DEF CleanUp
    <3> QED
      BY <2>4, <3>1, <3>2, <3>3, <3>4 DEF Control, ContractsTypeOK
  <2>7. Recording'
    BY <2>3, <2>4 DEF Control, ContractsTypeOK, Recording
  <2>8. Settling'
    <3>1. Step(outcome) \in done'[r]
      <4>1. CASE UNCHANGED done /\ Finished(r, outcome)
        <5>1. done[r] \cap {"C1", "C2"} = {}
          BY <2>2 DEF Life, Awaiting
        <5> QED
          BY <4>1, <5>1 DEF Finished
      <4>2. CASE done' = [done EXCEPT ![r] = @ \cup {Step(outcome)}]
        BY <4>2, <2>2 DEF Control, ContractsTypeOK
      <4> QED
        BY <2>4, <4>1, <4>2
    <3>2. \A o \in Runners : pc'[o] = "settle" => o = p
      BY <2>3
    <3>3. Settles(plan[p], seen[p])' = outcome /\ plan'[p].of = r
      BY <2>4 DEF Settles
    <3> QED
      BY <2>1, <3>1, <3>2, <3>3 DEF Settling, Step
  <2> QED
    BY <2>3, <2>6, <2>7, <2>8 DEF Control
<1>10. CASE CleanUpFails(p)
  BY <1>10, EndsControl DEF CleanUpFails
<1>11. CASE Settle(p)
  <2>1. pc[p] = "settle" /\ plan[p] \in Plans /\ Settles(plan[p], seen[p]) # "nothing"
    BY <1>11 DEF Control, Given, Settling, Settle
  <2>2. Settles(plan[p], seen[p]) \in Outcomes /\ plan[p].of \in Renames
    BY <2>1, SettlesPending DEF Current
  <2>3. ContractsTypeOK'
    BY <1>11, <2>2 DEF Control, ContractsTypeOK, Settle, Goto, schema, Outcomes
  <2>4. Exclusive' /\ Given' /\ \A o \in Runners : pc'[o] # "idle" => o = p
    BY <1>11, <2>1, AloneControl DEF Settle, Goto
  <2>5. pc'[p] = "end"
    BY <1>11 DEF Control, ContractsTypeOK, Settle, Goto
  <2> QED
    BY <2>3, <2>4, <2>5 DEF Control, Recording, Settling
<1>12. ASSUME NEW r \in Renames, RunC1(p, r) PROVE Control'
  <2>1. pc[p] = "run" /\ \A o \in Runners : pc[o] # "idle" => o = p
    BY <1>12, Alone DEF Control, RunC1, LateContract, Runs
  <2>2. ContractsTypeOK'
    BY <1>12 DEF Control, ContractsTypeOK, RunC1, local
  <2> QED
    BY <1>12, <2>1, <2>2 DEF Control, Exclusive, Given, Recording, Settling, RunC1, local
<1>13. ASSUME NEW r \in Renames, RunC2(p, r) PROVE Control'
  <2>1. pc[p] = "run" /\ \A o \in Runners : pc[o] # "idle" => o = p
    BY <1>13, Alone DEF Control, RunC2, LateContract, Runs
  <2>2. ContractsTypeOK'
    BY <1>13 DEF Control, ContractsTypeOK, RunC2, local
  <2> QED
    BY <1>13, <2>1, <2>2 DEF Control, Exclusive, Given, Recording, Settling, RunC2, local
<1>14. ASSUME NEW r \in Renames, LateContractEnds(p, r) PROVE Control'
  BY <1>14, EndsControl DEF LateContractEnds
<1>15. CASE Finish(p)
  BY <1>15, EndsControl DEF Finish
<1> QED
  BY <1>1, <1>2, <1>3, <1>4, <1>5, <1>6, <1>7, <1>8, <1>9, <1>10, <1>11, <1>12, <1>13,
     <1>14, <1>15 DEF Advance

LEMMA OutsideControl ==
  ASSUME Control, Outside
  PROVE  Control'
<1>1. PICK r \in Renames : SwitchMirror(r) \/ AppWrites(r) \/ Repair(r)
  BY DEF Outside
<1>2. /\ UNCHANGED <<cols, records, handed, local>>
      /\ UNCHANGED mirror \/ mirror' = [mirror EXCEPT ![r] = ~mirror[r]]
      /\ UNCHANGED values \/ values' = [values EXCEPT ![r] = "diverged"]
                         \/ values' = [values EXCEPT ![r] = "same"]
  BY <1>1 DEF SwitchMirror, AppWrites, Repair
<1>3. mirror' \in [Renames -> BOOLEAN]
  <2>1. mirror \in [Renames -> BOOLEAN] /\ (~mirror[r]) \in BOOLEAN
    BY Zenon DEF Control, ContractsTypeOK
  <2>2. [mirror EXCEPT ![r] = ~mirror[r]] \in [Renames -> BOOLEAN]
    BY <2>1, Updated
  <2> QED
    BY <1>2, <2>1, <2>2
<1>4. values' \in [Renames -> {"unfilled", "same", "diverged"}]
  <2> DEFINE T == {"unfilled", "same", "diverged"}
  <2>1. values \in [Renames -> T] /\ "same" \in T /\ "diverged" \in T
    BY DEF Control, ContractsTypeOK
  <2> HIDE DEF T
  <2>2. /\ [values EXCEPT ![r] = "same"] \in [Renames -> T]
        /\ [values EXCEPT ![r] = "diverged"] \in [Renames -> T]
    BY <2>1, Updated
  <2>3. values' \in [Renames -> T]
    BY <1>2, <2>1, <2>2
  <2> QED
    BY <2>3 DEF T
<1>5. ContractsTypeOK'
  BY <1>2, <1>3, <1>4 DEF Control, ContractsTypeOK, records, local
<1> QED
  BY <1>2, <1>5 DEF Control, Exclusive, Given, Recording, Settling, records, local, Settles, Step

-----------------------------------------------------------------------------
(* What a runner read stays true.                                          *)

LEMMA CurrentFrame ==
  ASSUME Current, UNCHANGED contract,
         \A o \in Runners : pc'[o] \in {"run", "record", "settle"} =>
           /\ pc[o] \in {"run", "record", "settle"}
           /\ plan'[o] = plan[o] /\ seen'[o] = seen[o]
  PROVE  Current'
  BY DEF Current

LEMMA CurrentStep ==
  ASSUME IInv, Next
  PROVE  Current'
<1> DEFINE Busy == {"run", "record", "settle"}
<1>0. Control /\ Current /\ ContractsTypeOK
  BY DEF IInv, Control
<1>1. CASE Outside
  <2>1. UNCHANGED <<records, local>>
    BY <1>1 DEF Outside, SwitchMirror, AppWrites, Repair
  <2> QED
    BY <1>0, <2>1, CurrentFrame DEF records, local
<1>2. ASSUME NEW p \in Runners, Ends(p), UNCHANGED <<schema, records, handed>>
      PROVE  Current'
  <2>1. \A o \in Runners : pc'[o] \in Busy =>
          pc[o] \in Busy /\ plan'[o] = plan[o] /\ seen'[o] = seen[o]
    BY <1>0, <1>2 DEF ContractsTypeOK, Ends, Goto
  <2> QED
    BY <1>0, <1>2, <2>1, CurrentFrame DEF records
<1>3. ASSUME NEW p \in Runners, Advance(p) PROVE Current'
  <2>1. ASSUME NEW q \in Plans, Begin(p, q) PROVE Current'
    <3>1. \A o \in Runners : pc'[o] \in Busy =>
            pc[o] \in Busy /\ plan'[o] = plan[o] /\ seen'[o] = seen[o]
      BY <1>0, <2>1 DEF ContractsTypeOK, Begin, Goto
    <3> QED
      BY <1>0, <2>1, <3>1, CurrentFrame DEF Begin, records
  <2>2. CASE Admit(p)
    <3>1. pc[p] = "read" /\ ~Refused(plan[p], contract) /\ UNCHANGED <<contract, plan>>
      BY <2>2 DEF Admit, records
    <3>2. \A o \in Runners : pc'[o] \in Busy => o = p
      BY <1>0, <2>2, <3>1, AloneControl DEF Admit, Goto, Control
    <3>3. seen'[p] = contract
      BY <1>0, <2>2 DEF ContractsTypeOK, Admit
    <3> QED
      BY <3>1, <3>2, <3>3 DEF Current, Refused, Resolvable
  <2>3. ASSUME NEW r \in Renames, Expand(p, r) PROVE Current'
    BY <1>0, <2>3, CurrentFrame DEF Expand, local
  <2>4. CASE RunDdl(p) \/ Expanded(p) \/ CleanUp(p)
    <3>1. pc[p] = "run" /\ UNCHANGED <<contract, plan, seen>>
      BY <2>4 DEF RunDdl, Expanded, CleanUp, Runs, records
    <3>2. \A o \in Runners : o # p => pc'[o] = pc[o]
      BY <1>0, <2>4 DEF ContractsTypeOK, RunDdl, Expanded, CleanUp, Goto
    <3> QED
      BY <1>0, <3>1, <3>2, CurrentFrame
  <2>5. CASE Record(p) \/ Settle(p)
    <3>1. pc[p] # "idle" /\ pc' = [pc EXCEPT ![p] = "end"]
      BY <2>5 DEF Record, Settle, Goto
    <3>2. \A o \in Runners : pc'[o] \notin Busy
      BY <1>0, <3>1, Alone DEF ContractsTypeOK, Control
    <3> QED
      BY <3>2 DEF Current
  <2>6. ASSUME NEW r \in Renames, RunC1(p, r) \/ RunC2(p, r) PROVE Current'
    BY <1>0, <2>6, CurrentFrame DEF RunC1, RunC2, local
  <2>7. CASE Refuse(p) \/ CleanUpFails(p) \/ Finish(p)
    BY <1>2, <2>7 DEF Refuse, CleanUpFails, Finish
  <2>8. ASSUME NEW r \in Renames, ExpandFails(p, r) \/ LateContractEnds(p, r) PROVE Current'
    BY <1>2, <2>8 DEF ExpandFails, LateContractEnds
  <2> QED
    BY <1>3, <2>1, <2>2, <2>3, <2>4, <2>5, <2>6, <2>7, <2>8 DEF Advance
<1>4. ASSUME NEW p \in Runners, Crash(p) PROVE Current'
  BY <1>2, <1>4 DEF Crash
<1> QED
  BY <1>1, <1>3, <1>4 DEF Next

-----------------------------------------------------------------------------
(* The life of a rename.                                                   *)

LEMMA LifeFrame ==
  ASSUME Life, UNCHANGED <<expanded, done, cols, contract, handed>>
  PROVE  Life'
  BY DEF Life, Unrecorded, Awaiting, Terminated, SettledAs

LEMMA LifeStep ==
  ASSUME IInv, Next
  PROVE  Life'
<1>0. Control /\ Current /\ Life /\ ContractsTypeOK
  BY DEF IInv, Control
<1>1. CASE Outside
  <2>1. UNCHANGED <<cols, records, handed>>
    BY <1>1 DEF Outside, SwitchMirror, AppWrites, Repair
  <2> QED
    BY <1>0, <2>1, LifeFrame DEF records
<1>2. ASSUME UNCHANGED <<schema, records, handed>>
      PROVE  Life'
  BY <1>0, <1>2, LifeFrame DEF schema, records
<1>3. ASSUME NEW p \in Runners, Advance(p) PROVE Life'
  <2>1. ASSUME NEW q \in Plans, Begin(p, q) PROVE Life'
    BY <1>2, <2>1 DEF Begin
  <2>2. CASE Admit(p) \/ Refuse(p) \/ Expanded(p) \/ CleanUpFails(p) \/ Finish(p)
    BY <1>2, <2>2 DEF Admit, Refuse, Expanded, CleanUpFails, Finish, Ends
  <2>3. CASE RunDdl(p)
    BY <1>0, <2>3, LifeFrame DEF RunDdl, schema
  <2>4. ASSUME NEW r \in Renames, Expand(p, r) PROVE Life'
    <3>1. UNCHANGED <<done, contract, handed>> /\ expanded[r] < 3
      BY <2>4 DEF Expand
    <3>2. contract[r] = "none"
      BY <1>0, <3>1 DEF Life
    <3>3. \A s \in Renames : s # r => cols'[s] = cols[s]
      BY <1>0, <2>4, ExpandSteps DEF ContractsTypeOK
    <3>4. \A s \in Renames : expanded[s] = 3 => expanded'[s] = 3
      BY <1>0, <2>4, ExpandSteps
    <3> QED
      BY <1>0, <3>1, <3>2, <3>3, <3>4 DEF Life, Unrecorded, Awaiting, Terminated, SettledAs, Outcomes
  <2>5. CASE Record(p)
    <3> DEFINE r == plan[p].of
    <3>1. pc[p] = "record" /\ UNCHANGED <<cols, expanded, done>>
      BY <2>5 DEF Record, schema
    <3>2. r \in Renames /\ expanded[r] = 3 /\ seen[p] = contract
      BY <1>0, <3>1, PlanOf DEF Control, Given, Recording, Current
    <3>3. CASE contract[r] = "none"
      <4>1. /\ contract' = [contract EXCEPT ![r] = "pending"]
            /\ handed' = handed \cup {r}
        BY <2>5, <3>2, <3>3 DEF Record, Outcomes
      <4> QED
        BY <1>0, <3>1, <3>2, <3>3, <4>1
           DEF ContractsTypeOK, Life, Unrecorded, Awaiting, Terminated, SettledAs, Outcomes
    <3>4. CASE contract[r] # "none"
      <4>1. UNCHANGED contract /\ handed' \in {handed, handed \cup {r}}
        BY <1>0, <2>5, <3>2, <3>4 DEF Record, ContractsTypeOK, Outcomes
      <4> QED
        BY <1>0, <3>1, <3>2, <3>4, <4>1
           DEF Life, Unrecorded, Awaiting, Terminated, SettledAs
    <3> QED
      BY <3>3, <3>4
  <2>6. CASE CleanUp(p)
    <3>1. /\ pc[p] = "run" /\ plan[p] \in Plans
          /\ Settles(plan[p], seen[p]) # "nothing"
      BY <1>0, <2>6 DEF Control, Given, CleanUp
    <3>2. PICK r \in Renames, outcome \in Outcomes :
            /\ r = plan[p].of /\ outcome = Settles(plan[p], seen[p])
            /\ contract[r] = "pending"
      BY <1>0, <3>1, SettlesPending DEF Current
    <3>3. CASE Finished(r, outcome)
      BY <1>0, <2>6, <3>2, <3>3, LifeFrame DEF CleanUp
    <3>4. CASE ~Finished(r, outcome)
      <4>1. /\ cols[r] = Both
            /\ cols' = [cols EXCEPT ![r] = Keeps(outcome)]
            /\ done' = [done EXCEPT ![r] = @ \cup {Step(outcome)}]
            /\ UNCHANGED <<expanded, contract, handed>>
        BY <2>6, <3>2, <3>4 DEF CleanUp, Checked, Both
      <4>2. done[r] = {}
        BY <1>0, <3>2, <4>1 DEF Life, Awaiting, Both
      <4>3. done'[r] = {Step(outcome)} /\ cols'[r] = Keeps(outcome)
        BY <1>0, <3>2, <4>1, <4>2 DEF ContractsTypeOK
      <4>4. Awaiting(r)'
        BY <4>3 DEF Awaiting, Step, Keeps, Outcomes
      <4>5. \A s \in Renames : s # r => done'[s] = done[s] /\ cols'[s] = cols[s]
        BY <1>0, <4>1 DEF ContractsTypeOK
      <4> QED
        BY <1>0, <3>2, <4>1, <4>4, <4>5
           DEF Life, Unrecorded, Awaiting, Terminated, SettledAs, Outcomes
    <3> QED
      BY <3>3, <3>4
  <2>7. CASE Settle(p)
    <3>1. /\ pc[p] = "settle" /\ plan[p] \in Plans
          /\ Settles(plan[p], seen[p]) # "nothing"
          /\ Step(Settles(plan[p], seen[p])) \in done[plan[p].of]
      BY <1>0, <2>7 DEF Control, Given, Settling, Settle
    <3>2. PICK r \in Renames, outcome \in Outcomes :
            /\ r = plan[p].of /\ outcome = Settles(plan[p], seen[p])
            /\ contract[r] = "pending"
      BY <1>0, <3>1, SettlesPending DEF Current
    <3>3. done[r] = {Step(outcome)} /\ cols[r] = Keeps(outcome)
      <4>1. Awaiting(r) /\ Step(outcome) \in done[r]
        BY <1>0, <3>1, <3>2 DEF Life
      <4>2. CASE outcome = "applied"
        BY <4>1, <4>2 DEF Awaiting, Step, Keeps
      <4>3. CASE outcome = "aborted"
        BY <4>1, <4>3 DEF Awaiting, Step, Keeps
      <4> QED
        BY <4>2, <4>3 DEF Outcomes
    <3>4. /\ contract' = [contract EXCEPT ![r] = outcome]
          /\ UNCHANGED <<cols, done, expanded, handed>>
      BY <2>7, <3>2 DEF Settle, schema
    <3>5. contract'[r] = outcome /\ \A s \in Renames : s # r => contract'[s] = contract[s]
      BY <1>0, <3>2, <3>4 DEF ContractsTypeOK
    <3>6. Terminated(r)'
      BY <3>2, <3>3, <3>4, <3>5 DEF Terminated, SettledAs, Step, Keeps, Outcomes, Both
    <3> QED
      BY <1>0, <3>2, <3>4, <3>5, <3>6
         DEF Life, Unrecorded, Awaiting, Terminated, SettledAs, Outcomes
  <2>8. ASSUME NEW r \in Renames, LateContract(p, r) PROVE contract[r] \in Outcomes
    <3>1. pc[p] = "run" /\ plan[p].kind = "contract" /\ plan[p].of = r /\ seen[p][r] # "pending"
      BY <2>8 DEF LateContract, Runs
    <3>2. r \in handed /\ contract[r] # "pending"
      BY <1>0, <3>1 DEF Control, Given, Current
    <3> QED
      BY <1>0, <3>2 DEF ContractsTypeOK, Life, Unrecorded, Outcomes
  <2>9. ASSUME NEW r \in Renames, RunC1(p, r) PROVE Life'
    <3>1. contract[r] \in Outcomes
      BY <2>8, <2>9 DEF RunC1
    <3>2. /\ done' = [done EXCEPT ![r] = @ \cup {"C1"}]
          /\ UNCHANGED <<cols, expanded, contract, handed>>
      BY <2>9 DEF RunC1
    <3>3. /\ done'[r] = done[r] \cup {"C1"}
          /\ \A s \in Renames : s # r => done'[s] = done[s]
      BY <1>0, <3>2 DEF ContractsTypeOK
    <3> QED
      BY <1>0, <3>1, <3>2, <3>3
         DEF Life, Unrecorded, Awaiting, Terminated, SettledAs, Outcomes
  <2>10. ASSUME NEW r \in Renames, RunC2(p, r) PROVE Life'
    <3>1. contract[r] \in Outcomes /\ "from" \in cols[r]
      BY <2>8, <2>10 DEF RunC2
    <3>2. /\ done' = [done EXCEPT ![r] = @ \cup {"C2"}]
          /\ cols' = [cols EXCEPT ![r] = @ \ {"from"}]
          /\ UNCHANGED <<expanded, contract, handed>>
      BY <2>10 DEF RunC2
    <3>3. /\ done'[r] = done[r] \cup {"C2"} /\ cols'[r] = cols[r] \ {"from"}
          /\ \A s \in Renames : s # r => done'[s] = done[s] /\ cols'[s] = cols[s]
      BY <1>0, <3>2 DEF ContractsTypeOK
    <3>4. r \notin Direct
      <4>1. SUFFICES ASSUME r \in Direct PROVE FALSE
        OBVIOUS
      <4>2. contract[r] = "aborted"
        BY <1>0, <3>1, <4>1 DEF Life, Terminated, SettledAs, Outcomes
      <4>3. r \in DependsOn(plan[p]) /\ pc[p] = "run"
        BY <2>10, <4>1 DEF RunC2, LateContract, Runs, DependsOn
      <4> QED
        BY <1>0, <4>2, <4>3 DEF Current, NeedsUnsettled
    <3>5. Terminated(r)'
      BY <1>0, <3>1, <3>3, <3>4 DEF Life, Terminated, Both
    <3> QED
      BY <1>0, <3>1, <3>2, <3>3, <3>5
         DEF Life, Unrecorded, Awaiting, Terminated, SettledAs, Outcomes
  <2>11. ASSUME NEW r \in Renames, ExpandFails(p, r) \/ LateContractEnds(p, r) PROVE Life'
    BY <1>2, <2>11 DEF ExpandFails, LateContractEnds
  <2> QED
    BY <1>3, <2>1, <2>2, <2>3, <2>4, <2>5, <2>6, <2>7, <2>9, <2>10, <2>11 DEF Advance
<1>4. ASSUME NEW p \in Runners, Crash(p) PROVE Life'
  BY <1>2, <1>4 DEF Crash
<1> QED
  BY <1>1, <1>3, <1>4 DEF Next

-----------------------------------------------------------------------------
(* One outstanding rename to a table.                                      *)

LEMMA OutstandingStep ==
  ASSUME IInv, Next
  PROVE  OneOutstanding'
<1>0. Control /\ Current /\ Life /\ ContractsTypeOK /\ OneOutstanding
  BY DEF IInv, Control
<1>1. ASSUME \A r \in Renames : contract'[r] = "pending" => contract[r] = "pending"
      PROVE  OneOutstanding'
  BY <1>0, <1>1 DEF OneOutstanding, Outstanding
<1>2. ASSUME NEW p \in Runners, Record(p) PROVE OneOutstanding'
  <2>1. pc[p] = "record" /\ plan[p] \in Plans /\ plan[p].kind = "rename"
    BY <1>0, <1>2 DEF Record, Control, Given, Recording
  <2>2. PICK r \in Renames : r = plan[p].of
    BY <2>1, PlanOf
  <2>3. ~TouchesPending(plan[p], contract)
    BY <1>0, <2>1 DEF Current
  <2>4. \A s \in Renames : contract[s] = "pending" /\ TableOf[s] = TableOf[r] => s = r
    BY <2>1, <2>2, <2>3 DEF TouchesPending, Exempt, Touched
  <2>5. contract' = contract \/ contract' = [contract EXCEPT ![r] = "pending"]
    BY <1>2, <2>2 DEF Record
  <2> QED
    BY <1>0, <2>4, <2>5 DEF OneOutstanding, Outstanding, ContractsTypeOK
<1>3. ASSUME NEW p \in Runners, Settle(p) PROVE OneOutstanding'
  <2>1. pc[p] = "settle" /\ plan[p] \in Plans /\ Settles(plan[p], seen[p]) # "nothing"
    BY <1>0, <1>3 DEF Control, Given, Settling, Settle
  <2>2. Settles(plan[p], seen[p]) \in Outcomes
    BY <1>0, <2>1, SettlesPending DEF Current
  <2>3. \A r \in Renames : contract'[r] = "pending" => contract[r] = "pending"
    BY <1>0, <1>3, <2>2 DEF Settle, ContractsTypeOK, Outcomes
  <2> QED
    BY <1>1, <2>3
<1>4. CASE UNCHANGED contract
  BY <1>1, <1>4
<1>5. CASE Outside
  BY <1>4, <1>5 DEF Outside, SwitchMirror, AppWrites, Repair, records
<1>6. ASSUME NEW p \in Runners, Crash(p) PROVE OneOutstanding'
  BY <1>4, <1>6 DEF Crash, records
<1>7. ASSUME NEW p \in Runners, Advance(p) PROVE OneOutstanding'
  <2>1. ASSUME NEW q \in Plans, Begin(p, q) PROVE OneOutstanding'
    BY <1>4, <2>1 DEF Begin, records
  <2>2. CASE Admit(p) \/ Refuse(p) \/ RunDdl(p) \/ Expanded(p) \/ CleanUp(p)
             \/ CleanUpFails(p) \/ Finish(p)
    BY <1>4, <2>2 DEF Admit, Refuse, RunDdl, Expanded, CleanUp, CleanUpFails, Finish, records
  <2>3. ASSUME NEW r \in Renames,
               Expand(p, r) \/ ExpandFails(p, r) \/ RunC1(p, r) \/ RunC2(p, r)
                 \/ LateContractEnds(p, r)
        PROVE  OneOutstanding'
    BY <1>4, <2>3 DEF Expand, ExpandFails, RunC1, RunC2, LateContractEnds, records
  <2> QED
    BY <1>2, <1>3, <1>7, <2>1, <2>2, <2>3 DEF Advance
<1> QED
  BY <1>5, <1>6, <1>7 DEF Next

-----------------------------------------------------------------------------
(* The invariant holds.                                                    *)

LEMMA Inductive == Spec => []IInv
<1>1. ASSUME Init PROVE IInv
  <2>1. Control
    BY <1>1 DEF Init, Control, ContractsTypeOK, Exclusive, Given, Recording, Settling
  <2>2. Current /\ Life /\ OneOutstanding
    BY <1>1 DEF Init, Current, Life, Unrecorded, OneOutstanding, Outstanding, Outcomes
  <2> QED
    BY <2>1, <2>2 DEF IInv
<1>2. ASSUME IInv, [Next]_vars PROVE IInv'
  <2>1. CASE Next
    <3>1. Control'
      <4>1. ASSUME NEW p \in Runners, Crash(p) PROVE Control'
        BY <1>2, <4>1, EndsControl DEF IInv, Crash
      <4> QED
        BY <2>1, <1>2, <4>1, RunnerControl, OutsideControl DEF IInv, Next
    <3> QED
      BY <1>2, <2>1, <3>1, CurrentStep, LifeStep, OutstandingStep DEF IInv
  <2>2. CASE UNCHANGED vars
    <3>1. UNCHANGED <<schema, records, handed, local>>
      BY <2>2 DEF vars
    <3>2. Control'
      BY <1>2, <3>1 DEF IInv, Control, ContractsTypeOK, Exclusive, Given, Recording, Settling,
                         schema, records, local, Settles, Step
    <3>3. Current' /\ Life'
      BY <1>2, <3>1, LifeFrame, CurrentFrame DEF IInv, schema, records, local
    <3>4. OneOutstanding'
      BY <1>2, <3>1 DEF IInv, OneOutstanding, Outstanding, records
    <3> QED
      BY <3>2, <3>3, <3>4 DEF IInv
  <2> QED
    BY <1>2, <2>1, <2>2
<1> QED
  BY <1>1, <1>2, PTL DEF Spec

\* Every variable keeps its type, whatever the renames, plans and runners.
THEOREM ContractsTypeCorrect == Spec => []ContractsTypeOK
<1>1. IInv => ContractsTypeOK
  BY DEF IInv, Control
<1> QED
  BY <1>1, Inductive, PTL

\* A table never has two outstanding renames, each refusing the other's resolution.
THEOREM RenamesAlone == Spec => []OneOutstanding
<1>1. IInv => OneOutstanding
  BY DEF IInv
<1> QED
  BY <1>1, Inductive, PTL

\* No rename is cleaned up both ways, and one that was authored directly keeps the column
\* its resolution named, whatever is deployed after it.
THEOREM OutcomeFinal == Spec => []OneOutcome
<1>1. ASSUME IInv PROVE OneOutcome
  <2>1. ASSUME NEW r \in Renames PROVE ~({"apply", "abort"} \subseteq done[r])
    BY <1>1 DEF IInv, Control, ContractsTypeOK, Life, Unrecorded, Awaiting, Terminated, Outcomes
  <2>2. ASSUME NEW r \in Direct PROVE SettledAs(r)
    BY <1>1 DEF IInv, Control, ContractsTypeOK, Life, Terminated, SettledAs, Outcomes
  <2> QED
    BY <2>1, <2>2 DEF OneOutcome
<1> QED
  BY <1>1, Inductive, PTL

\* A cleanup that committed without its terminal row can always be recorded.
THEOREM CleanupRecordable == Spec => []Recordable
<1>1. ASSUME IInv PROVE Recordable
  <2>1. SUFFICES ASSUME NEW r \in Renames, contract[r] = "pending",
                        NEW outcome \in Outcomes, Step(outcome) \in done[r]
                 PROVE  ~Refused([kind |-> outcome, of |-> r], contract)
    BY DEF Recordable, Outstanding
  <2> DEFINE q == [kind |-> outcome, of |-> r]
  <2>2. q.kind = outcome /\ q.of = r /\ outcome \in {"applied", "aborted"}
    BY DEF Outcomes
  <2>3. done[r] = {Step(outcome)}
    <3>1. Awaiting(r)
      BY <1>1, <2>1 DEF IInv, Life
    <3> QED
      BY <2>1, <2>2, <3>1 DEF Awaiting, Step
  <2>4. Resolvable(q, contract)
    BY <2>1, <2>2, <2>3 DEF Resolvable, Started, Opposite, Step
  <2>5. ~TouchesPending(q, contract)
    BY <1>1, <2>1, <2>2 DEF IInv, OneOutstanding, Outstanding, TouchesPending, Touched, Exempt
  <2>6. ~NeedsUnsettled(q, contract)
    BY <2>2 DEF NeedsUnsettled, DependsOn
  <2>7. Settles(q, contract) = outcome /\ Finished(r, outcome)
    BY <2>1, <2>2 DEF Settles, Finished, Outcomes
  <2> QED
    BY <2>2, <2>4, <2>5, <2>6, <2>7 DEF Refused
<1> QED
  BY <1>1, Inductive, PTL

-----------------------------------------------------------------------------
(* What a step may never do.                                               *)

\* Only RunDdl lands a plan, and one that its gates admit.
LEMMA Landing ==
  ASSUME IInv, Next, NEW d \in landed' \ landed
  PROVE  /\ d \in Ddls
         /\ \A r \in Outstanding : TableOf[r] \notin Touches[d] /\ Unknown \notin Touches[d]
         /\ \A r \in Needs[d] : contract[r] \notin {"pending", "aborted"}
<1>0. Control /\ Current /\ ContractsTypeOK
  BY DEF IInv, Control
<1>1. PICK p \in Runners : RunDdl(p)
  <2>1. landed' # landed
    OBVIOUS
  <2>2. PICK p \in Runners : Advance(p) \/ Crash(p)
    BY <2>1 DEF Next, Outside, SwitchMirror, AppWrites, Repair, records
  <2>3. CASE RunDdl(p)
    BY <2>3
  <2>4. CASE ~RunDdl(p)
    BY <2>1, <2>2, <2>4
       DEF Advance, Begin, Admit, Refuse, Expand, ExpandFails, Expanded, Record, CleanUp,
           CleanUpFails, Settle, RunC1, RunC2, LateContractEnds, Finish, Crash, records
  <2> QED
    BY <2>3, <2>4
<1>2. pc[p] = "run" /\ plan[p] \in Plans /\ plan[p].kind = "ddl" /\ d = plan[p].of
  BY <1>0, <1>1 DEF RunDdl, Runs, Control, Given
<1>3. d \in Ddls /\ Touched(plan[p]) = Touches[d] /\ DependsOn(plan[p]) = Needs[d]
  BY <1>2, PlanOf DEF Touched, DependsOn
<1>4. ~TouchesPending(plan[p], contract) /\ ~NeedsUnsettled(plan[p], contract)
  BY <1>0, <1>2 DEF Current
<1>5. \A r \in Outstanding : TableOf[r] \notin Touches[d] /\ Unknown \notin Touches[d]
  BY <1>2, <1>3, <1>4 DEF TouchesPending, Exempt, Outstanding
<1>6. \A r \in Needs[d] : contract[r] \notin {"pending", "aborted"}
  BY <1>2, <1>3, <1>4 DEF NeedsUnsettled, Exempt
<1> QED
  BY <1>3, <1>5, <1>6

\* No plan runs over a table whose rename is outstanding.
THEOREM TablesGuarded == Spec => Interlock
<1>1. IInv /\ [Next]_vars =>
        \A d \in landed' \ landed, r \in Outstanding :
          TableOf[r] \notin Touches[d] /\ Unknown \notin Touches[d]
  <2>1. ASSUME UNCHANGED vars PROVE landed' = landed
    BY <2>1 DEF vars, records
  <2> QED
    BY <2>1, Landing
<1> QED
  BY <1>1, Inductive, PTL DEF Spec, Interlock

\* A plan waits for the renames it depends on, and never follows an aborted one.
THEOREM DependentsHeld == Spec => DependentsWait
<1>1. IInv /\ [Next]_vars =>
        \A d \in landed' \ landed :
          \A r \in Needs[d] : contract[r] \notin {"pending", "aborted"}
  <2>1. ASSUME UNCHANGED vars PROVE landed' = landed
    BY <2>1 DEF vars, records
  <2> QED
    BY <2>1, Landing
<1> QED
  BY <1>1, Inductive, PTL DEF Spec, DependentsWait

\* A column goes only while the other one holds its values.
THEOREM ValuesSafe == Spec => NothingLost
<1>1. ASSUME IInv, [Next]_vars, NEW r \in Renames, cols[r] = {"from", "to"}, cols'[r] # cols[r]
      PROVE  values[r] = "same"
  <2>0. Control /\ Current /\ Life /\ ContractsTypeOK
    BY <1>1 DEF IInv, Control
  <2>1. cols' # cols
    BY <1>1
  <2>2. PICK p \in Runners : Advance(p)
    BY <1>1, <2>1 DEF Next, vars, schema, Crash, Outside, SwitchMirror, AppWrites, Repair
  <2>3. CASE CleanUp(p)
    <3>1. /\ cols' = [cols EXCEPT ![plan[p].of] = Keeps(Settles(plan[p], seen[p]))]
          /\ Checked(plan[p].of)
      BY <2>1, <2>3 DEF CleanUp
    <3>2. r = plan[p].of
      BY <1>1, <2>0, <3>1 DEF ContractsTypeOK
    <3> QED
      BY <3>1, <3>2 DEF Checked
  <2>4. ASSUME NEW s \in Renames, Expand(p, s) PROVE cols'[r] = cols[r]
    <3>1. UNCHANGED cols \/ cols' = [cols EXCEPT ![s] = Both]
      BY <2>0, <2>4, ExpandSteps
    <3> QED
      BY <1>1, <2>0, <3>1 DEF ContractsTypeOK, Both
  <2>5. ASSUME NEW s \in Renames, RunC2(p, s) PROVE cols'[r] = cols[r]
    <3>1. pc[p] = "run" /\ plan[p].kind = "contract" /\ plan[p].of = s /\ seen[p][s] # "pending"
      BY <2>5 DEF RunC2, LateContract, Runs
    <3>2. contract[s] \in Outcomes
      BY <2>0, <3>1 DEF Control, Given, Current, ContractsTypeOK, Life, Unrecorded, Outcomes
    <3>3. cols[s] # Both
      BY <2>0, <3>2 DEF Life, Terminated
    <3> QED
      BY <1>1, <2>0, <2>5, <3>3 DEF RunC2, ContractsTypeOK, Both
  <2>6. CASE ~CleanUp(p) /\ \A s \in Renames : ~Expand(p, s) /\ ~RunC2(p, s)
    BY <2>1, <2>2, <2>6
       DEF Advance, Begin, Admit, Refuse, RunDdl, ExpandFails, Expanded, Record,
           CleanUpFails, Settle, RunC1, LateContractEnds, Finish, schema
  <2> QED
    BY <1>1, <2>3, <2>4, <2>5, <2>6
<1>2. IInv /\ [Next]_vars =>
        \A r \in Renames : cols[r] = {"from", "to"} /\ cols'[r] # cols[r] => values[r] = "same"
  BY <1>1
<1> QED
  BY <1>2, Inductive, PTL DEF Spec, NothingLost
=============================================================================
