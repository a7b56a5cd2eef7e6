---------------------------- MODULE MCOperations ----------------------------
(***************************************************************************)
(* Instances of Rollback and Operations for TLC.                           *)
(***************************************************************************)
EXTENDS Operations, MCDeploy

Reversible(m) == [m EXCEPT !.down = "txn"]

\* On PostgreSQL: a table; a column of it that was written before the table's file and is
\* edited later; a CONCURRENTLY index on the column, behind an existence guard,
\* irreversible, edited with it and with a precondition that an interrupted build can
\* break; a step that must not be replayed; a view on the column that is redefined.
RbTable == Reversible(Body(2, "a", {}))
RbColumn(c) == Reversible(Body(1, c, {2}))
RbIndex(c) == [NonTxn(3, c, {1}, TRUE) EXCEPT !.verdicts = {"met", "skip"}, !.guarded = TRUE]
RbOnce == NonTxn(4, "a", {}, FALSE)
RbView(c) == Repeatable(5, c, {1})
RbFirst == {RbTable, RbColumn("a"), RbIndex("a"), RbOnce}
RbSecond == {RbTable, RbColumn("b"), RbIndex("b"), RbView("a")}
RbManifests == {RbFirst, RbSecond, {RbTable, RbColumn("a"), RbIndex("b"), RbView("b")}}
RbCatalog == UNION RbManifests
Ask(ms, target, force) ==
  [supplied |-> ms, target |-> target, force |-> force, approved |-> TRUE]
RbRequests ==
  {Ask(ms, <<"all">>, force) : ms \in {RbFirst, RbSecond}, force \in BOOLEAN}
  \cup {Ask(RbFirst, target, TRUE) : target \in {<<"steps", 1>>, <<"to", 2>>}}
  \cup {[Ask(RbFirst, <<"all">>, TRUE) EXCEPT !.approved = FALSE]}

\* On MySQL: a table whose precondition an interrupted `up` of it can break, a column of
\* it that is edited before it has landed, an irreversible step behind an existence
\* guard that needs an approval, and a routine.
OpTable == [Reversible(Body(1, "a", {})) EXCEPT !.verdicts = {"met", "skip", "halt"}]
OpColumn(c) == Reversible(Body(2, c, {1}))
OpRoutine(c) == [Repeatable(4, c, {2}) EXCEPT !.verdicts = {"met", "skip"}]
OpGuarded == [Body(3, "a", {}) EXCEPT !.guarded = TRUE, !.gated = TRUE]
OpFirst == {OpTable, OpColumn("a"), OpGuarded, OpRoutine("a")}
OpSecond == {OpTable, OpColumn("b"), OpRoutine("b")}
OpCatalog == OpFirst \cup OpSecond
OpManifests == {OpFirst, OpSecond}
OpRequests ==
  {Ask(ms, target, TRUE) : ms \in OpManifests, target \in {<<"all">>, <<"to", 1>>}}

\* 1 and 2, a fifth step written against 2, an irreversible squash of 1 and 2 and a wider
\* one of all three; deploys are handed them in any mixture.
SoFirst == Reversible(SqFirst)
SoSecond == Reversible(SqSecond)
SoAfter == Reversible(SqAfter)
SoHistory == {SoFirst, SoSecond}
SoCatalog == SoHistory \cup {SqSquash, SoAfter, SqWider}
SoManifests ==
  {SoHistory, SoHistory \cup {SoAfter}, {SqSquash}, {SqSquash, SoAfter},
   SoCatalog \ {SqWider}, {SqWider}, {SqSquash, SqWider}, {SoFirst, SqWider}}
SoRequests == {Ask(SoCatalog, target, TRUE) : target \in {<<"all">>, <<"to", 1>>}}

SoAdoptable == {SoFirst}
NothingToAdopt == {}

SomeGrants == {{}, {3}}
UndoOnly == {"undo"}

\* The catalogs of the runs are of the kind the theorems are about.
ASSUME TidyAssumption == TidyCatalog /\ SquashesStay /\ HalfDownsUndone
ASSUME PlainAssumption ==
  Catalog = RbCatalog => PlainCatalog /\ RoutinesUnmarked /\ BaselinesUnmarked
=============================================================================
