------------------------------ MODULE MCDeploy ------------------------------
(***************************************************************************)
(* Instances of Deploy for TLC: one catalog of migrations per question.    *)
(***************************************************************************)
EXTENDS Deploy, TLC

\* An ordinary additive, transactional migration.
Plain(v, c) ==
  [version |-> v, checksum |-> c, deps |-> {}, supersedes |-> {}, phase |-> "none",
   repeatable |-> FALSE, txn |-> TRUE, gated |-> FALSE, clean |-> TRUE,
   replayable |-> FALSE, guarded |-> FALSE, verdicts |-> {"met"}, down |-> "none"]

Body(v, c, deps) == [Plain(v, c) EXCEPT !.deps = deps]
NonTxn(v, c, deps, replayable) ==
  [Plain(v, c) EXCEPT !.deps = deps, !.txn = FALSE, !.replayable = replayable]
Repeatable(v, c, deps) == [Plain(v, c) EXCEPT !.deps = deps, !.repeatable = TRUE]

\* Two sets whose every `up` may be replayed, handed in over and over in any order: a
\* table with a view, and an index built CONCURRENTLY that needs the table (the set is
\* refused before it) and that the view needs (the view is refused before it).
LiveTable == {Body(2, "a", {}), Repeatable(4, "a", {3})}
LiveIndex == {NonTxn(3, "a", {2}, TRUE)}
LiveManifests == {LiveTable, LiveIndex}
LiveCatalog == LiveTable \cup LiveIndex

\* History 1, 2 collapsed into the squash 3; 5 was written against 2 before that; a squash
\* of all three.
SqFirst == Body(1, "a", {})
SqSecond == Body(2, "a", {1})
SqAfter == Body(5, "a", {2})
Squash(v, c, old) == [Plain(v, c) EXCEPT !.supersedes = old]
SqSquash == Squash(3, "a", {1, 2})
SqWider == Squash(4, "a", {1, 2, 5})
\* A database where 1 and 2 never ran, handed the squash of both together with 3, which
\* was written against 2 and has a lower version than the squash.
FrCatalog == {SqFirst, SqSecond, Body(3, "a", {2}), Squash(4, "a", {1, 2})}
FrManifests == {FrCatalog}

\* A stored routine deployed as "a", then as "b", then as "a" again.
RtCatalog == {Repeatable(4, "a", {}), Repeatable(4, "b", {})}
RtManifests == {{m} : m \in RtCatalog}

Symmetric == Permutations(Deployers)
NoGrant == {{}}
=============================================================================
