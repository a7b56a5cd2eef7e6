----------------------------- MODULE MCBackfill -----------------------------
(***************************************************************************)
(* Instances of Backfill for TLC.                                          *)
(***************************************************************************)
EXTENDS Backfill, TLC

Step(backend, filtered, perRow, guarded) ==
  [backend |-> backend, filtered |-> filtered, perRow |-> perRow, guarded |-> guarded,
   rename |-> FALSE]
Rename == [Step("postgres", TRUE, FALSE, TRUE) EXCEPT !.rename = TRUE]

\* Every way a step is run, with and without a filter and a guard.
AllSpecs ==
  {Rename, Step("postgres", FALSE, FALSE, TRUE), Step("postgres", TRUE, FALSE, FALSE),
   Step("postgres", TRUE, TRUE, TRUE), Step("mysql", FALSE, FALSE, TRUE),
   Step("mysql", TRUE, FALSE, FALSE), Step("sqlite", TRUE, TRUE, TRUE)}
OnlyRename == {Rename}
OnlyGuarded == {Step("postgres", FALSE, FALSE, TRUE)}

EitherValue == Permutations(Values)
=============================================================================
