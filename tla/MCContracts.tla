----------------------------- MODULE MCContracts -----------------------------
(***************************************************************************)
(* Two renames of one table, a plan that depends on the first and touches  *)
(* another table, one on the table, and one whose table nobody can name.   *)
(***************************************************************************)
EXTENDS Contracts, TLC

CONSTANTS p1, p2, r1, r2, users, orders, depends, onTable, unnamed

TwoRunners == {p1, p2}
OneTable == (r1 :> users) @@ (r2 :> users)
Reach == (depends :> {orders}) @@ (onTable :> {users}) @@ (unnamed :> {Unknown})
Dependencies == (depends :> {r1}) @@ (onTable :> {}) @@ (unnamed :> {})
RunnerSymmetry == Permutations(TwoRunners)
=============================================================================
