SPECIFICATION Spec
CONSTANTS
  p1 = p1
  p2 = p2
  r1 = r1
  r2 = r2
  users = users
  orders = orders
  depends = depends
  onTable = onTable
  unnamed = unnamed
  Runners <- TwoRunners
  NoRunner = NoRunner
  Renames = {r1, r2}
  Ddls = {depends, onTable, unnamed}
  Tables = {users, orders}
  Unknown = Unknown
  NoPlan = NoPlan
  TableOf <- OneTable
  Touches <- Reach
  Needs <- Dependencies
  Direct = {}
INVARIANT Terminal
