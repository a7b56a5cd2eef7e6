------------------------------ MODULE MCPolicy ------------------------------
(***************************************************************************)
(* An instance of Policy for TLC: two tables of one schema and one of      *)
(* another, a knob that layers inherit and one that they do not.           *)
(***************************************************************************)
EXTENDS Policy

Schema == {"a.x", "a.y"}
Tables == Schema \cup {"b.z"}
Globs == {{t} : t \in Tables} \cup {Schema, Tables}

Over(p) == Of({p}, {})
X == Over({"a.x"})
A == Over(Schema)
AButX == Of({Schema}, {{"a.x"}})
B == Over({"b.z"})

Rule(scope, value) == [scope |-> scope, value |-> value]
Doc(create, alter, injects) ==
  [grants |-> [k \in {"create", "alter"} |-> IF k = "create" THEN create ELSE alter],
   injects |-> injects]
Column(scope, shape, mandatory) ==
  [scope |-> scope, column |-> "c", shape |-> shape, mandatory |-> mandatory]

\* Roots that grant everywhere, in overlapping rules and around a hole, with and without
\* the other knob; injecting nothing, a mandatory column, and a column in two shapes.
RootGrants ==
  {{Rule(All, {1, 2})}, {Rule(A, {1}), Rule(X, {2})}, {Rule(All, {1}), Rule(A, {1, 2})},
   {Rule(Over(Tables), {1})}, {Rule(AButX, {1}), Rule(B, {1, 2})}}
RootInjects ==
  {{}, {Column(All, "c", TRUE)}, {Column(A, "c", TRUE)},
   {Column(AButX, "c", FALSE), Column(X, "other", FALSE)},
   {Column(A, "c", FALSE), Column(X, "other", FALSE)}}
SomeRoots ==
  {Doc(g, alter, inj) : g \in RootGrants, alter \in {{}, {Rule(All, {1})}}, inj \in RootInjects}

\* Layers that mask, narrow, ask again for what was masked, and ask for too much.
DraftGrants ==
  {{Rule(A, {})}, {Rule(X, {})}, {Rule(A, {1})}, {Rule(X, {2})}, {Rule(X, {1, 2})},
   {Rule(All, {1})}, {Rule(AButX, {1})}, {Rule(A, {1}), Rule(X, {})},
   {Rule(AButX, {}), Rule(B, {})}}
SomeDrafts ==
  {Doc(g, {}, {}) : g \in DraftGrants}
  \cup {Doc({}, {Rule(scope, {1})}, {}) : scope \in {A, All}}
  \cup {Doc({}, {}, inj) : inj \in {{}, {Column(A, "other", FALSE)},
                                   {Column(B, "c", FALSE), Column(B, "other", FALSE)}}}

Tightest == [k \in {"create", "alter"} |-> {}]
=============================================================================
