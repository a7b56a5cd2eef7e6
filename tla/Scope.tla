------------------------------- MODULE Scope -------------------------------
(***************************************************************************)
(* The scopes of policy rules and their lattice: a scope is nothing, every *)
(* object, or a union of patterns less a union of patterns.                *)
(*                                                                         *)
(* A pattern is the set of objects it matches.  The globs themselves are   *)
(* not modelled: of their algebra the scopes use the intersection, a set   *)
(* of patterns that together match what both match, and the cover, which   *)
(* is inclusion.                                                           *)
(***************************************************************************)
CONSTANTS
  Objects,      \* schemas and tables
  Patterns      \* what a pattern can match

\* intersect_pattern keeps the patterns that no other one subsumes.
Intersection(p, q) ==
  {r \in Patterns :
     /\ r \subseteq p \cap q
     /\ \A t \in Patterns : r \subseteq t /\ t \subseteq p \cap q => t = r}

\* No pattern is empty, `*.*` is one, and intersections are exact.
ASSUME PatternsAssumption ==
  /\ Patterns \subseteq (SUBSET Objects) \ {{}}
  /\ Objects \in Patterns
  /\ \A p, q \in Patterns : UNION Intersection(p, q) = p \cap q

Nothing == [kind |-> "nothing", include |-> {}, exclude |-> {}]
All == [kind |-> "all", include |-> {}, exclude |-> {}]
Of(include, exclude) == [kind |-> "of", include |-> include, exclude |-> exclude]
ProperScopes == {Of(i, e) : i \in (SUBSET Patterns) \ {{}}, e \in SUBSET Patterns}
Scopes == {Nothing, All} \cup ProperScopes

\* A difference that has no scope to stand for it.
NotRepresentable == [kind |-> "none", include |-> {}, exclude |-> {}]

\* The objects a scope matches; an exclude wins.
Members(s) ==
  IF s = All THEN Objects ELSE (UNION s.include) \ (UNION s.exclude)

Disjoint(p, q) == Intersection(p, q) = {}

\* Includes that an exclude covers go, then excludes that meet no include.
Normalize(include, exclude) ==
  LET live == {p \in include : ~\E x \in exclude : p \subseteq x} IN
  IF live = {} THEN Nothing
  ELSE Of(live, {x \in exclude : \E p \in live : ~Disjoint(p, x)})

Meets(ps, qs) == UNION {Intersection(p, q) : p \in ps, q \in qs}

DenotesUniverse(s) == s = All \/ (Objects \in s.include /\ s.exclude = {})

\* Each include of s lies in one include of t and in no exclude of t that s does not
\* carve out as well: a sufficient test of inclusion.
CoveredAndClear(p, s, t) ==
  \/ \E x \in s.exclude : p \subseteq x
  \/ /\ \E q \in t.include : p \subseteq q
     /\ \A x \in t.exclude : \A r \in Intersection(p, x) : \E y \in s.exclude : r \subseteq y

Subset(s, t) ==
  \/ s = Nothing \/ t = All
  \/ s = All /\ DenotesUniverse(t)
  \/ /\ s.kind = "of" /\ t.kind = "of"
     /\ \A p \in s.include : CoveredAndClear(p, s, t)

Meet(s, t) ==
  CASE s = Nothing \/ t = Nothing -> Nothing
    [] s = All -> t
    [] t = All -> s
    [] OTHER -> Normalize(Meets(s.include, t.include), s.exclude \cup t.exclude)

\* Only what both exclude stays excluded, and of that only what no include meets.
Join(s, t) ==
  CASE s = All \/ t = All -> All
    [] s = Nothing -> t
    [] t = Nothing -> s
    [] OTHER ->
         LET include == s.include \cup t.include IN
         Normalize(include,
           {x \in Meets(s.exclude, t.exclude) : \A p \in include : Disjoint(p, x)})

\* What t includes is carved out of s, and the holes of t are put back.
Difference(s, t) ==
  CASE t = All \/ s = Nothing -> Nothing
    [] t = Nothing -> s
    [] s = All -> NotRepresentable
    [] OTHER ->
         Join(Normalize(s.include, s.exclude \cup t.include),
              IF t.exclude = {} THEN Nothing ELSE Meet(s, Normalize(t.exclude, {})))
=============================================================================
