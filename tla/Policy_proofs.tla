--------------------------- MODULE Policy_proofs ---------------------------
(***************************************************************************)
(* What holds of the lattice of scopes and of every composition of         *)
(* policies, for every set of objects, patterns, knobs and documents.      *)
(***************************************************************************)
EXTENDS Policy, TLAPS

-----------------------------------------------------------------------------
(* Scopes: which operations are exact, and which err on what side.         *)

LEMMA ScopeShape ==
  ASSUME NEW s \in Scopes
  PROVE  /\ s = Nothing \/ s = All \/ s.kind = "of"
         /\ s.include \subseteq Patterns /\ s.exclude \subseteq Patterns
         /\ s.kind = "of" => s # All /\ s # Nothing
BY DEF Scopes, ProperScopes, Nothing, All, Of

LEMMA OfIsScope ==
  ASSUME NEW i \in (SUBSET Patterns) \ {{}}, NEW e \in SUBSET Patterns
  PROVE  Of(i, e) \in Scopes
BY DEF Scopes, ProperScopes

LEMMA Extremes == Nothing \in Scopes /\ All \in Scopes /\ Nothing # All
BY DEF Scopes, Nothing, All

LEMMA OfMembers ==
  ASSUME NEW i, NEW e
  PROVE  Members(Of(i, e)) = (UNION i) \ (UNION e)
BY DEF Members, Of, All

LEMMA NothingMembers == Members(Nothing) = {}
BY DEF Members, Nothing, All

LEMMA AllMembers == Members(All) = Objects
BY DEF Members

LEMMA MembersAreObjects ==
  ASSUME NEW s \in Scopes
  PROVE  Members(s) \subseteq Objects
BY PatternsAssumption, ScopeShape DEF Members

LEMMA IntersectionExact ==
  ASSUME NEW p \in Patterns, NEW q \in Patterns
  PROVE  /\ Intersection(p, q) \subseteq Patterns
         /\ UNION Intersection(p, q) = p \cap q
         /\ Disjoint(p, q) => p \cap q = {}
<1>1. Intersection(p, q) \subseteq Patterns
  BY DEF Intersection
<1>2. UNION Intersection(p, q) = p \cap q
  BY PatternsAssumption
<1>3. Disjoint(p, q) => p \cap q = {}
  BY <1>2 DEF Disjoint
<1> QED
  BY <1>1, <1>2, <1>3

LEMMA MeetsExact ==
  ASSUME NEW ps \in SUBSET Patterns, NEW qs \in SUBSET Patterns
  PROVE  /\ Meets(ps, qs) \subseteq Patterns
         /\ (UNION Meets(ps, qs)) = (UNION ps) \cap (UNION qs)
<1>1. Meets(ps, qs) \subseteq Patterns
  BY IntersectionExact DEF Meets
<1>2. ASSUME NEW o \in UNION Meets(ps, qs)
      PROVE  o \in (UNION ps) \cap (UNION qs)
  <2>1. PICK p \in ps, q \in qs : o \in UNION Intersection(p, q)
    BY <1>2 DEF Meets
  <2> QED
    BY <2>1, IntersectionExact
<1>3. ASSUME NEW o \in (UNION ps) \cap (UNION qs)
      PROVE  o \in UNION Meets(ps, qs)
  <2>1. PICK p \in ps, q \in qs : o \in p /\ o \in q
    BY <1>3
  <2>2. o \in UNION Intersection(p, q)
    BY <2>1, IntersectionExact
  <2> QED
    BY <2>2 DEF Meets
<1> QED
  BY <1>1, <1>2, <1>3

\* Normalisation drops only what matches nothing.
LEMMA NormalizeExact ==
  ASSUME NEW i \in SUBSET Patterns, NEW e \in SUBSET Patterns
  PROVE  /\ Normalize(i, e) \in Scopes
         /\ Members(Normalize(i, e)) = (UNION i) \ (UNION e)
<1> DEFINE live == {p \in i : ~\E x \in e : p \subseteq x}
           kept == {x \in e : \E p \in live : ~Disjoint(p, x)}
<1>1. (UNION i) \ (UNION e) \subseteq UNION live
  OBVIOUS
<1>2. (UNION live) \ (UNION kept) = (UNION i) \ (UNION e)
  <2>1. ASSUME NEW o \in (UNION live) \ (UNION kept)
        PROVE  o \in (UNION i) \ (UNION e)
    <3>1. PICK p \in live : o \in p
      BY <2>1
    <3>2. ASSUME NEW x \in e, o \in x
          PROVE  FALSE
      <4>1. ~Disjoint(p, x)
        BY <3>1, <3>2, IntersectionExact
      <4> QED
        BY <4>1, <3>2, <2>1, <3>1
    <3> QED
      BY <3>1, <3>2
  <2> QED
    BY <2>1, <1>1
<1>3. CASE live = {}
  BY <1>3, <1>1, NothingMembers, Extremes DEF Normalize
<1>4. CASE live # {}
  <2>1. Normalize(i, e) = Of(live, kept)
    BY <1>4 DEF Normalize
  <2>2. live \in (SUBSET Patterns) \ {{}} /\ kept \in SUBSET Patterns
    BY <1>4
  <2>3. Of(live, kept) \in Scopes
    BY <2>2, OfIsScope
  <2> QED
    BY <2>1, <2>3, <1>2, OfMembers
<1> QED
  BY <1>3, <1>4

\* The meet is exact.
LEMMA MeetExact ==
  ASSUME NEW s \in Scopes, NEW t \in Scopes
  PROVE  /\ Meet(s, t) \in Scopes
         /\ Members(Meet(s, t)) = Members(s) \cap Members(t)
<1>1. CASE s = Nothing \/ t = Nothing
  BY <1>1, NothingMembers, Extremes DEF Meet
<1>2. CASE s # Nothing /\ t # Nothing /\ (s = All \/ t = All)
  BY <1>2, AllMembers, MembersAreObjects DEF Meet
<1>3. CASE s # Nothing /\ t # Nothing /\ s # All /\ t # All
  <2>1. /\ s.include \subseteq Patterns /\ t.include \subseteq Patterns
        /\ s.exclude \cup t.exclude \subseteq Patterns
    BY ScopeShape
  <2>2. Meet(s, t) = Normalize(Meets(s.include, t.include), s.exclude \cup t.exclude)
    BY <1>3 DEF Meet
  <2>3. /\ Meets(s.include, t.include) \subseteq Patterns
        /\ UNION Meets(s.include, t.include) = (UNION s.include) \cap (UNION t.include)
    BY <2>1, MeetsExact
  <2>4. Members(s) = (UNION s.include) \ (UNION s.exclude)
    BY <1>3 DEF Members
  <2>5. Members(t) = (UNION t.include) \ (UNION t.exclude)
    BY <1>3 DEF Members
  <2> DEFINE include == Meets(s.include, t.include)
             exclude == s.exclude \cup t.exclude
  <2>a. include \in SUBSET Patterns /\ exclude \in SUBSET Patterns
    BY <2>1, <2>3
  <2> HIDE DEF include, exclude
  <2>b. /\ Normalize(include, exclude) \in Scopes
        /\ Members(Normalize(include, exclude)) = (UNION include) \ (UNION exclude)
    BY <2>a, NormalizeExact
  <2>6. /\ Meet(s, t) \in Scopes
        /\ Members(Meet(s, t)) =
             (UNION Meets(s.include, t.include)) \ UNION (s.exclude \cup t.exclude)
    BY <2>2, <2>b DEF include, exclude
  <2> QED
    BY <2>3, <2>4, <2>5, <2>6
<1> QED
  BY <1>1, <1>2, <1>3

\* The join errs upwards.
LEMMA JoinCovers ==
  ASSUME NEW s \in Scopes, NEW t \in Scopes
  PROVE  /\ Join(s, t) \in Scopes
         /\ Members(s) \cup Members(t) \subseteq Members(Join(s, t))
<1>1. CASE s = All \/ t = All
  <2>1. Join(s, t) = All
    BY <1>1, Extremes DEF Join
  <2> QED
    BY <2>1, AllMembers, MembersAreObjects, Extremes
<1>2. CASE s # All /\ t # All /\ (s = Nothing \/ t = Nothing)
  BY <1>2, NothingMembers DEF Join
<1>3. CASE s # Nothing /\ t # Nothing /\ s # All /\ t # All
  <2> DEFINE include == s.include \cup t.include
             exclude == {x \in Meets(s.exclude, t.exclude) : \A p \in include : Disjoint(p, x)}
  <2>1. /\ s.include \subseteq Patterns /\ t.include \subseteq Patterns
        /\ s.exclude \subseteq Patterns /\ t.exclude \subseteq Patterns
    BY ScopeShape
  <2>2. Join(s, t) = Normalize(include, exclude)
    BY <1>3 DEF Join
  <2>3. include \subseteq Patterns /\ exclude \subseteq Patterns
    BY <2>1, MeetsExact
  <2>4. /\ Join(s, t) \in Scopes
        /\ Members(Join(s, t)) = (UNION include) \ (UNION exclude)
    BY <2>2, <2>3, NormalizeExact
  <2>5. ASSUME NEW o \in UNION include, o \in UNION exclude
        PROVE  FALSE
    <3>1. PICK p \in include, x \in exclude : o \in p /\ o \in x
      BY <2>5
    <3>2. Disjoint(p, x)
      BY <3>1
    <3> QED
      BY <3>1, <3>2, <2>3, IntersectionExact
  <2>6. Members(s) \cup Members(t) \subseteq UNION include
    BY <1>3 DEF Members
  <2> QED
    BY <2>4, <2>5, <2>6
<1> QED
  BY <1>1, <1>2, <1>3
\* The difference errs upwards, or has no scope.
LEMMA DifferenceCovers ==
  ASSUME NEW s \in Scopes, NEW t \in Scopes, Difference(s, t) # NotRepresentable
  PROVE  /\ Difference(s, t) \in Scopes
         /\ Members(s) \ Members(t) \subseteq Members(Difference(s, t))
<1>1. CASE t = All \/ s = Nothing
  <2>1. Difference(s, t) = Nothing
    BY <1>1, Extremes DEF Difference
  <2> QED
    BY <2>1, <1>1, AllMembers, NothingMembers, MembersAreObjects, Extremes
<1>2. CASE t = Nothing
  <2>1. Difference(s, t) = s
    BY <1>2, Extremes DEF Difference
  <2> QED
    BY <2>1
<1>3. CASE t # All /\ t # Nothing /\ s = All
  BY <1>3, Extremes DEF Difference
<1>4. CASE s # Nothing /\ t # Nothing /\ s # All /\ t # All
  <2> DEFINE exclude == s.exclude \cup t.include
             outside == Normalize(s.include, exclude)
             holes == Normalize(t.exclude, {})
             inside == IF t.exclude = {} THEN Nothing ELSE Meet(s, holes)
  <2>1. Difference(s, t) = Join(outside, inside)
    BY <1>4 DEF Difference
  <2>2. /\ s.include \in SUBSET Patterns /\ exclude \in SUBSET Patterns
        /\ t.exclude \in SUBSET Patterns
    BY ScopeShape
  <2>3. /\ Members(s) = (UNION s.include) \ (UNION s.exclude)
        /\ Members(t) = (UNION t.include) \ (UNION t.exclude)
    BY <1>4 DEF Members
  <2>4. UNION exclude = (UNION s.exclude) \cup (UNION t.include)
    OBVIOUS
  <2> HIDE DEF exclude
  <2>5. /\ outside \in Scopes
        /\ Members(outside) = (UNION s.include) \ (UNION exclude)
    BY <2>2, NormalizeExact
  <2>6. holes \in Scopes /\ Members(holes) = UNION t.exclude
    <3>1. {} \in SUBSET Patterns /\ UNION {} = {}
      OBVIOUS
    <3>2. /\ holes \in Scopes
          /\ Members(holes) = (UNION t.exclude) \ (UNION {})
      BY <3>1, <2>2, NormalizeExact
    <3> QED
      BY <3>1, <3>2
  <2> HIDE DEF outside, holes
  <2>7. inside \in Scopes /\ Members(s) \cap UNION t.exclude \subseteq Members(inside)
    BY <2>6, MeetExact, Extremes
  <2> HIDE DEF inside
  <2>8. Join(outside, inside) \in Scopes
    BY <2>5, <2>7, JoinCovers
  <2>9. Members(outside) \cup Members(inside) \subseteq Members(Join(outside, inside))
    BY <2>5, <2>7, JoinCovers
  <2> QED
    BY <2>1, <2>3, <2>4, <2>5, <2>7, <2>8, <2>9
<1> QED
  BY <1>1, <1>2, <1>3, <1>4

\* The test of inclusion is sound.
LEMMA SubsetSound ==
  ASSUME NEW s \in Scopes, NEW t \in Scopes, Subset(s, t)
  PROVE  Members(s) \subseteq Members(t)
<1>1. CASE s = Nothing \/ t = All
  BY <1>1, NothingMembers, AllMembers, MembersAreObjects
<1>2. CASE s = All /\ DenotesUniverse(t)
  BY <1>2, AllMembers DEF DenotesUniverse, Members
<1>3. CASE /\ s.kind = "of" /\ t.kind = "of"
           /\ \A p \in s.include : CoveredAndClear(p, s, t)
  <2>1. /\ Members(s) = (UNION s.include) \ (UNION s.exclude)
        /\ Members(t) = (UNION t.include) \ (UNION t.exclude)
    BY <1>3, ScopeShape DEF Members
  <2>2. ASSUME NEW p \in s.include, NEW o \in p, o \notin UNION s.exclude
        PROVE  o \in (UNION t.include) \ (UNION t.exclude)
    <3>1. /\ \E q \in t.include : p \subseteq q
          /\ \A x \in t.exclude : \A r \in Intersection(p, x) : \E y \in s.exclude : r \subseteq y
      BY <1>3, <2>2 DEF CoveredAndClear
    <3>2. ASSUME NEW x \in t.exclude, o \in x
          PROVE  FALSE
      <4>1. p \in Patterns /\ x \in Patterns
        BY ScopeShape
      <4>2. PICK r \in Intersection(p, x) : o \in r
        BY <4>1, <3>2, IntersectionExact
      <4> QED
        BY <4>2, <3>1, <2>2
    <3> QED
      BY <3>1, <3>2
  <2> QED
    BY <2>1, <2>2
<1> QED
  BY <1>1, <1>2, <1>3 DEF Subset

-----------------------------------------------------------------------------
(* The inductive invariant.                                                *)

\* All that is exempt from a claim.
Exempted(c) == UNION {Members(s) : s \in c.exempt}

\* A claim is met when nothing of its region is left but what is exempt, and one under
\* way has lost to `region` only what is exempt.
Discharged(c) == Members(c.region) \subseteq Exempted(c)

UnderWay(c) == rest \subseteq c.exempt /\ Members(c.region) \subseteq Members(region) \cup Exempted(c)

\* Every claim of the draft is still to be proved, met, or under way.
Proving ==
  status = "proving" =>
    /\ layers # <<>>
    /\ \A c \in Claims(draft, layers) : c \in claims \/ Discharged(c) \/ UnderWay(c)

\* What any layer covers some layer decides.
DecidedSomewhere ==
  \A k \in Keys, o \in Objects :
    (\E i \in DOMAIN layers : Covering(layers[i], k, o) # {}) => Decider(layers, k, o) # {}

\* No two layers conflict, the outer one taken first, as admission compares them.
NoneAcross ==
  \A i, j \in DOMAIN layers : i < j =>
    \A r \in layers[i].injects, s \in layers[j].injects : ~Conflict(r, s)

\* What is gathered and what is still to be covers every scope that creates tables.
Creatable == UNION {Members(s) : s \in CreateScopes(layers)}

Gathered ==
  status \in {"covering", "composed"} =>
    Creatable \subseteq Members(region) \cup UNION {Members(s) : s \in rest}

Whole == status = "composed" => rest = {} /\ Sound

PolicyInv ==
  /\ PolicyTypeOK /\ Proving /\ DecidedSomewhere /\ NoneAcross
  /\ AskedFor /\ Gathered /\ Whole

-----------------------------------------------------------------------------
(* Types.                                                                  *)

LEMMA LayerTypes ==
  ASSUME NEW d \in Document, NEW k \in Keys
  PROVE  /\ d.grants[k] \subseteq Grant /\ Raising(d, k) \subseteq d.grants[k]
         /\ d.injects \subseteq Inject
BY DEF Document, Raising

LEMMA GrantTypes ==
  ASSUME NEW g \in Grant
  PROVE  g.scope \in Scopes /\ g.value \subseteq Powers
BY DEF Grant

LEMMA InjectTypes ==
  ASSUME NEW r \in Inject
  PROVE  r.scope \in Scopes
BY DEF Inject

LEMMA PinnedType ==
  ASSUME NEW d \in Document
  PROVE  /\ Pinned(d) \in Document
         /\ Pinned(d).injects = d.injects
         /\ \A k \in Keys :
              /\ k \in Inherited => Pinned(d).grants[k] = d.grants[k]
              /\ k \notin Inherited =>
                   Pinned(d).grants[k] = d.grants[k] \cup {[scope |-> All, value |-> Default[k]]}
<1>1. \A k \in Keys : [scope |-> All, value |-> Default[k]] \in Grant
  BY DocumentsAssumption, Extremes DEF Grant
<1>2. [k \in Keys |-> IF k \in Inherited THEN d.grants[k]
                     ELSE d.grants[k] \cup {[scope |-> All, value |-> Default[k]]}]
        \in [Keys -> SUBSET Grant]
  BY <1>1, LayerTypes
<1> QED
  BY <1>2 DEF Pinned, Document

LEMMA ClaimType ==
  ASSUME NEW where \in Scopes, NEW exempt \in SUBSET Scopes
  PROVE  /\ Claim(where, exempt) \in [region : Scopes, exempt : SUBSET Scopes]
         /\ Claim(where, exempt).region = where /\ Claim(where, exempt).exempt = exempt
BY DEF Claim

LEMMA UnraisedType ==
  ASSUME NEW stack \in Seq(Document), NEW k \in Keys, NEW g \in Grant
  PROVE  /\ Unraised(stack, k, g) \in [region : Scopes, exempt : SUBSET Scopes]
         /\ Unraised(stack, k, g).region = g.scope
         /\ Unraised(stack, k, g).exempt =
              UNION {{t.scope : t \in Raising(stack[i], k)} : i \in DOMAIN stack}
<1> DEFINE raised == UNION {{t.scope : t \in Raising(stack[i], k)} : i \in DOMAIN stack}
<1>1. raised \in SUBSET Scopes
  <2>1. \A i \in DOMAIN stack : Raising(stack[i], k) \subseteq Grant
    BY LayerTypes
  <2> QED
    BY <2>1, GrantTypes
<1> HIDE DEF raised
<1>2. g.scope \in Scopes
  BY GrantTypes
<1>3. Unraised(stack, k, g) = Claim(g.scope, raised)
  BY DEF Unraised, raised
<1> QED
  BY <1>1, <1>2, <1>3, ClaimType DEF raised

\* The scopes that lift or have decided what a rule of layer i leaves short.
Lifted(stack, k, g, i) ==
  Decided(stack, k, i) \cup {u.scope : u \in Satisfying(stack[i], k, g)}

LEMMA SuspectTypes ==
  ASSUME NEW stack \in Seq(Document), NEW k \in Keys, NEW g \in Grant, NEW i \in DOMAIN stack
  PROVE  /\ Suspects(stack, k, g, i) \subseteq [region : Scopes, exempt : SUBSET Scopes]
         /\ \A t \in FallingShort(stack[i], k, g) : \E c \in Suspects(stack, k, g, i) :
              /\ c.region = Meet(g.scope, t.scope)
              /\ c.exempt = Lifted(stack, k, g, i)
<1> DEFINE exempt == Lifted(stack, k, g, i)
<1>1. stack[i] \in Document /\ \A j \in (i + 1)..Len(stack) : stack[j] \in Document
  OBVIOUS
<1>2. Decided(stack, k, i) \in SUBSET Scopes
  <2>1. \A j \in (i + 1)..Len(stack) : stack[j].grants[k] \subseteq Grant
    BY <1>1, LayerTypes
  <2> QED
    BY <2>1, GrantTypes DEF Decided
<1>3. exempt \in SUBSET Scopes
  <2>1. Satisfying(stack[i], k, g) \subseteq Grant
    BY <1>1, LayerTypes DEF Satisfying
  <2> QED
    BY <2>1, <1>2, GrantTypes DEF Lifted
<1> HIDE DEF exempt
<1>4. \A t \in FallingShort(stack[i], k, g) : Meet(g.scope, t.scope) \in Scopes
  <2>1. FallingShort(stack[i], k, g) \subseteq Grant
    BY <1>1, LayerTypes DEF FallingShort
  <2> QED
    BY <2>1, GrantTypes, MeetExact
<1>5. Suspects(stack, k, g, i) =
        {Claim(Meet(g.scope, t.scope), exempt) : t \in FallingShort(stack[i], k, g)}
  BY DEF Suspects, exempt, Lifted
<1>6. ASSUME NEW t \in FallingShort(stack[i], k, g)
      PROVE  LET c == Claim(Meet(g.scope, t.scope), exempt) IN
             /\ c \in [region : Scopes, exempt : SUBSET Scopes]
             /\ c.region = Meet(g.scope, t.scope) /\ c.exempt = exempt
  BY <1>3, <1>4, ClaimType
<1> QED
  BY <1>5, <1>6 DEF exempt

LEMMA ClaimsTyped ==
  ASSUME NEW d \in Document, NEW stack \in Seq(Document)
  PROVE  Claims(d, stack) \subseteq [region : Scopes, exempt : SUBSET Scopes]
<1>1. ASSUME NEW k \in Keys, NEW g \in Raising(d, k)
      PROVE  ClaimsOf(stack, k, g) \subseteq [region : Scopes, exempt : SUBSET Scopes]
  <2>1. g \in Grant
    BY LayerTypes
  <2> QED
    BY <2>1, UnraisedType, SuspectTypes DEF ClaimsOf
<1> QED
  BY <1>1 DEF Claims

-----------------------------------------------------------------------------
(* Why a draft whose claims are met loosens nothing.                       *)

LEMMA ExemptMember ==
  ASSUME NEW c, Discharged(c), NEW o \in Members(c.region)
  PROVE  \E s \in c.exempt : o \in Members(s)
BY DEF Discharged, Exempted

LEMMA DeciderValue ==
  ASSUME NEW stack, NEW k, NEW o, NEW i \in Decider(stack, k, o),
         NEW t \in Covering(stack[i], k, o)
  PROVE  t.value \subseteq Value(stack, k, o)
BY DEF Value, ValueAt

\* A raising rule of the draft is within what the stack already grants, at each object:
\* some layer raises there, so some layer decides, and there no rule of it that falls
\* short is alone.
LEMMA RuleWithin ==
  ASSUME NEW stack \in Seq(Document), NEW d \in Document, NEW k \in Keys,
         NEW g \in Raising(d, k), NEW o \in Objects, o \in Members(g.scope),
         \A c \in Claims(d, stack) : Discharged(c),
         (\E i \in DOMAIN stack : Covering(stack[i], k, o) # {}) => Decider(stack, k, o) # {}
  PROVE  g.value \subseteq Value(stack, k, o)
<1>1. g \in Grant
  BY LayerTypes
<1>2. Discharged(Unraised(stack, k, g))
  BY DEF Claims, ClaimsOf
<1>3. \E i \in DOMAIN stack : Covering(stack[i], k, o) # {}
  <2>1. o \in Members(Unraised(stack, k, g).region)
    BY <1>1, UnraisedType
  <2>2. PICK s \in Unraised(stack, k, g).exempt : o \in Members(s)
    BY <1>2, <2>1, ExemptMember
  <2>3. PICK i \in DOMAIN stack : \E t \in Raising(stack[i], k) : o \in Members(t.scope)
    BY <1>1, <2>2, UnraisedType
  <2>4. PICK t \in stack[i].grants[k] : o \in Members(t.scope)
    BY <2>3 DEF Raising
  <2> QED
    BY <2>4 DEF Covering
<1>4. PICK i \in Decider(stack, k, o) : TRUE
  BY <1>3
<1>5. /\ i \in DOMAIN stack /\ Covering(stack[i], k, o) # {}
      /\ \A j \in DOMAIN stack : i < j => Covering(stack[j], k, o) = {}
  BY <1>4 DEF Decider
<1>6. PICK t \in Covering(stack[i], k, o) : TRUE
  BY <1>5
<1>7. CASE g.value \subseteq t.value
  BY <1>7, <1>6, <1>4, DeciderValue
<1>8. CASE ~(g.value \subseteq t.value)
  <2>1. t \in FallingShort(stack[i], k, g) /\ o \in Members(t.scope)
    BY <1>6, <1>8 DEF Covering, FallingShort
  <2>2. PICK c \in Suspects(stack, k, g, i) :
          /\ c.region = Meet(g.scope, t.scope)
          /\ c.exempt = Lifted(stack, k, g, i)
    BY <1>1, <1>5, <2>1, SuspectTypes
  <2>3. Discharged(c)
    BY <1>5, <2>2 DEF Claims, ClaimsOf
  <2>4. t.scope \in Scopes /\ g.scope \in Scopes
    <3>1. t \in Grant
      BY <2>1, <1>5, LayerTypes DEF FallingShort
    <3> QED
      BY <3>1, <1>1, GrantTypes
  <2>5. o \in Members(c.region)
    BY <2>1, <2>2, <2>4, MeetExact
  <2>6. PICK s \in c.exempt : o \in Members(s)
    BY <2>3, <2>5, ExemptMember
  <2>7. s \notin Decided(stack, k, i)
    <3>1. SUFFICES ASSUME s \in Decided(stack, k, i) PROVE FALSE
      OBVIOUS
    <3>2. PICK j \in (i + 1)..Len(stack) : s \in {u.scope : u \in stack[j].grants[k]}
      BY <3>1 DEF Decided
    <3>3. Covering(stack[j], k, o) # {}
      BY <3>2, <2>6 DEF Covering
    <3>4. j \in DOMAIN stack /\ i < j
      BY <3>2, <1>5
    <3> QED
      BY <3>3, <3>4, <1>5
  <2>8. PICK u \in Satisfying(stack[i], k, g) : s = u.scope
    BY <2>2, <2>6, <2>7 DEF Lifted
  <2>9. u \in Covering(stack[i], k, o) /\ g.value \subseteq u.value
    BY <2>6, <2>8 DEF Satisfying, Covering
  <2> QED
    BY <2>9, <1>4, DeciderValue
<1> QED
  BY <1>7, <1>8

\* A layer that covers an object decides there, and one that does not changes nothing.
LEMMA AppendDecides ==
  ASSUME NEW stack \in Seq(Document), NEW d \in Document, NEW k \in Keys, NEW o \in Objects
  PROVE  /\ Covering(d, k, o) = {} =>
              /\ Decider(Append(stack, d), k, o) = Decider(stack, k, o)
              /\ Value(Append(stack, d), k, o) = Value(stack, k, o)
         /\ Covering(d, k, o) # {} =>
              /\ Decider(Append(stack, d), k, o) = {Len(stack) + 1}
              /\ Value(Append(stack, d), k, o) = ValueAt(d, k, o)
<1> DEFINE new == Append(stack, d)
<1>1. /\ Len(stack) \in Nat /\ DOMAIN stack = 1..Len(stack)
      /\ DOMAIN new = 1..(Len(stack) + 1)
      /\ \A i \in DOMAIN stack : new[i] = stack[i]
      /\ new[Len(stack) + 1] = d
  OBVIOUS
<1> HIDE DEF new
<1>2. CASE Covering(d, k, o) = {}
  <2>1. Decider(new, k, o) = Decider(stack, k, o)
    <3>1. ASSUME NEW i \in Decider(new, k, o)
          PROVE  i \in Decider(stack, k, o)
      <4>1. /\ i \in DOMAIN new /\ Covering(new[i], k, o) # {}
            /\ \A j \in DOMAIN new : i < j => Covering(new[j], k, o) = {}
        BY <3>1 DEF Decider
      <4>2. i \in DOMAIN stack
        BY <4>1, <1>1, <1>2
      <4>3. \A j \in DOMAIN stack : i < j => Covering(stack[j], k, o) = {}
        BY <4>1, <1>1
      <4> QED
        BY <4>1, <4>2, <4>3, <1>1 DEF Decider
    <3>2. ASSUME NEW i \in Decider(stack, k, o)
          PROVE  i \in Decider(new, k, o)
      <4>1. /\ i \in DOMAIN stack /\ Covering(stack[i], k, o) # {}
            /\ \A j \in DOMAIN stack : i < j => Covering(stack[j], k, o) = {}
        BY <3>2 DEF Decider
      <4>2. \A j \in DOMAIN new : i < j => Covering(new[j], k, o) = {}
        BY <4>1, <1>1, <1>2
      <4> QED
        BY <4>1, <4>2, <1>1 DEF Decider
    <3> QED
      BY <3>1, <3>2
  <2>2. \A i \in Decider(stack, k, o) : ValueAt(new[i], k, o) = ValueAt(stack[i], k, o)
    BY <1>1 DEF Decider
  <2>3. Value(new, k, o) = Value(stack, k, o)
    BY <2>1, <2>2 DEF Value
  <2> QED
    BY <1>2, <2>1, <2>3 DEF new
<1>3. CASE Covering(d, k, o) # {}
  <2>1. ASSUME NEW i \in Decider(new, k, o)
        PROVE  i = Len(stack) + 1
    <3>1. /\ i \in DOMAIN new
          /\ \A j \in DOMAIN new : i < j => Covering(new[j], k, o) = {}
      BY <2>1 DEF Decider
    <3>2. Len(stack) + 1 \in DOMAIN new /\ Covering(new[Len(stack) + 1], k, o) # {}
      BY <1>1, <1>3
    <3>3. ~(i < Len(stack) + 1)
      BY <3>1, <3>2
    <3> QED
      BY <3>1, <3>3, <1>1
  <2>2. Len(stack) + 1 \in Decider(new, k, o)
    <3>1. \A j \in DOMAIN new : ~(Len(stack) + 1 < j)
      BY <1>1
    <3> QED
      BY <3>1, <1>1, <1>3 DEF Decider
  <2>3. Decider(new, k, o) = {Len(stack) + 1}
    BY <2>1, <2>2
  <2>4. Value(new, k, o) = Default[k] \cup ValueAt(d, k, o)
    BY <2>3, <1>1 DEF Value
  <2>5. Default[k] \subseteq ValueAt(d, k, o)
    BY DEF ValueAt
  <2> QED
    BY <1>3, <2>3, <2>4, <2>5 DEF new
<1> QED
  BY <1>2, <1>3

LEMMA Narrowing ==
  ASSUME NEW stack \in Seq(Document), NEW d \in Document, NEW k \in Keys, NEW o \in Objects,
         \A c \in Claims(d, stack) : Discharged(c),
         (\E i \in DOMAIN stack : Covering(stack[i], k, o) # {}) => Decider(stack, k, o) # {}
  PROVE  Value(Append(stack, Pinned(d)), k, o) \subseteq Value(stack, k, o)
<1>1. Pinned(d) \in Document
  BY PinnedType
<1>2. Default[k] \subseteq Value(stack, k, o)
  BY DEF Value
<1>3. ASSUME NEW g \in Covering(Pinned(d), k, o)
      PROVE  g.value \subseteq Value(stack, k, o)
  <2>1. g \in Pinned(d).grants[k] /\ o \in Members(g.scope)
    BY <1>3 DEF Covering
  <2>2. CASE g.value \subseteq Default[k]
    BY <2>2, <1>2
  <2>3. CASE ~(g.value \subseteq Default[k])
    <3>1. g \in d.grants[k]
      BY <2>1, <2>3, PinnedType
    <3>2. g \in Raising(d, k)
      BY <3>1, <2>3 DEF Raising, Raises
    <3> QED
      BY <3>2, <2>1, RuleWithin
  <2> QED
    BY <2>2, <2>3
<1>4. ValueAt(Pinned(d), k, o) \subseteq Value(stack, k, o)
  BY <1>2, <1>3 DEF ValueAt
<1>5. CASE Covering(Pinned(d), k, o) = {}
  BY <1>1, <1>5, AppendDecides
<1>6. CASE Covering(Pinned(d), k, o) # {}
  BY <1>1, <1>4, <1>6, AppendDecides
<1> QED
  BY <1>5, <1>6

-----------------------------------------------------------------------------
(* The invariant is kept.                                                  *)

LEMMA RootType ==
  ASSUME NEW d \in Roots
  PROVE  /\ d \in Document /\ [d EXCEPT !.injects = {}] \in Document
         /\ <<d>> \in Seq(Document) /\ <<d>> # <<>>
BY DocumentsAssumption DEF Document

LEMMA CreateScopesType ==
  ASSUME NEW stack \in Seq(Document)
  PROVE  CreateScopes(stack) \subseteq Scopes
<1>1. \A i \in DOMAIN stack : Raising(stack[i], CreateTable) \subseteq Grant
  BY DocumentsAssumption, LayerTypes
<1> QED
  BY <1>1, GrantTypes DEF CreateScopes

\* What is only about the layers holds until they change.
LEMMA LayersStay ==
  ASSUME PolicyInv, layers' = layers
  PROVE  DecidedSomewhere' /\ NoneAcross' /\ AskedFor'
BY DEF PolicyInv, DecidedSomewhere, NoneAcross, AskedFor

LEMMA Initial == PolicyInit => PolicyInv
<1> SUFFICES ASSUME PolicyInit PROVE PolicyInv
  OBVIOUS
<1> USE DEF PolicyInit
<1>1. PolicyTypeOK
  <2>1. NoDocument \in Document
    BY DEF NoDocument, Document
  <2> QED
    BY <2>1, Extremes DEF PolicyTypeOK
<1>2. Proving /\ Gathered /\ Whole
  BY DEF Proving, Gathered, Whole
<1>3. DecidedSomewhere /\ NoneAcross
  BY DEF DecidedSomewhere, NoneAcross
<1>4. AskedFor
  BY DEF AskedFor
<1> QED
  BY <1>1, <1>2, <1>3, <1>4 DEF PolicyInv

LEMMA ProposeTypes ==
  ASSUME PolicyTypeOK, NEW d \in Document, NEW stack \in Seq(Document), Propose(d, stack),
         stack # <<>>
  PROVE  PolicyTypeOK' /\ Proving' /\ Gathered' /\ Whole'
<1>1. PolicyTypeOK'
  BY ClaimsTyped DEF Propose, PolicyTypeOK
<1>2. Proving'
  BY DEF Propose, Proving
<1>3. Gathered' /\ Whole'
  BY DEF Propose, Gathered, Whole
<1> QED
  BY <1>1, <1>2, <1>3

LEMMA LoadRootStep ==
  ASSUME PolicyInv, NEW d \in Roots, LoadRoot(d)
  PROVE  PolicyInv'
<1>1. PolicyTypeOK' /\ Proving' /\ Gathered' /\ Whole'
  BY RootType, ProposeTypes DEF PolicyInv, LoadRoot
<1>2. layers' = <<d>>
  BY DEF LoadRoot, Propose
<1>3. DecidedSomewhere'
  <2>1. ASSUME NEW k \in Keys, NEW o \in Objects, Covering(d, k, o) # {}
        PROVE  1 \in Decider(<<d>>, k, o)
    BY <2>1 DEF Decider
  <2>2. ASSUME NEW k \in Keys, NEW o \in Objects,
               \E i \in DOMAIN <<d>> : Covering(<<d>>[i], k, o) # {}
        PROVE  Decider(<<d>>, k, o) # {}
    <3>1. Covering(d, k, o) # {}
      BY <2>2
    <3> QED
      BY <3>1, <2>1
  <2> QED
    BY <2>2, <1>2 DEF DecidedSomewhere
<1>4. NoneAcross' /\ AskedFor'
  BY <1>2 DEF NoneAcross, AskedFor
<1> QED
  BY <1>1, <1>3, <1>4 DEF PolicyInv

LEMMA LoadLayerStep ==
  ASSUME PolicyInv, NEW d \in Drafts, LoadLayer(d)
  PROVE  PolicyInv'
<1>1. d \in Document
  BY DocumentsAssumption
<1>2. PolicyTypeOK' /\ Proving' /\ Gathered' /\ Whole'
  BY <1>1, ProposeTypes DEF PolicyInv, LoadLayer, PolicyTypeOK
<1>3. layers' = layers
  BY DEF LoadLayer, Propose
<1> QED
  BY <1>2, <1>3, LayersStay DEF PolicyInv

\* A claim that is under way with nothing left is met.
LEMMA Emptied ==
  ASSUME NEW c, UnderWay(c), region = Nothing
  PROVE  Discharged(c)
BY NothingMembers DEF UnderWay, Discharged

LEMMA ExamineStep ==
  ASSUME PolicyInv, Examine
  PROVE  PolicyInv'
<1>1. PICK c \in claims : claims' = claims \ {c} /\ region' = c.region /\ rest' = c.exempt
  BY DEF Examine
<1>2. c \in [region : Scopes, exempt : SUBSET Scopes]
  BY <1>1 DEF PolicyInv, PolicyTypeOK
<1>3. /\ status = "proving" /\ status' = status /\ region = Nothing
      /\ layers' = layers /\ draft' = draft
  BY DEF Examine
<1>4. PolicyTypeOK'
  BY <1>1, <1>2, <1>3 DEF PolicyInv, PolicyTypeOK
<1>5. Proving'
  <2>1. UnderWay(c)'
    BY <1>1 DEF UnderWay
  <2>2. ASSUME NEW e \in Claims(draft, layers)
        PROVE  e \in claims' \/ Discharged(e) \/ UnderWay(e)'
    <3>1. e \in claims \/ Discharged(e) \/ UnderWay(e)
      BY <1>3 DEF PolicyInv, Proving
    <3>2. CASE e \in claims
      BY <3>2, <1>1, <2>1
    <3> QED
      BY <3>1, <3>2, <1>3, Emptied
  <2> QED
    BY <2>2, <1>3 DEF PolicyInv, Proving
<1>6. Gathered' /\ Whole'
  BY <1>3 DEF Gathered, Whole
<1> QED
  BY <1>3, <1>4, <1>5, <1>6, LayersStay DEF PolicyInv

LEMMA SubtractStep ==
  ASSUME PolicyInv, NEW s \in rest, Subtract(s)
  PROVE  PolicyInv'
<1>1. /\ status = "proving" /\ status' = status /\ claims' = claims
      /\ region' = Difference(region, s) /\ region' # NotRepresentable
      /\ rest' = rest \ {s} /\ layers' = layers /\ draft' = draft
  BY DEF Subtract
<1>2. region \in Scopes /\ s \in Scopes
  BY DEF PolicyInv, PolicyTypeOK
<1>3. region' \in Scopes /\ Members(region) \ Members(s) \subseteq Members(region')
  BY <1>1, <1>2, DifferenceCovers
<1>4. PolicyTypeOK'
  BY <1>1, <1>3 DEF PolicyInv, PolicyTypeOK
<1>5. Proving'
  <2>1. ASSUME NEW e, UnderWay(e)
        PROVE  UnderWay(e)'
    <3>1. s \in e.exempt /\ Members(e.region) \subseteq Members(region) \cup Exempted(e)
      BY <2>1 DEF UnderWay
    <3>2. Members(s) \subseteq Exempted(e)
      BY <3>1 DEF Exempted
    <3>3. Members(e.region) \subseteq Members(region') \cup Exempted(e)
      BY <3>1, <3>2, <1>3
    <3>4. rest' \subseteq e.exempt
      BY <1>1, <2>1 DEF UnderWay
    <3> QED
      BY <3>3, <3>4 DEF UnderWay
  <2> QED
    BY <2>1, <1>1 DEF PolicyInv, Proving
<1>6. Gathered' /\ Whole'
  BY <1>1 DEF Gathered, Whole
<1> QED
  BY <1>1, <1>4, <1>5, <1>6, LayersStay DEF PolicyInv

\* Admission comes after every claim has been met.
LEMMA AllMet ==
  ASSUME PolicyInv, Admit
  PROVE  /\ draft \in Document /\ layers \in Seq(Document) /\ layers # <<>>
         /\ \A c \in Claims(draft, layers) : Discharged(c)
<1>1. status = "proving" /\ region = Nothing /\ claims = {}
  BY DEF Admit
<1> QED
  BY <1>1, Emptied DEF PolicyInv, PolicyTypeOK, Proving

\* So admission narrows, for each knob and object.
LEMMA AdmitNarrows ==
  ASSUME PolicyInv, Admit, NEW k \in Keys, NEW o \in Objects
  PROVE  Value(layers', k, o) \subseteq Value(layers, k, o)
<1>1. layers' = Append(layers, Pinned(draft))
  BY DEF Admit
<1>2. (\E i \in DOMAIN layers : Covering(layers[i], k, o) # {}) => Decider(layers, k, o) # {}
  BY DEF PolicyInv, DecidedSomewhere
<1> QED
  BY <1>1, <1>2, AllMet, Narrowing

LEMMA AdmitStep ==
  ASSUME PolicyInv, Admit
  PROVE  PolicyInv'
<1> DEFINE new == Pinned(draft)
<1>1. /\ status' = "open" /\ layers' = Append(layers, new) /\ draft' = NoDocument
      /\ claims' = claims /\ region' = region /\ rest' = rest
      /\ ~Collides(draft, layers)
  BY DEF Admit
<1>2. draft \in Document /\ new \in Document /\ new.injects = draft.injects
  BY AllMet, PinnedType
<1>3. /\ layers \in Seq(Document) /\ layers' \in Seq(Document)
      /\ Len(layers) \in Nat /\ Len(layers') = Len(layers) + 1
      /\ DOMAIN layers = 1..Len(layers) /\ DOMAIN layers' = 1..(Len(layers) + 1)
      /\ \A i \in DOMAIN layers : layers'[i] = layers[i]
      /\ layers'[Len(layers) + 1] = new
  BY <1>1, <1>2, AllMet
<1>4. PolicyTypeOK'
  <2>1. NoDocument \in Document
    BY DEF NoDocument, Document
  <2> QED
    BY <2>1, <1>1, <1>3 DEF PolicyInv, PolicyTypeOK
<1>5. Proving' /\ Gathered' /\ Whole'
  BY <1>1 DEF Proving, Gathered, Whole
<1> HIDE DEF new
<1>6. DecidedSomewhere'
  <2>1. ASSUME NEW k \in Keys, NEW o \in Objects,
               NEW i \in DOMAIN layers', Covering(layers'[i], k, o) # {}
        PROVE  Decider(layers', k, o) # {}
    <3>1. CASE Covering(new, k, o) # {}
      BY <3>1, <1>1, <1>2, <1>3, AppendDecides
    <3>2. CASE Covering(new, k, o) = {}
      <4>1. i \in DOMAIN layers /\ Covering(layers[i], k, o) # {}
        BY <3>2, <2>1, <1>3
      <4>2. Decider(layers, k, o) # {}
        BY <4>1 DEF PolicyInv, DecidedSomewhere
      <4> QED
        BY <4>2, <3>2, <1>1, <1>2, <1>3, AppendDecides
    <3> QED
      BY <3>1, <3>2
  <2> QED
    BY <2>1 DEF DecidedSomewhere
<1>7. NoneAcross'
  <2>1. ASSUME NEW i \in DOMAIN layers', NEW j \in DOMAIN layers', i < j,
               NEW r \in layers'[i].injects, NEW s \in layers'[j].injects
        PROVE  ~Conflict(r, s)
    <3>1. i \in DOMAIN layers /\ r \in layers[i].injects
      BY <2>1, <1>3
    <3>2. CASE j \in DOMAIN layers
      BY <3>1, <3>2, <2>1, <1>3 DEF PolicyInv, NoneAcross
    <3>3. CASE j = Len(layers) + 1
      <4>1. s \in draft.injects
        BY <3>3, <2>1, <1>2, <1>3
      <4> QED
        BY <3>1, <4>1, <1>1 DEF Collides
    <3> QED
      BY <3>2, <3>3, <1>3
  <2> QED
    BY <2>1 DEF NoneAcross
<1>8. AskedFor'
  <2>1. ASSUME NEW k \in Keys \ Inherited, NEW o \in Objects, NEW i \in 2..Len(layers')
        PROVE  Value(layers', k, o) \subseteq ValueAt(layers'[i], k, o)
    <3>1. CASE i \in DOMAIN layers
      <4>1. Value(layers, k, o) \subseteq ValueAt(layers[i], k, o)
        BY <3>1, <2>1, <1>3 DEF PolicyInv, AskedFor
      <4>2. Value(layers', k, o) \subseteq Value(layers, k, o)
        BY AdmitNarrows
      <4> QED
        BY <4>1, <4>2, <3>1, <1>3
    <3>2. CASE i = Len(layers) + 1
      <4>1. [scope |-> All, value |-> Default[k]] \in new.grants[k]
        BY <1>2, PinnedType DEF new
      <4>2. Covering(new, k, o) # {}
        BY <4>1, AllMembers DEF Covering
      <4> QED
        BY <4>2, <3>2, <1>1, <1>2, <1>3, AppendDecides
    <3> QED
      BY <3>1, <3>2, <2>1, <1>3
  <2> QED
    BY <2>1 DEF AskedFor
<1> QED
  BY <1>4, <1>5, <1>6, <1>7, <1>8 DEF PolicyInv

LEMMA WidenStep ==
  ASSUME PolicyInv, NEW s \in rest, Widen(s)
  PROVE  PolicyInv'
<1>1. /\ status = "covering" /\ status' = status /\ claims' = claims
      /\ region' = Join(region, s) /\ rest' = rest \ {s}
      /\ layers' = layers /\ draft' = draft
  BY DEF Widen
<1>2. region' \in Scopes /\ Members(region) \cup Members(s) \subseteq Members(region')
  BY <1>1, JoinCovers DEF PolicyInv, PolicyTypeOK
<1>3. PolicyTypeOK' /\ Proving' /\ Whole'
  BY <1>1, <1>2 DEF PolicyInv, PolicyTypeOK, Proving, Whole
<1>4. Gathered'
  <2>1. Creatable \subseteq Members(region) \cup UNION {Members(t) : t \in rest}
    BY <1>1 DEF PolicyInv, Gathered
  <2>2. UNION {Members(t) : t \in rest} \subseteq Members(s) \cup UNION {Members(t) : t \in rest'}
    BY <1>1
  <2>3. Creatable' = Creatable
    BY <1>1 DEF Creatable
  <2>4. Creatable \subseteq Members(region') \cup UNION {Members(t) : t \in rest'}
    BY <2>1, <2>2, <1>2
  <2> QED
    BY <2>3, <2>4 DEF Gathered
<1> QED
  BY <1>1, <1>3, <1>4, LayersStay DEF PolicyInv

LEMMA GatherStep ==
  ASSUME PolicyInv, Gather
  PROVE  PolicyInv'
<1>1. /\ status' = "covering" /\ region' = Nothing /\ rest' = CreateScopes(layers)
      /\ layers' = layers /\ draft' = draft /\ claims' = claims
  BY DEF Gather
<1>2. PolicyTypeOK' /\ Proving' /\ Whole'
  BY <1>1, CreateScopesType, Extremes DEF PolicyInv, PolicyTypeOK, Proving, Whole
<1>3. Gathered'
  <2>1. Creatable' = UNION {Members(s) : s \in rest'}
    BY <1>1 DEF Creatable
  <2> QED
    BY <2>1 DEF Gathered
<1> QED
  BY <1>1, <1>2, <1>3, LayersStay DEF PolicyInv

\* The steps that only settle what becomes of the draft or of the whole.
LEMMA VerdictStep ==
  ASSUME PolicyInv, RefuseDraft \/ Compose \/ RefuseWhole \/ UNCHANGED policyVars
  PROVE  PolicyInv'
<1>1. /\ layers' = layers /\ draft' = draft /\ claims' = claims
      /\ region' = region /\ rest' = rest
      /\ \/ status' = "refused"
         \/ status' = status
         \/ status = "covering" /\ status' = "composed" /\ rest = {} /\ Sound
  BY DEF RefuseDraft, Compose, RefuseWhole, policyVars
<1>2. PolicyTypeOK'
  BY <1>1 DEF PolicyInv, PolicyTypeOK
<1>3. Proving'
  BY <1>1 DEF PolicyInv, Proving, UnderWay
<1>4. Creatable' = Creatable /\ Sound' = Sound
  BY <1>1 DEF Creatable, Sound
<1>5. Gathered'
  BY <1>1, <1>4 DEF PolicyInv, Gathered
<1>6. Whole'
  BY <1>1, <1>4 DEF PolicyInv, Whole
<1> QED
  BY <1>1, <1>2, <1>3, <1>5, <1>6, LayersStay DEF PolicyInv

LEMMA PolicyStep == PolicyInv /\ [PolicyNext]_policyVars => PolicyInv'
<1> SUFFICES ASSUME PolicyInv, [PolicyNext]_policyVars PROVE PolicyInv'
  OBVIOUS
<1>1. ASSUME NEW d \in Roots, LoadRoot(d) PROVE PolicyInv'
  BY <1>1, LoadRootStep
<1>2. ASSUME NEW d \in Drafts, LoadLayer(d) PROVE PolicyInv'
  BY <1>2, LoadLayerStep
<1>3. CASE Examine
  BY <1>3, ExamineStep
<1>4. ASSUME NEW s \in rest, Subtract(s) PROVE PolicyInv'
  BY <1>4, SubtractStep
<1>5. CASE Admit
  BY <1>5, AdmitStep
<1>6. CASE Gather
  BY <1>6, GatherStep
<1>7. ASSUME NEW s \in rest, Widen(s) PROVE PolicyInv'
  BY <1>7, WidenStep
<1>8. CASE RefuseDraft \/ Compose \/ RefuseWhole \/ UNCHANGED policyVars
  BY <1>8, VerdictStep
<1> QED
  BY <1>1, <1>2, <1>3, <1>4, <1>5, <1>6, <1>7, <1>8 DEF PolicyNext

\* The inductive invariant of a composition, from which every theorem below follows.
THEOREM PolicyInvariant == PolicySpec => []PolicyInv
BY Initial, PolicyStep, PTL DEF PolicySpec

-----------------------------------------------------------------------------
(* The theorems.                                                           *)

\* Every variable of a composition keeps its type: the operations on scopes yield scopes.
THEOREM PolicyTypeCorrect == PolicySpec => []PolicyTypeOK
<1>1. PolicyInv => PolicyTypeOK
  BY DEF PolicyInv
<1> QED
  BY <1>1, PolicyInvariant, PTL

\* Admission only narrows (admit): whatever is masked, overlaps or has no scope, no layer
\* grants at any object what the layers before it do not.
THEOREM CompositionNarrows == PolicySpec => NeverLooser
<1>1. ASSUME PolicyInv, [PolicyNext]_policyVars, layers # <<>>,
             NEW k \in Keys, NEW o \in Objects
      PROVE  Value(layers', k, o) \subseteq Value(layers, k, o)
  <2>1. CASE Admit
    BY <1>1, <2>1, AdmitNarrows
  <2>2. CASE layers' = layers
    BY <2>2
  <2>3. Admit \/ layers' = layers
    BY <1>1 DEF PolicyNext, policyVars, LoadRoot, LoadLayer, Propose, Examine, Subtract,
         RefuseDraft, Gather, Widen, Compose, RefuseWhole
  <2> QED
    BY <2>1, <2>2, <2>3
<1>2. PolicyInv /\ [PolicyNext]_policyVars =>
        [layers # <<>> => \A k \in Keys, o \in Objects :
           Value(layers', k, o) \subseteq Value(layers, k, o)]_policyVars
  BY <1>1
<1> QED
  BY <1>2, PolicyInvariant, PTL DEF PolicySpec, NeverLooser

\* A power that must be asked for (KnobDef.inherit = false) never flows through a layer
\* that does not grant it in its own words, however many layers follow.
THEOREM GrantedByAsking == PolicySpec => []AskedFor
<1>1. PolicyInv => AskedFor
  BY DEF PolicyInv
<1> QED
  BY <1>1, PolicyInvariant, PTL

\* A table is never creatable outside a mandatory inject (check_creatable_escape).
THEOREM InjectsInescapable == PolicySpec => []InjectsCover
<1>1. ASSUME PolicyInv, status = "composed", NEW o \in Objects,
             ~(Value(layers, CreateTable, o) \subseteq Default[CreateTable]),
             NEW r \in Mandatory(layers)
      PROVE  o \in Members(r.scope)
  <2>1. PICK i \in Decider(layers, CreateTable, o) :
          ~(ValueAt(layers[i], CreateTable, o) \subseteq Default[CreateTable])
    BY <1>1 DEF Value
  <2>2. PICK g \in Covering(layers[i], CreateTable, o) :
          ~(g.value \subseteq Default[CreateTable])
    BY <2>1 DEF ValueAt
  <2>3. /\ g \in Raising(layers[i], CreateTable) /\ o \in Members(g.scope)
        /\ i \in DOMAIN layers
    BY <2>1, <2>2 DEF Covering, Raising, Raises, Decider
  <2>4. o \in Creatable
    BY <2>3 DEF Creatable, CreateScopes
  <2>5. rest = {} /\ Sound
    BY <1>1 DEF PolicyInv, Whole
  <2>6. Creatable \subseteq Members(region) \cup UNION {Members(s) : s \in rest}
    BY <1>1 DEF PolicyInv, Gathered
  <2>7. o \in Members(region)
    BY <2>4, <2>5, <2>6
  <2>8. Subset(region, r.scope)
    BY <2>5 DEF Sound
  <2>9. region \in Scopes /\ r.scope \in Scopes
    <3>1. PICK j \in DOMAIN layers : r \in layers[j].injects
      BY <1>1 DEF Mandatory
    <3>2. layers[j].injects \subseteq Inject
      BY <1>1, DocumentsAssumption, LayerTypes DEF PolicyInv, PolicyTypeOK
    <3> QED
      BY <1>1, <3>1, <3>2, InjectTypes DEF PolicyInv, PolicyTypeOK
  <2> QED
    BY <2>7, <2>8, <2>9, SubsetSound
<1>2. PolicyInv => InjectsCover
  BY <1>1 DEF InjectsCover
<1> QED
  BY <1>2, PolicyInvariant, PTL

\* A composed policy never injects one column into one object in two shapes: admission
\* compares layers with one another, the last check each layer with itself.
THEOREM InjectsAgree == PolicySpec => []OneShape
<1>1. ASSUME PolicyInv, NEW i \in DOMAIN layers, NEW j \in DOMAIN layers,
             NEW r \in layers[i].injects, NEW s \in layers[j].injects,
             ~Conflict(r, s), r.column = s.column,
             Members(r.scope) \cap Members(s.scope) # {}
      PROVE  r.shape = s.shape
  <2>1. layers[i].injects \subseteq Inject /\ layers[j].injects \subseteq Inject
    BY <1>1, DocumentsAssumption, LayerTypes DEF PolicyInv, PolicyTypeOK
  <2>2. r.scope \in Scopes /\ s.scope \in Scopes
    BY <2>1, InjectTypes
  <2>3. Meet(r.scope, s.scope) # Nothing
    BY <1>1, <2>2, MeetExact, NothingMembers
  <2> QED
    BY <1>1, <2>3 DEF Conflict
<1>2. ASSUME PolicyInv, status = "composed", NEW i \in DOMAIN layers, NEW j \in DOMAIN layers,
             NEW r \in layers[i].injects, NEW s \in layers[j].injects
      PROVE  ~Conflict(r, s) \/ ~Conflict(s, r)
  <2>1. i \in Nat /\ j \in Nat
    BY <1>2 DEF PolicyInv, PolicyTypeOK
  <2>2. CASE i = j
    BY <2>2, <1>2 DEF PolicyInv, Whole, Sound, ConflictInOneLayer
  <2>3. CASE i < j \/ j < i
    BY <2>3, <1>2 DEF PolicyInv, NoneAcross
  <2> QED
    BY <2>1, <2>2, <2>3
<1>3. PolicyInv => OneShape
  <2> SUFFICES ASSUME PolicyInv, status = "composed",
                      NEW i \in DOMAIN layers, NEW j \in DOMAIN layers,
                      NEW r \in layers[i].injects, NEW s \in layers[j].injects,
                      r.column = s.column, Members(r.scope) \cap Members(s.scope) # {}
               PROVE  r.shape = s.shape
    BY DEF OneShape
  <2>1. CASE ~Conflict(r, s)
    BY <2>1, <1>1
  <2>2. CASE ~Conflict(s, r)
    <3>1. s.column = r.column /\ Members(s.scope) \cap Members(r.scope) # {}
      OBVIOUS
    <3>2. s.shape = r.shape
      BY <2>2, <3>1, <1>1
    <3> QED
      BY <3>2
  <2> QED
    BY <2>1, <2>2, <1>2
<1> QED
  BY <1>3, PolicyInvariant, PTL

=============================================================================
