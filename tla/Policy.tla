------------------------------- MODULE Policy -------------------------------
(***************************************************************************)
(* The composition of policy charters: a root charter and the layers under *)
(* it, each admitted against what is already composed, and the checks of   *)
(* the whole.                                                              *)
(*                                                                         *)
(* A value is the set of powers it allows, so that every order of          *)
(* value_order.rs is inclusion and its join is union: a flag, a bound or a *)
(* rank allows what the tighter ones do, a string set its members.         *)
(* Requirements, validations and the parsing of documents are not          *)
(* modelled, nor is the charter algebra that no shipped code calls         *)
(* (overlay, restrict, finalize_charter).                                  *)
(***************************************************************************)
EXTENDS Scope, Naturals, Sequences

CONSTANTS
  Keys,         \* the knobs that may be granted
  CreateTable,  \* the one that says where tables may be created
  Inherited,    \* those that a silent layer inherits (KnobDef.inherit)
  Powers,       \* what values allow
  Default,      \* the default of each knob
  Injects,      \* columns that rules inject
  Roots,        \* documents that may be the root charter
  Drafts,       \* documents that may come after it
  MaxLayers     \* bounds the documents of a composition

Grant == [scope : Scopes, value : SUBSET Powers]
Inject == [scope : Scopes, column : Injects, shape : Injects, mandatory : BOOLEAN]
Document == [grants : [Keys -> SUBSET Grant], injects : SUBSET Inject]

\* A mandatory inject is the root's alone (LoadError::MandatoryInjectOnNonRootLayer).
ASSUME DocumentsAssumption ==
  /\ CreateTable \in Keys /\ Inherited \subseteq Keys /\ MaxLayers \in Nat
  /\ Default \in [Keys -> SUBSET Powers]
  /\ Roots \subseteq Document /\ Drafts \subseteq Document
  /\ \A d \in Drafts : \A r \in d.injects : ~r.mandatory

VARIABLES
  status,       \* open | proving | covering | composed | refused
  layers,       \* the composed layers, outermost first
  draft,        \* the document being admitted
  claims,       \* what is still to be proved of it
  region,       \* what is left of the region being emptied, or gathered
  rest          \* the scopes still to be taken from it, or added to it

policyVars == <<status, layers, draft, claims, region, rest>>

NoDocument == [grants |-> [k \in Keys |-> {}], injects |-> {}]

-----------------------------------------------------------------------------
(* The values of a stack of layers.                                        *)

Covering(layer, k, o) == {g \in layer.grants[k] : o \in Members(g.scope)}

\* The loosest covering rule's value, else the default.
ValueAt(layer, k, o) == Default[k] \cup UNION {g.value : g \in Covering(layer, k, o)}

\* The innermost layer with a rule over an object decides, whatever the rule grants.
Decider(stack, k, o) ==
  {i \in DOMAIN stack :
     /\ Covering(stack[i], k, o) # {}
     /\ \A j \in DOMAIN stack : i < j => Covering(stack[j], k, o) = {}}

Value(stack, k, o) ==
  Default[k] \cup UNION {ValueAt(stack[i], k, o) : i \in Decider(stack, k, o)}

Raises(g, k) == ~(g.value \subseteq Default[k])

Raising(layer, k) == {g \in layer.grants[k] : Raises(g, k)}

-----------------------------------------------------------------------------
(* Admission: what has to be proved of each rule of a draft.  A claim is a *)
(* region that must be empty once the exempt scopes are taken from it.     *)

Claim(where, exempt) == [region |-> where, exempt |-> exempt]

\* Mutant: what an outer layer covers is taken for decided.
DecidedBelow(stack, k, i) == UNION {{g.scope : g \in stack[j].grants[k]} : j \in 1..(i - 1)}

\* The scopes that a layer inside i has already decided.
Decided(stack, k, i) ==
  UNION {{g.scope : g \in stack[j].grants[k]} : j \in (i + 1)..Len(stack)}

FallingShort(layer, k, g) == {t \in layer.grants[k] : ~(g.value \subseteq t.value)}

Satisfying(layer, k, g) == {t \in layer.grants[k] : g.value \subseteq t.value}

\* Where a rule of layer i falls short of g, a better rule of the layer or a layer inside
\* it has to cover.
Suspects(stack, k, g, i) ==
  {Claim(Meet(g.scope, t.scope),
         Decided(stack, k, i) \cup {u.scope : u \in Satisfying(stack[i], k, g)}) :
     t \in FallingShort(stack[i], k, g)}

\* And some layer has to raise the knob all over g.
Unraised(stack, k, g) ==
  Claim(g.scope, UNION {{t.scope : t \in Raising(stack[i], k)} : i \in DOMAIN stack})

ClaimsOf(stack, k, g) ==
  {Unraised(stack, k, g)} \cup UNION {Suspects(stack, k, g, i) : i \in DOMAIN stack}

Claims(doc, stack) ==
  UNION {UNION {ClaimsOf(stack, k, g) : g \in Raising(doc, k)} : k \in Keys}

\* Two rules that inject one column into one table in two shapes.
Conflict(r, s) ==
  r.column = s.column /\ r.shape # s.shape /\ Meet(r.scope, s.scope) # Nothing

\* check_inject_collisions.
Collides(doc, stack) ==
  \E i \in DOMAIN stack : \E r \in stack[i].injects, s \in doc.injects : Conflict(r, s)

\* Mutant: a knob flows to every layer.
Unpinned(doc) == doc

\* A knob that is not inherited is pinned to its default wherever the draft is silent.
Pinned(doc) ==
  [doc EXCEPT !.grants =
     [k \in Keys |-> IF k \in Inherited THEN doc.grants[k]
                     ELSE doc.grants[k] \cup {[scope |-> All, value |-> Default[k]]}]]

-----------------------------------------------------------------------------
PolicyInit ==
  /\ status = "open"
  /\ layers = <<>>
  /\ draft = NoDocument
  /\ claims = {}
  /\ region = Nothing
  /\ rest = {}

Propose(doc, stack) ==
  /\ status = "open"
  /\ status' = "proving"
  /\ layers' = stack
  /\ draft' = doc
  /\ claims' = Claims(doc, stack)
  /\ UNCHANGED <<region, rest>>

\* The root charter, and its own grants as the first draft against it.
LoadRoot(doc) ==
  /\ layers = <<>>
  /\ Propose([doc EXCEPT !.injects = {}], <<doc>>)

LoadLayer(doc) ==
  /\ layers # <<>> /\ Len(layers) < MaxLayers
  /\ Propose(doc, layers)

\* The next claim, once the last one's region is empty.
Examine ==
  /\ status = "proving" /\ region = Nothing
  /\ \E c \in claims :
       /\ claims' = claims \ {c}
       /\ region' = c.region
       /\ rest' = c.exempt
  /\ UNCHANGED <<status, layers, draft>>

\* One step of subtract_each; a scope that cannot be taken yet is put off.
Subtract(s) ==
  /\ status = "proving" /\ region # Nothing
  /\ s \in rest /\ Difference(region, s) # NotRepresentable
  /\ region' = Difference(region, s)
  /\ rest' = rest \ {s}
  /\ UNCHANGED <<status, layers, draft, claims>>

Exceeds ==
  /\ region # Nothing
  /\ \A s \in rest : Difference(region, s) = NotRepresentable

Admit ==
  /\ status = "proving" /\ region = Nothing /\ claims = {}
  /\ ~Collides(draft, layers)
  /\ status' = "open"
  /\ layers' = Append(layers, Pinned(draft))
  /\ draft' = NoDocument
  /\ UNCHANGED <<claims, region, rest>>

RefuseDraft ==
  /\ status = "proving"
  /\ Exceeds \/ (region = Nothing /\ claims = {} /\ Collides(draft, layers))
  /\ status' = "refused"
  /\ UNCHANGED <<layers, draft, claims, region, rest>>

\* Mutant: the scopes of the innermost layer alone.
CreateScopesInside(stack) == {g.scope : g \in Raising(stack[Len(stack)], CreateTable)}

\* Where any layer lets tables be created.
CreateScopes(stack) ==
  UNION {{g.scope : g \in Raising(stack[i], CreateTable)} : i \in DOMAIN stack}

\* creatable_escape_scope gathers them into one scope.
Gather ==
  /\ status = "open" /\ Len(layers) > 1
  /\ status' = "covering"
  /\ region' = Nothing
  /\ rest' = CreateScopes(layers)
  /\ UNCHANGED <<layers, draft, claims>>

Widen(s) ==
  /\ status = "covering" /\ s \in rest
  /\ region' = Join(region, s)
  /\ rest' = rest \ {s}
  /\ UNCHANGED <<status, layers, draft, claims>>

Mandatory(stack) ==
  UNION {{r \in stack[i].injects : r.mandatory} : i \in DOMAIN stack}

\* Mutant: conflicts of one layer's own rules are not looked for.
NoneInOneLayer(stack) == FALSE

ConflictInOneLayer(stack) ==
  \E i \in DOMAIN stack : \E r, s \in stack[i].injects : Conflict(r, s)

Sound ==
  /\ \A r \in Mandatory(layers) : Subset(region, r.scope)
  /\ ~ConflictInOneLayer(layers)

Compose ==
  /\ status = "covering" /\ rest = {} /\ Sound
  /\ status' = "composed"
  /\ UNCHANGED <<layers, draft, claims, region, rest>>

RefuseWhole ==
  /\ status = "covering" /\ rest = {} /\ ~Sound
  /\ status' = "refused"
  /\ UNCHANGED <<layers, draft, claims, region, rest>>

PolicyNext ==
  \/ \E doc \in Roots : LoadRoot(doc)
  \/ \E doc \in Drafts : LoadLayer(doc)
  \/ Examine
  \/ \E s \in rest : Subtract(s)
  \/ Admit
  \/ RefuseDraft
  \/ Gather
  \/ \E s \in rest : Widen(s)
  \/ Compose
  \/ RefuseWhole

PolicySpec == PolicyInit /\ [][PolicyNext]_policyVars

-----------------------------------------------------------------------------
(* Properties.                                                             *)

PolicyTypeOK ==
  /\ status \in {"open", "proving", "covering", "composed", "refused"}
  /\ layers \in Seq(Document)
  /\ draft \in Document
  /\ claims \subseteq [region : Scopes, exempt : SUBSET Scopes]
  /\ region \in Scopes /\ rest \subseteq Scopes

\* No layer loosens what the layers before it compose to, for any knob and any object,
\* whatever masks, overlaps and regions that have no scope lie between them (admit:
\* "the draft value is at most the charter's layered effective value").
NeverLooser ==
  [][layers # <<>> =>
       \A k \in Keys, o \in Objects : Value(layers', k, o) \subseteq Value(layers, k, o)]_policyVars

\* A knob that is not inherited is above its default only where every layer after the
\* root granted as much in its own words (pin_layer_key_to_default).
AskedFor ==
  \A k \in Keys \ Inherited, o \in Objects : \A i \in 2..Len(layers) :
    Value(layers, k, o) \subseteq ValueAt(layers[i], k, o)

\* In a composed policy a table can be created only where every mandatory inject reaches
\* (check_creatable_escape: "so the mandatory column cannot be escaped by creating
\* elsewhere").
InjectsCover ==
  status = "composed" =>
    \A o \in Objects : ~(Value(layers, CreateTable, o) \subseteq Default[CreateTable]) =>
      \A r \in Mandatory(layers) : o \in Members(r.scope)

\* In a composed policy no two rules inject one column into one object in two shapes,
\* whichever layers they come from (a column injected twice is a table that no database
\* creates).
OneShape ==
  status = "composed" =>
    \A i, j \in DOMAIN layers : \A r \in layers[i].injects, s \in layers[j].injects :
      r.column = s.column /\ Members(r.scope) \cap Members(s.scope) # {} => r.shape = s.shape
=============================================================================
