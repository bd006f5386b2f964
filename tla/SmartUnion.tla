------------------------------- MODULE SmartUnion -------------------------------
(***************************************************************************)
(* The composition of a smart union with what it chooses from: its loop    *)
(* (UnionValidation) over branches that validate a JSON input              *)
(* (JsonAcceptance), are judged by the shapes of schema and input          *)
(* (InputExactness) and name the member they hold (SumLayout).  What a     *)
(* branch that fails reports does not matter here: it is one error.        *)
(***************************************************************************)
EXTENDS UnionValidation, SumLayout

CONSTANTS
  Samples,      \* smart unions and inputs: origin, strict, branches, definitions, json
  Failing       \* the code of the error of a branch that fails

Accepted(sample, c) ==
  Accepts(sample.branches[c], sample.definitions, sample.json, sample.strict)

(* What validate_branch, validated_field_score and candidate_exactness give*)
(* the loop.                                                               *)
BranchChoice(sample, c) ==
  IF Accepted(sample, c)
  THEN Judgement(sample.branches[c], sample.definitions, sample.json,
                 [origin |-> sample.origin, strict |-> sample.strict])
         @@ [outcome |-> Fine]
  ELSE [outcome |-> [found |-> <<[location |-> << >>, code |-> Failing]>>, left |-> FALSE],
        fields |-> Uncounted, exactness |-> 0]

UnionOf(sample) ==
  [mode |-> "smart", collapses |-> FALSE, override |-> FALSE, tag |-> 0,
   choices |-> [c \in DOMAIN sample.branches |-> BranchChoice(sample, c)]]

(* The samples a union stands for.                                         *)
SamplesOf ==
  LET unions == [sample \in Samples |-> UnionOf(sample)]
  IN  [u \in Range(unions) |-> {sample \in Samples : unions[sample] = u}]

ASSUME SamplesAssumption ==
  /\ Failing \in Code /\ DOMAIN SamplesOf \subseteq Unions
  /\ \A sample \in Samples :
       /\ \A c \in DOMAIN sample.branches : Constructible(sample.branches[c], sample.definitions)
       /\ \A name \in DOMAIN sample.definitions :
            Constructible(sample.definitions[name], sample.definitions)

-----------------------------------------------------------------------------
StrictlyValid(sample) ==
  {c \in DOMAIN sample.branches : Accepts(sample.branches[c], sample.definitions, sample.json, TRUE)}

(* The schemas whose shape tells whether they validate strictly what they  *)
(* accept: not those over sequences (a JSON array has no shape a schema    *)
(* asks for), root models, allowed extras, keys that are not texts, nested *)
(* unions and control schemas.                                             *)
RECURSIVE ShapeTells(_, _)
ShapeTells(node, defs) ==
  CASE node.tag \in {"none", "bool", "integer", "float", "string", "literal", "ref"} -> TRUE
    [] node.tag = "nullable" -> ShapeTells(node.children[1], defs)
    [] node.tag = "model" ->
         /\ ~node.root /\ node.rule.extra # "allow"
         /\ \A f \in DOMAIN node.fields : ShapeTells(node.fields[f].schema, defs)
    [] node.tag = "mapping" -> IsText(node.children[1], defs) /\ ShapeTells(node.children[2], defs)
    [] OTHER -> FALSE

AllTell(sample) ==
  /\ \A c \in DOMAIN sample.branches : ShapeTells(sample.branches[c], sample.definitions)
  /\ \A name \in DOMAIN sample.definitions :
       ShapeTells(sample.definitions[name], sample.definitions)

(* A smart union converts nothing it need not: where a branch takes the    *)
(* JSON as it is, the value kept is of such a branch, or else its models   *)
(* have taken more fields than those of one that does.                     *)
SmartKeepsStrict ==
  (pass = "valid" /\ union \in DOMAIN SamplesOf) =>
    \A sample \in SamplesOf[union] :
      LET strict == StrictlyValid(sample)
      IN  AllTell(sample) /\ strict # {} =>
            \/ winner \in strict
            \/ \E c \in strict : /\ Uncounted # union.choices[c].fields
                                 /\ union.choices[winner].fields > union.choices[c].fields

(* The value that is kept says of itself what it is: however deep the      *)
(* union's branches are nested in sums of their own, with places of their  *)
(* own, the value names the type that its member was validated as.  And    *)
(* the places a union has are those of the types its values can have, one  *)
(* for each, whatever the order of its branches.                                     *)
ValueTellsItsType ==
  (pass = "valid" /\ union \in DOMAIN SamplesOf) =>
    \A sample \in {s \in SamplesOf[union] : s.origin = "owned"} :
      LET branch == sample.branches[winner]
          defs   == sample.definitions
          o      == [origin |-> "owned", strict |-> sample.strict]
          layout == LayoutOfAll(sample.branches, defs)
      IN  /\ IsMember(layout, Imported(layout, branch, defs, Output(branch, defs, sample.json, o)),
                      ReachedType(branch, defs, sample.json, o))
          /\ IsInjective(layout)
          /\ Range(layout) = UNION {MemberTypes(sample.branches[c], defs) : c \in DOMAIN sample.branches}
          /\ LayoutOfAll(Reverse(sample.branches), defs) = layout
=============================================================================
