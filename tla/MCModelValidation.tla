--------------------------- MODULE MCModelValidation ---------------------------
(* Small instances of ModelValidation, in two families: Capped varies the  *)
(* errors of two fields, their defaults and two extras; Aliased varies how *)
(* two fields select their entries among three, some of them shared.       *)
EXTENDS ModelValidation, SequencesExt

MCName == 1 .. 4
MCCode == {"model_type", "missing", "extra_forbidden", "child"}

(* The first error is about an extra of the part itself.                   *)
ChildErrors(n) ==
  [i \in 1 .. n |-> [location |-> <<<<"index", i>>>>, code |-> IF i = 1 THEN "extra_forbidden" ELSE "child"]]
Found(n, l) == [found |-> ChildErrors(n), left |-> l]

Plain(name, input, default, o, d) ==
  [name |-> name, input |-> input, aliases |-> << >>, default |-> default, outcome |-> o, ofDefault |-> d]

(* Two errors with something left is the smallest outcome at the cap; with *)
(* three the callee itself had to drop one.                                *)
Outcomes == {Fine, Found(1, FALSE), Found(2, FALSE), Found(2, TRUE), Found(3, FALSE)}
FewOutcomes == {Fine, Found(1, FALSE)}

PlainFields(name) ==
  {Plain(name, TRUE, d, o, Fine) : d \in {"required", "construction"}, o \in Outcomes}
    \cup {Plain(name, i, "value", Found(1, FALSE), d) : i \in BOOLEAN, d \in FewOutcomes}

Destination == Plain(4, FALSE, "required", Fine, Fine)

Sorted(names) == SetToSortSeq(names, <)

WithOutcomes(names, os) ==
  {[e \in 1 .. Len(names) |-> [name |-> names[e], deeper |-> FALSE, outcome |-> o[e]]] :
     o \in [1 .. Len(names) -> os]}

Models(first, second, extra, byName, byAlias) ==
  LET m(fs) == [fields |-> fs, extra |-> extra, byName |-> byName, byAlias |-> byAlias,
                destination |-> IF extra = "allow" THEN 4 ELSE Absent]
  IN  IF extra = "allow"
      THEN {m(<<f, Destination, g>>) : f \in first, g \in second}
      ELSE {m(<<f, g>>) : f \in first, g \in second}

Capped ==
  UNION {[model : Models(PlainFields(1), PlainFields(2), extra, FALSE, FALSE),
          entries : UNION {WithOutcomes(Sorted(names), IF extra = "allow" THEN FewOutcomes ELSE {Fine}) :
                             names \in SUBSET (1 .. 4)},
          accepted : {TRUE}] : extra \in {"ignore", "forbid", "allow"}}

AliasLists == {<< >>, <<[top |-> 3, deeper |-> FALSE]>>, <<[top |-> 3, deeper |-> TRUE]>>,
               <<[top |-> Absent, deeper |-> FALSE], [top |-> 2, deeper |-> FALSE]>>}

AliasedFields(name) ==
  {[name |-> name, input |-> TRUE, aliases |-> a, default |-> d, outcome |-> o, ofDefault |-> Fine] :
     a \in AliasLists, d \in {"required", "value"}, o \in FewOutcomes}

Arrangements == {s \in UNION {[1 .. n -> 1 .. 3] : n \in 0 .. 3} : Cardinality({s[i] : i \in DOMAIN s}) = Len(s)}
                  \cup {<<1, 1>>}

Aliased ==
  UNION {[model : UNION {Models(AliasedFields(1), AliasedFields(2), extra, byName, byAlias) :
                           extra \in {"forbid"}, byName \in BOOLEAN, byAlias \in BOOLEAN},
          entries : {[e \in 1 .. Len(s) |-> [name |-> s[e], deeper |-> d, outcome |-> Fine]] :
                       s \in Arrangements, d \in BOOLEAN},
          accepted : {TRUE}]}

Rejected ==
  [model : Models(PlainFields(1), PlainFields(2), "forbid", FALSE, FALSE),
   entries : {<< >>}, accepted : {FALSE}]

MCCases == Capped \cup Aliased \cup Rejected
=============================================================================
