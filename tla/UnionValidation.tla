---------------------------- MODULE UnionValidation ----------------------------
(***************************************************************************)
(* validate_union and validate_tagged_union of validation/sums.rs, and     *)
(* their twins for static schemas in validation/static_sums.rs: which      *)
(* branch of a union wins, and what is reported when none does.            *)
(* Validating a branch is a call of validate_branch; here it is what the   *)
(* branch gives, chosen with the union.  One action is one iteration of    *)
(* the loop over the choices, or the step before or after it.              *)
(***************************************************************************)
EXTENDS ErrorReport, Integers

CONSTANTS
  MaxErrors,    \* options.limits.max_errors
  Unions        \* the unions to validate

Uncounted == -1

(* A choice: the errors of its branch or, when it is valid, the number of  *)
(* fields its models have validated and how exactly its schema meets the   *)
(* input (0 lax, 1 strict, 2 exact).                                       *)
Choice == [outcome : Outcome(MaxErrors), fields : Nat \cup {Uncounted}, exactness : 0 .. 2]

(* The discriminator of a tagged union names a choice, or is missing (0),  *)
(* or names none (the number after the last choice).                       *)
Union == [mode : {"left_to_right", "smart", "tagged"}, collapses : BOOLEAN, override : BOOLEAN,
          tag : Nat, choices : Seq(Choice)]

ASSUME LimitAssumption == MaxErrors \in Nat \ {0}
ASSUME UnionsAssumption ==
  /\ Unions \subseteq Union
  /\ \A u \in Unions : Len(u.choices) > 0 /\ u.tag \in 0 .. Len(u.choices) + 1
ASSUME CodesAssumption == {"tag_missing", "tag_invalid", "declared", "resource_limit"} \subseteq Code

VARIABLES
  union,     \* the union under validation; never changes
  pass,      \* "enter", "choices", "valid", "invalid"
  pos,       \* choices tried
  best,      \* the choice kept so far, 0 for none
  winner,    \* the choice imported
  errors,    \* Option<ValidationError>
  found,     \* history: the errors of the tried branches, uncapped
  left       \* history: parts of branches were left unvisited

vars == <<union, pass, pos, best, winner, errors, found, left>>

Count == Len(union.choices)

Init ==
  /\ union \in Unions
  /\ pass = "enter"
  /\ pos = 0
  /\ best = 0
  /\ winner = 0
  /\ errors = Nothing
  /\ found = << >>
  /\ left = FALSE

-----------------------------------------------------------------------------
(* apply_override: the first error alone, under the declared code, at its  *)
(* own location.  Errors of limits are kept as they are.                   *)
Replaces(details) == union.override /\ details # << >> /\ details[1].code # "resource_limit"

Declared(details) == <<[details[1] EXCEPT !.code = "declared"]>>

OverrideOf(report) ==
  IF Replaces(report.details) THEN One(Declared(report.details)[1]) ELSE report

(* The union fails with a report; the history follows the override.        *)
FailWith(report, errorsFound, unvisited) ==
  /\ pass' = "invalid"
  /\ errors' = OverrideOf(report)
  /\ found' = (IF Replaces(errorsFound) THEN Declared(errorsFound) ELSE errorsFound)
  /\ left' = (unvisited /\ ~Replaces(errorsFound))
  /\ UNCHANGED <<union, best, winner>>

Import(c) ==
  /\ pass' = "valid"
  /\ winner' = c
  /\ UNCHANGED <<union, best, errors, found, left>>

AtBranch(c) == <<<<"branch", c>>>>

(* A union of one choice that collapses is the choice: its errors get no   *)
(* label and are not replaced.                                             *)
Collapsed == union.mode # "tagged" /\ Count = 1 /\ union.collapses

ValidateAlone ==
  LET o == union.choices[1].outcome
  IN  /\ pass = "enter" /\ Collapsed
      /\ pos' = 1
      /\ IF IsFine(o) THEN Import(1)
         ELSE /\ pass' = "invalid"
              /\ errors' = ReportOf(o, MaxErrors)
              /\ found' = o.found /\ left' = o.left
              /\ UNCHANGED <<union, best, winner>>

ValidateTagged ==
  LET o == union.choices[union.tag].outcome
      label == AtBranch(union.tag)
      failure(code) == <<[location |-> << >>, code |-> code]>>
  IN  /\ pass = "enter" /\ union.mode = "tagged"
      /\ IF union.tag = 0 THEN
           /\ FailWith(One(failure("tag_missing")[1]), failure("tag_missing"), FALSE)
           /\ UNCHANGED pos
         ELSE IF union.tag > Count THEN
           /\ FailWith(One(failure("tag_invalid")[1]), failure("tag_invalid"), FALSE)
           /\ UNCHANGED pos
         ELSE /\ pos' = union.tag
              /\ IF IsFine(o) THEN Import(union.tag)
                 ELSE FailWith(At(label, ReportOf(o, MaxErrors)), LocateAll(label, o.found), o.left)

EnterChoices ==
  /\ pass = "enter" /\ union.mode # "tagged" /\ ~Collapsed
  /\ pass' = "choices"
  /\ UNCHANGED <<union, pos, best, winner, errors, found, left>>

BetterOrEqual(c, d) ==
  LET a == union.choices[c]
      b == union.choices[d]
  IN  IF a.fields # Uncounted /\ b.fields # Uncounted /\ a.fields # b.fields
      THEN a.fields > b.fields
      ELSE a.exactness >= b.exactness

(* candidate_is_better: by the number of fields where both have one, else  *)
(* by exactness.                                                           *)
Better(c, d) ==
  LET a == union.choices[c]
      b == union.choices[d]
  IN  IF a.fields # Uncounted /\ b.fields # Uncounted /\ a.fields # b.fields
      THEN a.fields > b.fields
      ELSE a.exactness > b.exactness

DecidesWhenExact(c) == union.mode = "left_to_right" \/ union.choices[c].exactness = 2

(* The choice ends the loop: no later one is tried. *)
Decides(c) ==
  \/ union.mode = "left_to_right"
  \/ union.choices[c].exactness = 2 /\ union.choices[c].fields = Uncounted

TryChoiceKeepFirst ==
  LET c == pos + 1
      o == union.choices[c].outcome
  IN  /\ pass = "choices" /\ pos < Count
      /\ pos' = c
      /\ IF ~IsFine(o) THEN
           /\ errors' = CollectError(errors, At(AtBranch(c), ReportOf(o, MaxErrors)), MaxErrors)
           /\ found' = found \o LocateAll(AtBranch(c), o.found)
           /\ left' = (left \/ o.left)
           /\ UNCHANGED <<union, pass, best, winner>>
         ELSE IF Decides(c) THEN Import(c)
         ELSE /\ best' = (IF best = 0 THEN c ELSE best)
              /\ UNCHANGED <<union, pass, winner, errors, found, left>>

(* An iteration of the loop over the choices. *)
TryChoice ==
  LET c == pos + 1
      o == union.choices[c].outcome
  IN  /\ pass = "choices" /\ pos < Count
      /\ pos' = c
      /\ IF ~IsFine(o) THEN
           /\ errors' = CollectError(errors, At(AtBranch(c), ReportOf(o, MaxErrors)), MaxErrors)
           /\ found' = found \o LocateAll(AtBranch(c), o.found)
           /\ left' = (left \/ o.left)
           /\ UNCHANGED <<union, pass, best, winner>>
         ELSE IF Decides(c) THEN Import(c)
         ELSE /\ best' = (IF best = 0 \/ Better(c, best) THEN c ELSE best)
              /\ UNCHANGED <<union, pass, winner, errors, found, left>>

EndChoicesErrorsFirst ==
  /\ pass = "choices" /\ pos = Count
  /\ IF errors = Nothing THEN Import(best) ELSE FailWith(errors, found, left)
  /\ UNCHANGED pos

EndChoices ==
  /\ pass = "choices" /\ pos = Count
  /\ IF best # 0 THEN Import(best) ELSE FailWith(errors, found, left)
  /\ UNCHANGED pos

Next == ValidateAlone \/ ValidateTagged \/ EnterChoices \/ TryChoice \/ EndChoices

Spec == Init /\ [][Next]_vars

-----------------------------------------------------------------------------
Valid == {c \in 1 .. Count : IsFine(union.choices[c].outcome)}

(* The report of a failed union is exact: the capped prefix of the errors  *)
(* of all branches, truthfully flagged, or the one error that replaces     *)
(* them.                                                                   *)
ReportContract ==
  /\ pass = "choices" => Covers(errors, found, left, MaxErrors)
  /\ pass = "invalid" => Covers(errors, found, left, MaxErrors) /\ errors # Nothing

(* A union that is not tagged is valid exactly when one of its branches    *)
(* is, whatever the mode, the cap and the errors before.                   *)
Verdict ==
  union.mode # "tagged" =>
    /\ pass = "valid" => winner \in Valid
    /\ pass = "invalid" => Valid = {}

Above(c, d) ==
  LET a == union.choices[c]
      b == union.choices[d]
  IN  a.fields > b.fields \/ (a.fields = b.fields /\ a.exactness > b.exactness)

(* candidate_is_better is not transitive once branches with and without a  *)
(* field count meet.  What the smart mode promises in every case: nothing  *)
(* tried after the winner is better than it.  Where every valid branch has *)
(* a field count, or none has, the winner is the best by fields and then   *)
(* exactness, and the first of equally good ones.                          *)
BestWins ==
  (union.mode = "smart" /\ pass = "valid") =>
    /\ \A c \in Valid : winner < c /\ c <= pos => ~Better(c, winner)
    /\ (\A c, d \in Valid :
          (union.choices[c].fields = Uncounted) = (union.choices[d].fields = Uncounted)) =>
         \A c \in Valid : /\ c < winner => Above(winner, c)
                          /\ c > winner => ~Above(c, winner)

(* The smart mode leaves branches untried, with their callbacks and default *)
(* factories, exactly when it has met one that is exact and has no fields  *)
(* to count: that one wins at once, whatever was kept before it.           *)
ExactEndsTheLoop ==
  LET Deciding == {c \in Valid : union.choices[c].exactness = 2 /\ union.choices[c].fields = Uncounted}
  IN  union.mode = "smart" =>
        /\ \A c \in Deciding : pos <= c /\ (pos = c /\ pass = "valid" => winner = c)
        /\ pass = "valid" /\ pos < Count => winner = pos /\ winner \in Deciding
=============================================================================
