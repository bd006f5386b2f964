----------------------------- MODULE FieldSelection -----------------------------
(***************************************************************************)
(* What the options of a dump and the policies of its plan say of a place  *)
(* in a value: the selection of fields (serialization/selection.rs), their *)
(* names and their defaults (serialization/plan.rs).                       *)
(***************************************************************************)
EXTENDS Naturals, Sequences, SequencesExt

Field(name) == <<"field", name>>
Index(i) == <<"index", i>>
AnyIndex == <<"any">>

None == << >>         \* of an Option that is << >> or <<value>>

Sequential == {"list", "tuple", "set"}

Matches(planned, path) ==
  /\ Len(planned) = Len(path)
  /\ \A i \in 1 .. Len(path) :
       planned[i] = path[i] \/ (planned[i] = AnyIndex /\ path[i][1] = "index")

(* field_policy: the first that matches, if any. *)
FieldPolicy(plan, path) ==
  LET matching == SelectSeq(plan, LAMBDA policy : Matches(policy.path, path))
  IN  IF matching = << >> THEN None ELSE <<Head(matching)>>

DefaultAt(plan, path) ==
  LET policy == FieldPolicy(plan, path)
  IN  IF policy = None THEN None ELSE policy[1].default

OutputName(plan, options, path, name) ==
  LET policy == FieldPolicy(plan, path)
  IN  IF options.byAlias /\ policy # None /\ policy[1].alias # None
      THEN policy[1].alias[1] ELSE name

Selected(options, path) ==
  /\ \/ options.include = {}
     \/ \E s \in options.include : IsPrefix(s, path) \/ IsPrefix(path, s)
  /\ ~\E s \in options.exclude : IsPrefix(s, path)
=============================================================================
