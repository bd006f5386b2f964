--------------------------- MODULE DefinitionWorklist ---------------------------
(***************************************************************************)
(* What the loop over the definitions of a JSON Schema document promises   *)
(* (generate_with_serializers of json_schema/static_schema.rs): the parts  *)
(* of the schema itself are generated first; every definition one of them  *)
(* refers to is listed once, and so is every definition that a listed one  *)
(* refers to; the loop ends when all that is listed has been generated.    *)
(* What a part looks like, and the order of the names, is not said.        *)
(***************************************************************************)
EXTENDS Naturals, Sequences

CONSTANT Names            \* of definitions

VARIABLES
  needs,       \* the names each part of the schema itself refers to; never changes
  refers,      \* the names each definition refers to; never changes
  begun,       \* parts generated
  listed,      \* the definitions listed so far
  handled,     \* definitions generated
  status       \* "working", "done" or "failed"

vars == <<needs, refers, begun, listed, handled, status>>

Listing(s) == {s[i] : i \in 1 .. Len(s)}

Distinct(s) == \A i, j \in 1 .. Len(s) : s[i] = s[j] => i = j

Init ==
  /\ needs \in Seq(SUBSET Names)
  /\ refers \in [Names -> SUBSET Names]
  /\ begun = 0
  /\ listed = << >>
  /\ handled = 0
  /\ status = "working"

(* The names that are not listed yet are appended, each once.              *)
Mention(names) ==
  /\ listed' \in Seq(Names)
  /\ Len(listed) <= Len(listed')
  /\ \A i \in 1 .. Len(listed) : listed'[i] = listed[i]
  /\ Distinct(listed')
  /\ Listing(listed') = Listing(listed) \cup names

VisitPart ==
  /\ status = "working"
  /\ begun < Len(needs)
  /\ Mention(needs[begun + 1])
  /\ begun' = begun + 1
  /\ UNCHANGED <<needs, refers, handled, status>>

VisitDefinition ==
  /\ status = "working"
  /\ begun = Len(needs)
  /\ handled < Len(listed)
  /\ Mention(refers[listed[handled + 1]])
  /\ handled' = handled + 1
  /\ UNCHANGED <<needs, refers, begun, status>>

Finish ==
  /\ status = "working"
  /\ begun = Len(needs)
  /\ handled = Len(listed)
  /\ status' = "done"
  /\ UNCHANGED <<needs, refers, begun, listed, handled>>

(* A part or a definition has no document, or a limit is met.              *)
Fail ==
  /\ status = "working"
  /\ status' = "failed"
  /\ UNCHANGED <<needs, refers, begun, listed, handled>>

Next == VisitPart \/ VisitDefinition \/ Finish \/ Fail

Spec == Init /\ [][Next]_vars

-----------------------------------------------------------------------------
Mentioned(names) ==
  /\ \A p \in 1 .. Len(needs) : needs[p] \subseteq names
  /\ \A n \in names : refers[n] \subseteq names

(* A finished document defines what it refers to, directly or by way of    *)
(* other definitions, once each, and nothing else: its definitions are the *)
(* least set that holds all names mentioned by the schema and by itself.   *)
LeastClosed ==
  status = "done" =>
    /\ Distinct(listed)
    /\ Mentioned(Listing(listed))
    /\ \A names \in SUBSET Names : Mentioned(names) => Listing(listed) \subseteq names
=============================================================================
