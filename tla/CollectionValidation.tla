------------------------- MODULE CollectionValidation -------------------------
(***************************************************************************)
(* The loops of validation/collections.rs that validate the parts of one   *)
(* collection: lists, tuples, sets and mappings.  Validating a part is a   *)
(* call of validate_node; here it is the part's outcome, chosen with the   *)
(* input, so that the loops are checked and proved for whatever the        *)
(* schemas of the parts do.  One action is one iteration of a loop, or one *)
(* of the steps before and after the loops.                                *)
(***************************************************************************)
EXTENDS ErrorReport

CONSTANTS
  MaxErrors,    \* options.limits.max_errors
  Keys,         \* canonical identities of hashable validated values
  Unhashable,   \* what canonical_key says of an aggregate value
  Collections   \* the collections to validate

Kinds == {"list", "tuple", "set", "object", "mapping"}

(* The input of a mapping is an object, whose keys are field names, or a   *)
(* sequence of entries.                                                    *)
Keyed(kind) == kind \in {"object", "mapping"}

(* A part of a collection: the outcome of its value, of its key (mappings) *)
(* and the identity of the value (sets) or of the key (mappings).          *)
Part == [value : Outcome(MaxErrors), key : Outcome(MaxErrors), identity : Keys \cup {Unhashable}]

(* accepted: the input has the right kind and, where the length is checked *)
(* before the parts, the right length.  fits: the number of distinct items *)
(* of a set, checked after its parts, is within the schema's bounds.       *)
Collection == [kind : Kinds, parts : Seq(Part), accepted : BOOLEAN, fits : BOOLEAN]

ASSUME LimitAssumption       == MaxErrors \in Nat \ {0}
ASSUME KeysAssumption        == Unhashable \notin Keys
ASSUME CollectionsAssumption == Collections \subseteq Collection
ASSUME CodesAssumption       == {"type", "length", "duplicate", "unhashable"} \subseteq Code

VARIABLES
  collection,  \* the collection under validation; never changes
  pass,        \* "enter", "parts", "keys" (the second loop of a set), "done"
  pos,         \* parts visited by the current loop
  errors,      \* Option<ValidationError>
  output,      \* the parts whose values are in the output, by position
  seen,        \* their identities (sets and mappings)
  found,       \* history: the errors of the visited parts, uncapped
  left         \* history: parts, or parts of parts, were left unvisited

vars == <<collection, pass, pos, errors, output, seen, found, left>>

Count == Len(collection.parts)

TypeOK ==
  /\ collection \in Collection
  /\ pass \in {"enter", "parts", "keys", "done"}
  /\ pos \in 0 .. Count
  /\ errors \in Report
  /\ output \in Seq(1 .. Count)
  /\ seen \subseteq Keys
  /\ found \in Seq(Detail)
  /\ left \in BOOLEAN

Init ==
  /\ collection \in Collections
  /\ pass = "enter"
  /\ pos = 0
  /\ errors = Nothing
  /\ output = << >>
  /\ seen = {}
  /\ found = << >>
  /\ left = FALSE

-----------------------------------------------------------------------------
(* sequence_input, the match on the mapping input, validate_length and the *)
(* tuple's length comparison: the collection fails before any part.        *)
Reject ==
  /\ pass = "enter"
  /\ ~collection.accepted
  /\ LET detail == [location |-> << >>, code |-> "type"]
     IN  errors' = One(detail) /\ found' = <<detail>>
  /\ pass' = "done"
  /\ UNCHANGED <<collection, pos, output, seen, left>>

Accept ==
  /\ pass = "enter"
  /\ collection.accepted
  /\ pass' = "parts"
  /\ UNCHANGED <<collection, pos, errors, output, seen, found, left>>

(* A loop goes on while parts remain and the last iteration did not break. *)
InLoop(loop) == pass = loop /\ pos < Count /\ ~IsFull(errors, MaxErrors)

LoopOver(loop) == pass = loop /\ ~InLoop(loop)

(* The end of an iteration that leaves the report e. *)
EndIteration(e, unvisited) ==
  LET more == pos + 1 < Count
  IN  /\ errors' = StopAfterErrorCap(e, more, MaxErrors)
      /\ left' = (unvisited \/ (IsFull(e, MaxErrors) /\ more))
      /\ pos' = pos + 1

Visited == collection.parts[pos + 1]

(* Where the visited item, key and value of an entry are located. *)
AtIndex == <<<<"index", pos>>>>
AtKey   == <<<<"key", pos>>>>
AtValue == <<<<IF collection.kind = "object" THEN "field" ELSE "index", pos>>>>

(* An iteration of validate_items (lists, sets) or of validate_tuple.      *)
VisitItem ==
  LET o == Visited.value
  IN  /\ InLoop("parts") /\ ~Keyed(collection.kind)
      /\ found' = found \o LocateAll(AtIndex, o.found)
      /\ EndIteration(Collect(errors, AtIndex, o, MaxErrors), left \/ o.left)
      /\ output' = IF IsFine(o) /\ collection.kind # "set" THEN Append(output, pos + 1) ELSE output
      /\ UNCHANGED <<collection, pass, seen>>

KeyOutcomeUnchecked(part) ==
  IF ~IsFine(part.key) \/ ~IsFine(part.value) THEN part.key
  ELSE IF part.identity = Unhashable
       THEN Single([location |-> << >>, code |-> "unhashable"])
       ELSE Fine

(* collect_mapping_entry: the error of the key, which is its own error or, *)
(* once both key and value are valid, an identity that cannot be used.     *)
KeyOutcome(part) ==
  IF ~IsFine(part.key) \/ ~IsFine(part.value) THEN part.key
  ELSE IF part.identity = Unhashable
       THEN Single([location |-> << >>, code |-> "unhashable"])
       ELSE IF part.identity \in seen
            THEN Single([location |-> << >>, code |-> "duplicate"])
            ELSE Fine

(* An iteration of validate_mapping: key and value are both validated.     *)
VisitEntry ==
  LET part  == Visited
      ofKey == KeyOutcome(part)
      kept  == IsFine(ofKey) /\ IsFine(part.value)
  IN  /\ InLoop("parts") /\ Keyed(collection.kind)
      /\ found' = found \o LocateAll(AtKey, ofKey.found)
                        \o LocateAll(AtValue, part.value.found)
      /\ EndIteration(Collect(Collect(errors, AtKey, ofKey, MaxErrors),
                              AtValue, part.value, MaxErrors),
                      left \/ ofKey.left \/ part.value.left)
      /\ output' = IF kept THEN Append(output, pos + 1) ELSE output
      /\ seen' = IF kept THEN seen \cup {part.identity} ELSE seen
      /\ UNCHANGED <<collection, pass>>

(* The end of the first loop.  A set goes on with its items' identities    *)
(* when every item is valid; everything else returns.                      *)
CloseParts ==
  /\ LoopOver("parts")
  /\ IF collection.kind = "set" /\ errors = Nothing
     THEN pass' = "keys" /\ pos' = 0
     ELSE pass' = "done" /\ UNCHANGED pos
  /\ UNCHANGED <<collection, errors, output, seen, found, left>>

(* An iteration of the second loop of validate_set.                        *)
VisitIdentity ==
  LET identity == Visited.identity
      o == IF identity = Unhashable
           THEN Single([location |-> << >>, code |-> "unhashable"]) ELSE Fine
      fresh == IsFine(o) /\ identity \notin seen
  IN  /\ InLoop("keys")
      /\ found' = found \o LocateAll(AtIndex, o.found)
      /\ EndIteration(Collect(errors, AtIndex, o, MaxErrors), left)
      /\ output' = IF fresh THEN Append(output, pos + 1) ELSE output
      /\ seen' = IF fresh THEN seen \cup {identity} ELSE seen
      /\ UNCHANGED <<collection, pass>>

(* The end of the second loop: the length of the set without duplicates.   *)
CloseSet ==
  /\ LoopOver("keys")
  /\ IF errors = Nothing /\ ~collection.fits
     THEN LET detail == [location |-> << >>, code |-> "length"]
          IN  errors' = One(detail) /\ found' = <<detail>>
     ELSE UNCHANGED <<errors, found>>
  /\ pass' = "done"
  /\ UNCHANGED <<collection, pos, output, seen, left>>

Next ==
  \/ Reject
  \/ Accept
  \/ VisitItem
  \/ VisitEntry
  \/ CloseParts
  \/ VisitIdentity
  \/ CloseSet

Spec == Init /\ [][Next]_vars

-----------------------------------------------------------------------------
(* The report is the capped prefix of the errors of the visited parts, and *)
(* it is flagged exactly when errors were dropped or parts left unvisited: *)
(* append, is_full and stop_after_error_cap together, through any nesting. *)
ReportContract == Covers(errors, found, left, MaxErrors)

Mentioned(part) ==
  \E i \in 1 .. Len(found) :
    found[i].location # << >> /\ Head(found[i].location)[2] = part - 1

(* No part vanishes: when validation returns, every part is in the output, *)
(* has an error, or is covered by the truncation flag.  This includes the  *)
(* entries whose key is valid and whose value is not, and the duplicates   *)
(* of such entries.  Only valid items of a set may be missing without a    *)
(* word: those equal to an item of the output, and all of them when some   *)
(* other item is not valid.                                                *)
NoPartVanishes ==
  (pass = "done" /\ collection.accepted) =>
    \A p \in 1 .. Count :
      \/ \E i \in 1 .. Len(output) : output[i] = p
      \/ Mentioned(p)
      \/ errors.truncated
      \/ /\ collection.kind = "set"
         /\ IsFine(collection.parts[p].value)
         /\ \/ collection.parts[p].identity \in seen
            \/ \E q \in 1 .. Count : ~IsFine(collection.parts[q].value)

(* What a valid collection gives: all parts are valid; the output has all  *)
(* of them in order, of a set the first of every identity, and no two      *)
(* entries of a mapping share a key.                                       *)
ValidOutput ==
  (pass = "done" /\ errors = Nothing) =>
    LET repeats(p) == \E q \in 1 .. p - 1 :
                        collection.parts[q].identity = collection.parts[p].identity
    IN  /\ \A p \in 1 .. Count :
             /\ IsFine(collection.parts[p].value)
             /\ Keyed(collection.kind) => IsFine(collection.parts[p].key) /\ ~repeats(p)
             /\ (\E i \in 1 .. Len(output) : output[i] = p) <=> (collection.kind = "set" => ~repeats(p))
        /\ \A i, j \in 1 .. Len(output) : i < j => output[i] < output[j]
=============================================================================
