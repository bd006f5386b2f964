---------------------------- MODULE GeneratorIterator ----------------------------
(***************************************************************************)
(* ValidatedIterator of validation/collections.rs: the items of a sequence *)
(* are validated one by one, when the user asks for the next.  The lengths *)
(* are tested at each call, where a list has been refused before its first *)
(* item.  Here a user pulls the iterator over the input that was validated *)
(* as a list before, so that the two can be compared; the iterator shares  *)
(* nothing with the list.  Each pulled item is a validation of its own: it *)
(* starts at depth 0 and tests the limits of that item alone, so its       *)
(* outcome may be another than the one the item has below its list, and a  *)
(* list can be refused, for strictness or by a limit its items meet        *)
(* together, that the iterator hands out.                                  *)
(***************************************************************************)
EXTENDS CollectionValidation

CONSTANTS
  MaxItems,    \* options.limits.max_collection_items
  Bounds,      \* the lengths a schema may ask for
  Alone(_)     \* the outcomes the items of a list may have by themselves

None == << >>

(* Optional bounds, << >> or <<length>>.                                   *)
Bound == [min : Seq(Nat), max : Seq(Nat)]

ASSUME ItemsAssumption       == MaxItems \in Nat
ASSUME BoundsAssumption      == Bounds \subseteq Bound
ASSUME AloneAssumption       ==
  \A c \in Collections : Alone(c) \subseteq [1 .. Len(c.parts) -> Outcome(MaxErrors)]
ASSUME LengthCodesAssumption == {"too_long", "too_short"} \subseteq Code

VARIABLES
  bounds,      \* the constraints of the schema; never changes
  sequence,    \* the input is a sequence of whatever kind; never changes
  pulled,      \* what validating each item by itself gives; never changes
  iterating,   \* "none", "refused", or "pulling"
  index,       \* items asked for
  finished,    \* next answers nothing any more
  answers,     \* history: what next answered, as long as it was something
  silent       \* history: it answered nothing

given == <<bounds, sequence, pulled>>

iteratorVars == <<given, iterating, index, finished, answers, silent>>

Within(b, n) == (b.min # None => b.min[1] <= n) /\ (b.max # None => n <= b.max[1])

(* The items by themselves have the outcomes they have in the list.        *)
AlikeAlone == pulled = [i \in 1 .. Count |-> collection.parts[i].value]

(* A list is refused before its items when the input is no sequence, the   *)
(* bounds are not met or there are too many items, but also by strictness  *)
(* and by limits on the input as a whole.                                  *)
IteratorInit ==
  /\ Init
  /\ bounds \in Bounds
  /\ sequence \in BOOLEAN
  /\ pulled \in Alone(collection)
  /\ IF collection.kind = "list"
     THEN /\ collection.accepted => sequence /\ Within(bounds, Count) /\ Count <= MaxItems
          /\ ~sequence => Count = 0
     ELSE bounds = [min |-> None, max |-> None] /\ sequence /\ AlikeAlone
  /\ iterating = "none"
  /\ index = 0
  /\ finished = FALSE
  /\ answers = << >>
  /\ silent = FALSE

(* validated_iterator: sequence_input with strictness off, then the limit. *)
CreateIterator ==
  /\ pass = "done" /\ collection.kind = "list" /\ iterating = "none"
  /\ iterating' = IF sequence /\ Count <= MaxItems THEN "pulling" ELSE "refused"
  /\ UNCHANGED <<given, index, finished, answers, silent>>

-----------------------------------------------------------------------------
LengthError(code) == <<"error", One([location |-> << >>, code |-> code])>>

ItemAnswerUnlocated(i) ==
  LET o == pulled[i]
  IN  IF IsFine(o) THEN <<"value", i>> ELSE <<"error", ReportOf(o, MaxErrors)>>

(* What validating an item by itself answers, located at the item.         *)
ItemAnswer(i) ==
  LET o == pulled[i]
  IN  IF IsFine(o) THEN <<"value", i>>
      ELSE <<"error", At(<<<<"index", i - 1>>>>, ReportOf(o, MaxErrors))>>

TooLongLate == bounds.max # None /\ index > bounds.max[1] /\ index < Count

TooLong == bounds.max # None /\ index >= bounds.max[1] /\ index < Count

TooShort == bounds.min # None /\ index < bounds.min[1]

Answer(answer) == answers' = Append(answers, answer) /\ UNCHANGED silent

AnswerNothing == silent' = TRUE /\ UNCHANGED answers

(* next: finished before; too many items; no more items, and perhaps too   *)
(* few; or the next item, which may be valid or not.                       *)
PullFinished ==
  /\ iterating = "pulling" /\ finished
  /\ AnswerNothing
  /\ UNCHANGED <<given, iterating, index, finished>>

PullTooLong ==
  /\ iterating = "pulling" /\ ~finished /\ TooLong
  /\ Answer(LengthError("too_long"))
  /\ finished' = TRUE
  /\ UNCHANGED <<given, iterating, index>>

PullEnd ==
  /\ iterating = "pulling" /\ ~finished /\ ~TooLong /\ index >= Count
  /\ IF TooShort THEN Answer(LengthError("too_short")) ELSE AnswerNothing
  /\ finished' = TRUE
  /\ UNCHANGED <<given, iterating, index>>

PullItem ==
  /\ iterating = "pulling" /\ ~finished /\ ~TooLong /\ index < Count
  /\ Answer(ItemAnswer(index + 1))
  /\ index' = index + 1
  /\ UNCHANGED <<given, iterating, finished>>

IteratorStep == CreateIterator \/ PullFinished \/ PullTooLong \/ PullEnd \/ PullItem

IteratorNext ==
  \/ Next /\ UNCHANGED iteratorVars
  \/ IteratorStep /\ UNCHANGED vars

IteratorSpec == IteratorInit /\ [][IteratorNext]_<<vars, iteratorVars>>

-----------------------------------------------------------------------------
(* The answers an iterator owes its user: those of all items, or of as     *)
(* many as the schema allows and an error, or of all items and an error.   *)
Promised ==
  LET items(n) == [i \in 1 .. n |-> ItemAnswer(i)]
  IN  IF bounds.max # None /\ Count > bounds.max[1]
      THEN Append(items(bounds.max[1]), LengthError("too_long"))
      ELSE IF bounds.min # None /\ Count < bounds.min[1]
      THEN Append(items(Count), LengthError("too_short"))
      ELSE items(Count)

Stream == INSTANCE PromisedStream WITH
  promised  <- Promised,
  delivered <- answers,
  ended     <- silent

(* An iterator delivers what it owes, in order, one answer for each call,  *)
(* and is silent ever after.                                               *)
StreamKept == Stream!Spec

(* One sequence of several: what the first k of them give together.        *)
Joined(parts) ==
  LET joined[k \in 0 .. Len(parts)] == IF k = 0 THEN << >> ELSE joined[k - 1] \o parts[k]
  IN  joined

(* Pulling to the end and validating the list, once both are done.  What   *)
(* the iterator does not start on, or finds too long or too short, the     *)
(* list refused too, and an error of the stream says which.  And a list    *)
(* that was accepted, whose items by themselves are what they are in it,   *)
(* is answered as it was: the same values in order when it is valid, else  *)
(* the same errors as far as the cap allows.                               *)
PullsAgree ==
  pass = "done" =>
    LET isError(k) == answers[k][1] = "error"
        details == [k \in 1 .. Len(answers) |->
                      IF isError(k) THEN answers[k][2].details ELSE << >>]
        failed == \E k \in 1 .. Len(answers) : isError(k)
    IN  /\ iterating = "refused" => errors # Nothing
        /\ silent /\ ~Within(bounds, Count) => errors # Nothing /\ failed
        /\ silent /\ collection.accepted /\ AlikeAlone =>
             /\ errors = Nothing <=> ~failed
             /\ errors = Nothing => answers = [i \in 1 .. Len(output) |-> <<"value", output[i]>>]
             /\ errors.details = Take(Joined(details)[Len(answers)], MaxErrors)
=============================================================================
